SPECIFICATION PagesSpec
CONSTANTS
  PageSet = {"logs", "problems", "docker", "maintenance", "host",
             "latest", "metrics", "query", "topology"}
  Stream = {s1}
  Default = s1
  NoStream = NoStream
  Value = {v}
  Clicks = 3
  NoData = NoData
  Actions = 2
  MaxMoves = 1
  Problem = {"p1"}
  Host = {"h1"}
  Field = {"suppressed"}
  Engine = {"e1", "e2"}
  HostFilter = {"all", "one"}
  Target = {"h1"}
  Minutes = {30}
  Absent = Absent
  Closed = Closed
  Now = 1000
  Zone <- Autumn
  Ranges = {"hour", "day"}
  Cap = 2
  None = None
  Eager = 1
  Moves = 3
  Turns = 3
  Facts = Facts
  Searching = 3
  Edits = 3
  HostOf <- AllOnOneHost
  Windows <- RecurringWindows
  ItemLists <- FourItemLists
  Texts <- OneText
  Worlds <- TwoWorlds
  LatestLists <- TwoHosts
  LatestParents <- OneParentEach
  LatestTemplates <- TwoTemplates
  LatestWindows <- ThreeWindows
  LatestNow = 6
  NodeLists <- TwoNodeLists
  MapHosts <- TwoMaps
  AlarmLists <- FourAlarmLists
  AlarmHosts <- TwoTriggers
  NodeSearches <- ThreeFilters
  MinFamily = 2
  Threshold = 3
  Metrics <- ThreeMetrics
  Searches <- ThreeSearches
  NoSearch <- NoneSought
  Card <- ByName
  Users = {"u1", "u2"}
  Links <- NoneOrOne
  MaxColumns = 2
  MaxRecentSets = 2
  MaxRecipes = 3
  BarTexts = {"cpu"}
  BarFields = {"host", "key"}
  BarValues = {"a", "load"}
  Unsuggested = {"key"}
  BarRecipes <- TwoCards
  MaxWords = 3
INVARIANTS
  PagesTypeOK
  ListsAreCurrent
  BalanceAgrees
  ItemsHaveTheirPlace
  CollapseIsEarned
  StoredIsShown
  SearchIsWhatIsTyped
  StageShowsAll
PROPERTIES
  PagesSettle
  UntouchedSaveIsHarmless
CHECK_DEADLOCK FALSE
