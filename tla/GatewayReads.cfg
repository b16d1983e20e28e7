SPECIFICATION ReadsSpec
CONSTANTS
  Parts = {"filters", "search", "access", "stats", "updates", "tail"}
  User = {"alice", "bob"}
  Id = {"s1", "s2"}
  Filters = {"f1"}
  NoSet = NoSet
  RequestId = {r1, r2}
  Route = {"write", "owner"}
  PollId = {p1, p2}
  MaxTotal = 2
  MaxBoot = 1
  Check = {k1, k2}
  Digest = 3
  CacheTtl = 1
  HostTtl = 1
  OneCall = 1
  Servers <- TwoServers
  Line = {"x"}
  MaxTime = 3
  MaxLog = 3
  MaxPage = 3
  Limit = 1
  Pad = 0
  MaxFetch = 4
  Window = 1
  Containers <- OneStreamEach
  MaxLines = 3
  Polls = {q1, q2}
  LogsTail = 1
  Buffer = 4
INVARIANTS
  ReadsTypeOK
  SearchHolds
  StatsWithinHost
  TailIsWhole
PROPERTIES
  BoardSpec
  AccessIsRecent
  UpdatesAreRecent
CHECK_DEADLOCK FALSE
