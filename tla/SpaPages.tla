------------------------------ MODULE SpaPages ------------------------------
(***************************************************************************)
(* The browser's pages, in one run: a behaviour is about one of them,      *)
(* `about', and the others stand still.  The logs page keeps its own       *)
(* variables, closed in the behaviours of the others; these share the      *)
(* cells.                                                                  *)
(***************************************************************************)
EXTENDS LogsPage, Integers, FiniteSets

CONSTANTS
  PageSet,                              \* the pages a run is about
  NoData, Actions, MaxMoves,            \* Problems and DockerPage
  Problem, Host, HostOf, Field,         \* Problems
  Engine, HostFilter,                   \* DockerPage
  Windows, Target, Minutes, Closed, Now, Zone,                        \* MaintenanceForm
  ItemLists, Texts, Worlds, Ranges, Cap, None, Eager, Moves,          \* HostDashboard
  Turns, Absent, Facts,                                               \* LatestData, Topology
  LatestLists, LatestParents, LatestTemplates, LatestWindows, LatestNow,
  NodeLists, MapHosts, AlarmLists, AlarmHosts, NodeSearches, MinFamily, Threshold,
  Metrics, Searches, NoSearch, Card, Users, Links,                    \* MetricsBrowser
  MaxColumns, MaxRecentSets, MaxRecipes, Searching,
  BarTexts, BarFields, BarValues, Unsuggested, BarRecipes, MaxWords, Edits  \* QueryBar

VARIABLES about, c1, c2, c3, c4, c5, c6, c7, c8, c9, c10, d1, d2, d3, d4, d5, d6

-----------------------------------------------------------------------------
Prob == INSTANCE Problems WITH
  server <- c1, moves <- c2, list <- c3, shown <- c4, selected <- c5, mutation <- c6,
  latest <- c7, since <- c8

Dock == INSTANCE DockerPage WITH
  engine <- c1, entry <- c2, hosts <- c3, panel <- c4, mutation <- c5, since <- c6,
  moves <- c7

Form == INSTANCE MaintenanceForm WITH
  stored <- c1, listed <- c2, form <- c3, request <- c4

Dash == INSTANCE HostDashboard WITH
  Filters <- Texts,
  world <- c1, items <- c2, dashboard <- c3, text <- c4, template <- c5, mapped <- c6,
  range <- c7, part <- c8, blank <- c9, moves <- c10

Data == INSTANCE LatestData WITH
  Hosts <- DOMAIN LatestLists, Lists <- LatestLists, Parents <- LatestParents,
  Templates <- LatestTemplates, Windows <- LatestWindows, Now <- LatestNow, MaxTurns <- Turns,
  host <- c1, section <- c2, bound <- c3, parents <- c4, range <- c5, live <- c6,
  promoted <- c7, series <- c8, window <- c9, turns <- c10

Metr == INSTANCE MetricsBrowser WITH
  Item <- Metrics, Query <- Searches, NoQuery <- NoSearch, Recipe <- Card,
  MaxTurns <- Searching,
  selection <- c1, query <- c2, asked <- c3, lookup <- c4, hits <- c5, extra <- c6,
  more <- c7, rows <- c8, labels <- c9, user <- c10, loaded <- d1, recent <- d2,
  stored <- d3, recorded <- d4, turns <- d5, author <- d6

Bar == INSTANCE QueryBar WITH
  Texts <- BarTexts, Fields <- BarFields, Values <- BarValues,
  Recipes <- BarRecipes, MaxEdits <- Edits,
  value <- c1, input <- c2, synced <- c3, edits <- c4

Topo == INSTANCE Topology WITH
  HostLists <- NodeLists, Maps <- MapHosts, ProblemLists <- AlarmLists,
  TriggerHosts <- AlarmHosts, Queries <- NodeSearches,
  MaxTurns <- Turns,
  hosts <- c1, problems <- c2, triggers <- c3, tab <- c4, cluster <- c5, query <- c6,
  jumped <- c7, stage <- c8, turns <- c9

\* What the server answers of a host: a list of items with an id each, of which
\* only those of containers are in the section of the containers (auto-dashboard.ts:81-100, 680-698).
IsList(items) ==
  /\ IsFiniteSet(items)
  /\ \A i \in items : i.id \in Int /\ i.value \in Int /\ i.container \in BOOLEAN
  /\ \A i, j \in items : i.id = j.id => i = j
  /\ \A i \in items : ~i.container => Dash!Section(i) # Dash!ContainerPart

ASSUME PagesAssumption ==
  /\ PageSet \subseteq {"logs", "problems", "docker", "maintenance", "host",
                   "latest", "metrics", "query", "topology"}
  /\ Dock!DockerPageAssumption /\ Prob!ProblemsAssumption /\ Form!MaintenanceAssumption
  /\ Cap \in Nat \ {0} /\ Moves \in Nat /\ \A l \in ItemLists : IsList(l)
  /\ Data!LatestAssumption /\ Metr!MetricsAssumption /\ Bar!BarAssumption
  /\ Topo!TopologyAssumption

Rest(S) == UNCHANGED <<about, vars, S>>
Extra == <<d1, d2, d3, d4, d5, d6>>

PagesInit ==
  /\ about \in PageSet
  /\ Init
  /\ about # "logs" => stored = NoFilters /\ ~streams
  /\ \/ /\ about = "logs" /\ c1 = 0 /\ c2 = 0 /\ c3 = 0 /\ c4 = 0
        /\ c5 = 0 /\ c6 = 0 /\ c7 = 0 /\ c8 = 0 /\ c9 = 0 /\ c10 = 0
     \/ about = "problems"    /\ Prob!Init /\ c9 = 0 /\ c10 = 0
     \/ about = "docker"      /\ Dock!Init /\ c8 = 0 /\ c9 = 0 /\ c10 = 0
     \/ /\ about = "maintenance" /\ Form!Init
        /\ c5 = 0 /\ c6 = 0 /\ c7 = 0 /\ c8 = 0 /\ c9 = 0 /\ c10 = 0
     \/ about = "host"        /\ Dash!Init
     \/ about = "latest"      /\ Data!Init
     \/ about = "metrics"     /\ Metr!Init
     \/ /\ about = "query"    /\ Bar!Init
        /\ c5 = 0 /\ c6 = 0 /\ c7 = 0 /\ c8 = 0 /\ c9 = 0 /\ c10 = 0
     \/ about = "topology"    /\ Topo!Init /\ c10 = 0
  /\ about # "metrics" => d1 = 0 /\ d2 = 0 /\ d3 = 0 /\ d4 = 0 /\ d5 = 0 /\ d6 = 0

PagesNext ==
  \/ about = "logs" /\ Next
       /\ UNCHANGED <<about, c1, c2, c3, c4, c5, c6, c7, c8, c9, c10, Extra>>
  \/ about = "problems"    /\ Prob!Next /\ Rest(<<c9, c10, Extra>>)
  \/ about = "docker"      /\ Dock!Next /\ Rest(<<c8, c9, c10, Extra>>)
  \/ about = "maintenance" /\ Form!Next /\ Rest(<<c5, c6, c7, c8, c9, c10, Extra>>)
  \/ about = "host"        /\ Dash!Next /\ Rest(Extra)
  \/ about = "latest"      /\ Data!Next /\ Rest(Extra)
  \/ about = "metrics"     /\ Metr!Next /\ Rest(<<>>)
  \/ about = "query"       /\ Bar!Next  /\ Rest(<<c5, c6, c7, c8, c9, c10, Extra>>)
  \/ about = "topology"    /\ Topo!Next /\ Rest(<<c10, Extra>>)

all == <<about, vars, c1, c2, c3, c4, c5, c6, c7, c8, c9, c10, Extra>>

\* The logs page runs its effects, the page of the latest data also the requests
\* that nothing cancels, each to an answer or an error.
PagesSpec ==
  PagesInit /\ [][PagesNext]_all /\ Fairness
    /\ WF_all(about = "latest" /\ Data!Progress /\ Rest(Extra))

-----------------------------------------------------------------------------
(* The properties are those of the modules, each for its own behaviours.   *)

\* The pages' variables keep their types.
PagesTypeOK ==
  /\ TypeOK
  /\ about = "problems"    => Prob!TypeOK
  /\ about = "docker"      => Dock!TypeOK
  /\ about = "maintenance" => Form!TypeOK
  /\ about = "host"        => Dash!TypeOK
  /\ about = "latest"      => Data!TypeOK
  /\ about = "metrics"     => Metr!TypeOK
  /\ about = "query"       => Bar!TypeOK
  /\ about = "topology"    => Topo!TypeOK

\* A quiet list of problems or containers is one that the server would have
\* given since the last action that ended before it (use-acknowledge.ts:33-82,
\* use-problems.ts:25-82, ActionButtons.tsx:10-26, use-docker-page.ts:14-115).
ListsAreCurrent ==
  /\ about = "problems" => Prob!QuietListIsCurrent
  /\ about = "docker"   => Dock!QuietListsAreCurrent

\* The problem filter and the balance of what it hides agree, for every list
\* and filter there may be (problems.ts:170-269).
BalanceAgrees == about = "problems" => Prob!BreakdownAgrees

\* Opening a maintenance and saving it untouched leaves when it is in force
\* (maintenance.ts:139-392, CreateMaintenanceForm.tsx:24-206).
UntouchedSaveIsHarmless == [][about = "maintenance" => Form!PlanKept]_all

\* Every item of a host is on its dashboard once, with every list of items that
\* the page gets; on the page of the latest data an item bound by a template is
\* charted and no fact, in every order of the answers and the promotions
\* (auto-dashboard.ts:1011-1089, LatestDataPage.tsx:49-118,
\* display-templates/index.ts:52-169).
ItemsHaveTheirPlace ==
  /\ about = "host"   => Dash!EveryItemHasItsPlace
  /\ about = "latest" => Data!BoundStaysCharted

\* A section gives way to the no-data bar only when each of its charts was asked,
\* and answered with no points at least once (DashboardSection.tsx:57-110).
CollapseIsEarned == about = "host" => Dash!CollapseIsEarned

\* The effects of the logs page and those of the latest data come to rest
\* (LogsPage.tsx:120-122, 162-236, 266-274, LatestDataPage.tsx:91-127, 597-632).
PagesSettle ==
  <>[](/\ about = "logs" /\ page.up => AtRest
       /\ about = "latest" => Data!ViewIsSettled)

\* The matrix has what the query finds, the query is what its field and its chips
\* show, and the sets selected before are those stored for the user, each once
\* (use-metrics.ts:74-131, QueryBar.tsx:70-85, 144-183, MetricsPage.tsx:174-205,
\* recent-sets.ts:24-76).
SearchIsWhatIsTyped ==
  /\ about = "metrics" => Metr!MatrixIsTheQuery /\ Metr!RecentSetsAreKept
  /\ about = "query"   => Bar!FieldIsTheText

\* No host is lost between the answer and the stage (topology.ts:84-99,
\* 301-387, radial-layout.ts:153-279, FocusStage.tsx:104-140).
StageShowsAll == about = "topology" => Topo!StageShowsAll

-----------------------------------------------------------------------------
(* What a comment or a test says, and the code does not do.                *)

\* "Nothing that round-trips through the edit form silently changes"
\* (maintenance.test.ts:592), of any length.
RoundTripsAreExact == [][about = "maintenance" => Form!LengthsStay]_all

\* "Add all `ids` if not already all selected, else remove them all (used by
\* row/column headers)" (MetricsPage.tsx:110).
RowTogglesAreLocal == [][about = "metrics" => Metr!RowToggleIsLocal]_all

\* "the promotion is fully reversible" (LatestDataPage.tsx:91).
FactsAreReversible == about = "latest" => Data!FactsFollowRange
=============================================================================
