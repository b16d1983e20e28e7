----------------------------- MODULE MCSpaPages -----------------------------
(* What the pages of SpaPages have to show.                                *)
EXTENDS SpaPages, TLC

AllOnOneHost == [p \in Problem |-> CHOOSE h \in Host : TRUE]

-----------------------------------------------------------------------------
(* Maintenances with every recurrence, of lengths that the form shows      *)
(* exactly and of one that it does not.                                    *)

Day == 86400
Frame == [type |-> 0, since |-> Day, till |-> 100 * Day, period |-> 0, date |-> 0,
          time |-> 9 * 3600, every |-> 0, weekdays |-> {}, months |-> {}, day |-> 0,
          targets |-> Target]

Recurring ==
  { [Frame EXCEPT !.type = 0, !.date = 2 * Day],
    [Frame EXCEPT !.type = 0, !.date = 2 * Day, !.till = 2 * Day + 3600],
    [Frame EXCEPT !.type = 2, !.every = 3],
    [Frame EXCEPT !.type = 3, !.every = 2, !.weekdays = {0, 4}],
    [Frame EXCEPT !.type = 3, !.every = 1],
    [Frame EXCEPT !.type = 4, !.months = 1..12, !.day = 15],
    [Frame EXCEPT !.type = 4, !.months = {3}, !.day = 31],
    [Frame EXCEPT !.type = 4, !.months = {3, 4}, !.day = 31],
    [Frame EXCEPT !.type = 4, !.months = 1..12, !.weekdays = {1}, !.every = 5],
    [Frame EXCEPT !.type = 4, !.months = 1..12, !.weekdays = {1, 2}, !.every = 5],
    [Frame EXCEPT !.type = 0, !.date = 50 * Day],
    [Frame EXCEPT !.type = 2, !.every = 1, !.since = 50 * Day + 7200] }

\* Central European time: the clock is set back by an hour at 01:00 UTC.
Autumn == [before |-> 7200, after |-> 3600, change |-> 50 * Day + 3600]

RecurringWindows == {[w EXCEPT !.period = p] : w \in Recurring, p \in {1800, 100 * 60, 605 * 60, 12 * 3600}}

-----------------------------------------------------------------------------
(* A host whose items take every way through the pipeline, in three lists  *)
(* that differ by what discovery finds.                                    *)

HostItem(id, base) ==
  [id |-> id, kind |-> "number", component |-> None, ofUnit |-> None, ofKey |-> None,
   container |-> FALSE, port |-> None, bundle |-> None, idle |-> FALSE, base |-> base,
   params |-> <<"x">>, units |-> "", category |-> "", split |-> FALSE, value |-> 0,
   template |-> None]

Charted == { [HostItem(20, "p") EXCEPT !.template = "t"], HostItem(21, "q") }
Found   == HostItem(22, "r")
Family  == { [HostItem(23, "q") EXCEPT !.params = <<"y">>, !.value = 2],
             [HostItem(24, "q") EXCEPT !.params = <<"z">>] }
Usage ==
  { [HostItem(1, "b") EXCEPT !.kind = "text"], [HostItem(2, "b") EXCEPT !.kind = "state"],
    [HostItem(3, "u") EXCEPT !.component = "cpu", !.bundle = "cpu"],
    [HostItem(4, "u") EXCEPT !.component = "cpu", !.bundle = "cpu", !.idle = TRUE],
    [HostItem(5, "i") EXCEPT !.ofKey = "network", !.port = "eth0"] }
Storage ==
  { [HostItem(6, "i") EXCEPT !.ofKey = "network", !.port = "eth0", !.container = TRUE],
    [HostItem(7, "fs") EXCEPT !.ofUnit = "disk", !.split = TRUE],
    [HostItem(8, "fs") EXCEPT !.ofUnit = "disk", !.split = TRUE, !.params = <<"y", "u">>] }

FourItemLists == {Charted, Charted \cup {Found} \cup Family, Usage, Storage}
OneText     == {{20, 21}}

\* Item 20 never changes, or not within the shorter range; the others have
\* points in the longer range only.
TwoWorlds ==
  {[i \in 1..24 |-> [r \in Ranges |-> CASE i = 20 -> IF r = "day" THEN "flat" ELSE early
                                       [] i # 20 /\ r = "day" -> "varying"
                                       [] OTHER -> "none"]]
   : early \in {"none", "flat"}}

-----------------------------------------------------------------------------
(* Latest data: what a template binds by key alone and what only the parent *)
(* templates choose, numbers that are flat over a short range and vary over *)
(* a long one, a number without points, texts old and new.                  *)

Latest(id, key) ==
  [id |-> id, key |-> key, component |-> 1, num |-> TRUE, value |-> TRUE, same |-> FALSE,
   clock |-> 6, points |-> <<1, 2, 1, 1, 1, 1>>]

Load  == Latest(1, "load")
Flips == Latest(2, "fan")
Noisy == [Latest(3, "fan") EXCEPT !.points = <<1, 2, 1, 2, 1, 2>>]
Once  == [Latest(4, "temp") EXCEPT !.component = 2, !.points = <<1, 1, 1, 1, 2, 2>>]
Empty == [Latest(5, "temp") EXCEPT !.component = 2, !.points = <<-1, -1, -1, -1, -1, -1>>]
Note  == [Latest(6, "note") EXCEPT !.component = Absent, !.num = FALSE, !.clock = 4]
Same  == [Note EXCEPT !.same = TRUE]
Port  == [Latest(7, "in") EXCEPT !.component = 2]

TwoHosts ==
  "h1" :> {{Load, Flips, Noisy}, {Load, Flips}} @@
  "h2" :> {{Load, Port, Once, Empty, Note}, {Port, Same, Once}}
OneParentEach == "h1" :> {"Linux"} @@ "h2" :> {"Switch"}
TwoTemplates ==
  << [names |-> {{"Linux"}}, keys |-> {{"load"}}, bundles |-> <<{"load", "fan0"}>>, families |-> <<>>],
     [names |-> {{"Switch"}, {"Switch", "Linux"}}, keys |-> {{"in"}}, bundles |-> <<{"load"}, {"load", "temp0"}>>,
      families |-> << "in" :> 1 @@ "temp" :> 2 >>] >>
ThreeWindows == {<<1, 6>>, <<4, 6>>, <<3, 4>>}

-----------------------------------------------------------------------------
(* Metrics: one metric on two hosts, twice on one of them.                  *)

Metric(id, host, name) == [id |-> id, host |-> host, key |-> "load", name |-> name]

ThreeMetrics == {Metric(1, "a", "Load"), Metric(2, "b", "Load"), Metric(3, "b", "Old load")}
NoneSought == [of |-> {}, scope |-> Absent]
ByName     == [of |-> ThreeMetrics, scope |-> Absent]
OnHost     == [of |-> ThreeMetrics, scope |-> {"a"}]
ThreeSearches == {NoneSought, ByName, OnHost}
NoneOrOne == {<<>>, <<2>>}

\* The query bar: the recipes' queries.
TwoCards == {<<[field |-> "key", value |-> "load"]>>, <<[field |-> "host", value |-> "a"], [text |-> "cpu"]>>}

-----------------------------------------------------------------------------
(* Topology: hosts by every way of being monitored, with names that share   *)
(* a long prefix, a short one, a domain or nothing; prefixes and domains    *)
(* are numbers in the order of the names.                                   *)

Node(id, by, proxy, group, nets, prefixes, domain) ==
  [id |-> id, by |-> by, proxy |-> proxy, group |-> group, nets |-> nets, prefixes |-> prefixes, domain |-> domain]

Nodes ==
  { Node(1, Absent, 0, 0, <<1>>, <<12, 1>>, Absent), Node(2, 0, 0, 0, <<1, 2>>, <<12, 1>>, Absent),
    Node(3, 0, 0, 7, <<1>>, <<1>>, Absent), Node(4, Absent, 0, 7, <<Absent, 1>>, <<>>, 4),
    Node(5, 2, 0, 7, <<1>>, <<>>, 4), Node(6, 1, 7, 0, <<Absent>>, <<>>, Absent),
    Node(7, 0, 0, 0, <<1>>, <<>>, Absent), Node(8, 2, 0, 0, <<1>>, <<>>, Absent) }

TwoNodeLists == {{n \in Nodes : n.id <= 6}, {n \in Nodes : n.id \in {3, 4, 7, 8}}}
TwoMaps == 1 :> {1, 2, 6} @@ 2 :> {2}

Alarm(trigger, severity) == [trigger |-> trigger, severity |-> severity]
FourAlarmLists == {{}, {Alarm(1, 4)}, {Alarm(1, 4), Alarm(2, 1)}, {Alarm(1, 2), Alarm(2, 5)}}
TwoTriggers == 1 :> {1, 6} @@ 2 :> {2, 3}
ThreeFilters ==
  { [hosts |-> {}, clusters |-> {}], [hosts |-> {2}, clusters |-> {}],
    [hosts |-> {}, clusters |-> {<<"subnet", 1>>, <<"proxy", 7>>}] }
=============================================================================
