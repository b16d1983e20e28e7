----------------------------- MODULE LatestData -----------------------------
(***************************************************************************)
(* The latest-data page of one host.  A display template binds the host's  *)
(* items into bundles and families, which have a chart of their own; what  *)
(* is left is grouped by component, and of that the items that do not      *)
(* change are taken out into the facts.  Whether a number changes is known *)
(* from item.get alone, or from the series that the view of its component  *)
(* has loaded; a verdict of the second kind is kept in `promoted' until    *)
(* the view gives another.                                                 *)
(*                                                                         *)
(* A range is a pair of places in an item's history.  A series that was    *)
(* asked for before may come from the query cache: that is an answer which *)
(* arrives at once.  Labels, charts and the rows' layout are left out.     *)
(***************************************************************************)
EXTENDS Integers, FiniteSets, FiniteSetsExt, Sequences

CONSTANTS
    Hosts,
    Lists,          \* [Hosts -> the item lists the host may answer with]
    Parents,        \* [Hosts -> the names of the host's parent templates]
    Templates,      \* the display templates, in the order of their priority
    Windows,        \* the ranges <<from, to>> a picker or a brush may give
    Now,            \* the last place of a history
    Absent,         \* no host, no section, no window, no answer
    Facts,          \* the id of the facts' section
    MaxTurns        \* bound: turns of the user, refetches, failures

\* The picker's ranges end no earlier than they start, within the clock.
LatestAssumption ==
    /\ Now \in Nat \ {0}
    /\ \A w \in Windows : \E a \in 1 .. Now : \E b \in a .. Now : w = <<a, b>>

VARIABLES
    host, section,  \* ?host= and ?section= of the URL
    bound,          \* [the items that have arrived -> their section]
    parents,        \* the parent templates are known
    range, live,
    promoted,       \* [item id -> "none", "constant" or "changed-once"]
    series,         \* what the component's view has: the ids and the range of its
                    \* last answer, and the request that has failed
    window,         \* the window on top: an item's chart or the template
    turns

vars == <<host, section, bound, parents, range, live, promoted, series, window, turns>>

Items == UNION UNION {Lists[h] : h \in Hosts}
Ids   == {i.id : i \in Items}
Other == 99                         \* "Sonstige", after every component

---------------------------------------------------------------------------
(* Which template, and the sections it makes.  A pattern is the set of     *)
(* what it matches; a template's family gives a matching key's instance.   *)

Hits(t) == Cardinality({p \in t.names : p \cap Parents[host] # {}})
Keyed(t, items) == Cardinality({i \in items : \E p \in t.keys : i.key \in p})

\* The first of the templates with the highest score, 0 without one.
Best(score) ==
    LET best == {k \in DOMAIN score : score[k] > 0 /\ \A o \in DOMAIN score : score[o] <= score[k]}
    IN  IF best = {} THEN 0 ELSE Min(best)

\* One item in twenty must match for the keys alone to choose a template.
ResolveTemplate(items, known) ==
    LET named == IF known THEN Best([k \in DOMAIN Templates |-> Hits(Templates[k])]) ELSE 0
        keyed == Best([k \in DOMAIN Templates |-> Keyed(Templates[k], items)])
    IN  IF named # 0 THEN named
        ELSE IF keyed # 0 /\ 20 * Keyed(Templates[keyed], items) >= Cardinality(items)
             THEN keyed ELSE 0

\* An item goes to the first bundle that wants it, else to the first family,
\* else to its component: <<1, bundle, 0>>, <<2, family, instance>>,
\* <<3, component, 0>>, in the order of the navigation.
SectionOf(i, template) ==
    LET t == Templates[template]
        bundles  == IF template = 0 THEN {} ELSE {k \in DOMAIN t.bundles : i.key \in t.bundles[k]}
        families == IF template = 0 THEN {}
                    ELSE {k \in DOMAIN t.families : i.key \in DOMAIN t.families[k]}
    IN  CASE bundles # {} -> <<1, Min(bundles), 0>>
          [] bundles = {} /\ families # {} -> <<2, Min(families), t.families[Min(families)][i.key]>>
          [] OTHER -> <<3, IF i.component = Absent THEN Other ELSE i.component, 0>>

BuildSections(items, template) == [i \in items |-> SectionOf(i, template)]

Bind(items, known) ==
    \E template \in {ResolveTemplate(items, known)} : bound' = BuildSections(items, template)

Before(a, b) ==
    \E n \in 1 .. 3 : a[n] < b[n] /\ \A m \in 1 .. n - 1 : a[m] = b[m]

list == DOMAIN bound
Component(s) == s[1] = 3
Matched == {i \in list : ~Component(bound[i])}

---------------------------------------------------------------------------
(* What does not change.                                                   *)

Max1(n) == IF n > 1 THEN n ELSE 1

\* From item.get: the last two values agree, or a text is older than half of
\* the range.
ByPrevValue(i) ==
    IF i.value /\ (i.same \/ (~i.num /\ 2 * (range[2] - i.clock) > Max1(range[2] - range[1])))
    THEN "constant" ELSE "variable"

\* -1 marks a place without a point.
Points(i, r) == SelectSeq(SubSeq(i.points, r[1], r[2]), LAMBDA v : v >= 0)

Classify(points) ==
    LET changes == {n \in 2 .. Len(points) : points[n] # points[n - 1]}
    IN  CASE changes = {}             -> "constant"
          [] Cardinality(changes) = 1 -> "changed-once"
          [] OTHER                    -> "variable"

FactItems_lingering ==              \* (mutant) `promoted' goes in unchecked
    {i \in list : (i \notin Matched /\ ByPrevValue(i) = "constant") \/ promoted[i.id] # "none"}

\* What the template has bound never becomes a fact, a lingering verdict or not.
FactItems ==
    {i \in list \ Matched : ByPrevValue(i) = "constant" \/ promoted[i.id] # "none"}

\* The sections that have items left.
Sections == {bound[i] : i \in list \ FactItems}

\* The section on the screen: the URL's, if there is such a one, or the first.
Selected ==
    LET sections == Sections
    IN  IF section = Facts \/ section \in sections THEN section
        ELSE IF sections = {} THEN Facts
        ELSE CHOOSE s \in sections : \A o \in sections \ {s} : Before(s, o)

IsComponent == Selected # Facts /\ Component(Selected)
HasPicker   == Selected # Facts /\ ~Component(Selected)
Shown       == LET s == Selected IN {i \in list \ FactItems : bound[i] = s}

---------------------------------------------------------------------------
(* The view of a component: it loads the series of its numbers over the    *)
(* page's range, keeps the last answer until the next, and its effect      *)
(* hands on a verdict for every series that has points.  A request that    *)
(* has failed leaves it with none, until it asks for something else.       *)

Numbers == {i \in Shown : i.num}
Wanted  == [of |-> {i.id : i \in Numbers}, range |-> range]

Loaded == series # Absent /\ Wanted = [of |-> series.of, range |-> series.range]
Failed == series # Absent /\ Wanted = series.failed

Judged(i) == LET v == Classify(Points(i, series.range))
             IN  <<i.id, IF v = "variable" THEN "none" ELSE v>>
Verdicts_absentVaries ==            \* (mutant) it judges all of the component, and
    IF series = Absent \/ Failed \/ ~IsComponent THEN {}    \* no series means it varies
    ELSE {IF i.id \in series.of THEN Judged(i) ELSE <<i.id, "none">>
          : i \in {n \in list : n.num /\ bound[n] = Selected}}

Verdicts ==
    IF series = Absent \/ Failed \/ ~IsComponent THEN {}
    ELSE {Judged(i) : i \in {n \in Numbers : n.id \in series.of /\ Points(n, series.range) # <<>>}}

Settled ==
    /\ \A v \in Verdicts : promoted[v[1]] = v[2]
    /\ series # Absent => IsComponent /\ (series.failed # Absent => Failed)

---------------------------------------------------------------------------
(* Steps.  An effect runs before the next event is handled.                *)

Turn == turns < MaxTurns /\ Settled /\ turns' = turns + 1
User == Turn /\ window = Absent     \* the window lies over the page

Init ==
    /\ host \in Hosts /\ section = Absent
    /\ bound = <<>> /\ parents = FALSE
    /\ range \in Windows /\ range[2] = Now /\ live = TRUE
    /\ promoted = [d \in Ids |-> "none"]
    /\ series = Absent /\ window = Absent /\ turns = 0

\* The picker, or "change host".
PickHost ==
    /\ User
    /\ host' \in (Hosts \cup {Absent}) \ {host} /\ section' = Absent
    /\ bound' = <<>> /\ parents' = FALSE
    /\ UNCHANGED <<range, live, promoted, series, window>>

PickSection ==
    /\ User
    /\ section' \in ({Facts} \cup Sections) \ {Selected}
    /\ UNCHANGED <<host, bound, parents, range, live, promoted, series, window>>

\* The items of the host, at first or at the refetch every 30 s.
ItemsArrive ==
    /\ host # Absent /\ Settled
    /\ \/ list = {} /\ UNCHANGED turns
       \/ list # {} /\ turns < MaxTurns /\ turns' = turns + 1
    /\ \E items \in Lists[host] \ {list} : Bind(items, parents)
    /\ UNCHANGED <<host, section, parents, range, live, promoted, series, window>>

ParentsArrive ==
    /\ host # Absent /\ Settled /\ ~parents
    /\ parents' = TRUE /\ Bind(list, TRUE)
    /\ UNCHANGED <<host, section, range, live, promoted, series, window, turns>>

\* Only the view of a bundle or a family has a picker and a brush.  A preset
\* turns the refresh on, the custom fields turn it off, a brush leaves it.
ChangeRange ==
    /\ User /\ HasPicker
    /\ range' \in Windows
    /\ \/ range'[2] = Now /\ live' = TRUE
       \/ live' = FALSE
       \/ UNCHANGED live
    /\ UNCHANGED <<host, section, bound, parents, promoted, series, window>>

\* Every 30 s, while a picker is on the page: the window ends now again.
Tick ==
    /\ Turn /\ HasPicker /\ live
    /\ range[2] # Now
    /\ range' = <<Now - (range[2] - range[1]), Now>>
    /\ UNCHANGED <<host, section, bound, parents, live, promoted, series, window>>

\* A request is under way until it is answered or has failed, at the latest
\* after QUERY_TIMEOUT_MS.
Asking == IsComponent /\ Numbers # {} /\ ~Loaded /\ ~Failed

SeriesArrive ==
    /\ Settled /\ Asking
    /\ series' = [of |-> Wanted.of, range |-> range, failed |-> Absent]
    /\ UNCHANGED <<host, section, bound, parents, range, live, promoted, window, turns>>

\* No retry.
SeriesFail ==
    /\ Turn /\ Asking
    /\ series' = [of     |-> IF series = Absent THEN {} ELSE series.of,
                  range  |-> range,
                  failed |-> Wanted]
    /\ UNCHANGED <<host, section, bound, parents, range, live, promoted, window>>

\* The user comes back to the browser's window: what has failed is asked for again.
Refocus ==
    /\ Turn /\ Failed
    /\ series' = [series EXCEPT !.failed = Absent]
    /\ UNCHANGED <<host, section, bound, parents, range, live, promoted, window>>

\* The effect of the component's view.
OnClassified ==
    /\ ~\A v \in Verdicts : promoted[v[1]] = v[2]
    /\ LET verdicts == Verdicts
           Of(d)    == {v \in verdicts : v[1] = d}
       IN  promoted' = [d \in Ids |-> IF Of(d) = {} THEN promoted[d] ELSE (CHOOSE v \in Of(d) : TRUE)[2]]
    /\ UNCHANGED <<host, section, bound, parents, range, live, series, window, turns>>

\* The view of a component that has left the screen takes its answer with it;
\* from one component to the next it is the same view.
Unmount ==
    /\ ~IsComponent /\ series # Absent
    /\ series' = Absent
    /\ UNCHANGED <<host, section, bound, parents, range, live, promoted, window, turns>>

\* Another request than the one that failed is made at once.
AskAnew ==
    /\ IsComponent /\ series # Absent
    /\ series.failed # Absent /\ ~Failed
    /\ series' = [series EXCEPT !.failed = Absent]
    /\ UNCHANGED <<host, section, bound, parents, range, live, promoted, window, turns>>

TheTemplate == 0                    \* the window that shows the template

\* The chart of an item starts with the page's range and keeps its own.
OpenWindow ==
    /\ User /\ host # Absent
    /\ window' \in {<<id, range>> : id \in {TheTemplate} \cup {i.id : i \in Shown}}
    /\ UNCHANGED <<host, section, bound, parents, range, live, promoted, series>>

ChangeWindow ==
    /\ Turn /\ window # Absent
    /\ window' \in {Absent} \cup (IF window[1] = TheTemplate THEN {}
                                 ELSE {window[1]} \X (Windows \ {window[2]}))
    /\ UNCHANGED <<host, section, bound, parents, range, live, promoted, series>>

\* Effects run, and a request under way is answered unless it fails; one that
\* has failed is not made again.
Progress == ItemsArrive \/ ParentsArrive \/ SeriesArrive \/ OnClassified \/ Unmount \/ AskAnew

Next ==
    \/ Progress \/ SeriesFail \/ Refocus
    \/ PickHost \/ PickSection \/ ChangeRange \/ Tick \/ OpenWindow \/ ChangeWindow

Fairness == WF_vars(Progress)

Spec == Init /\ [][Next]_vars /\ Fairness

---------------------------------------------------------------------------
(* Properties.                                                             *)

\* The variables keep their types.
TypeOK ==
    /\ host \in Hosts \cup {Absent} /\ parents \in BOOLEAN /\ live \in BOOLEAN
    /\ list = {} \/ (host # Absent /\ list \in Lists[host])
    /\ range[1] \in 1 .. Now /\ range[2] \in range[1] .. Now
    /\ promoted \in [Ids -> {"none", "constant", "changed-once"}]
    /\ series = Absent
       \/ /\ series.of \subseteq Ids /\ series.range \in {range} \cup Windows
          /\ series.failed = Absent
             \/ (series.failed.of \subseteq Ids /\ series.failed.range = series.range)

\* What the template binds is in its chart and never among the facts, also an
\* item that was found constant before the parent templates chose that template
\* (LatestDataPage.tsx:49-118, display-templates/index.ts:52-169).
BoundStaysCharted ==
    \A i \in list : ~Component(bound[i]) => bound[i] \in Sections /\ i \notin FactItems

\* Promoting an item takes it out of the list whose series promoted it, which
\* asks for other series, whose verdicts change the list again: once the user
\* and the polls are still, that comes to an end, and what is shown was asked
\* for with the range and the items on the screen, or that request has failed
\* (LatestDataPage.tsx:91-127, 597-632, use-timeseries.ts:72-101).
ViewIsSettled == Settled /\ ~Asking
ViewSettles == <>[]ViewIsSettled

\* "A 'variable' verdict REMOVES any prior promotion so an item does not get
\* trapped in the facts rubric once a widened range reveals it does vary - the
\* promotion is fully reversible" (LatestDataPage.tsx:88-91): with the series of
\* its component loaded over the page's range, no item is a fact that varies
\* over that range.
FactsFollowRange ==
    IsComponent /\ Settled /\ Loaded =>
        \A i \in FactItems :
            /\ i.num /\ ByPrevValue(i) # "constant"
            /\ \E j \in Shown : j.component = i.component
            => Classify(Points(i, range)) # "variable"
=============================================================================
