------------------------------ MODULE Problems ------------------------------
(***************************************************************************)
(* The problems page: one list per variant (with and without suppressed    *)
(* problems) in the query cache, and the actions on problems, which edit   *)
(* every cached list before Zabbix has answered, take the edit back when   *)
(* it fails and fetch the list again either way.  Two parts of the page    *)
(* act on their own: the bar of the selection and the panel of one         *)
(* problem.                                                                *)
(*                                                                         *)
(* A problem is the set of what holds of it: "open", "acknowledged",       *)
(* "suppressed", "high" (its severity).  The page's filters live in its    *)
(* URL and the user changes them at will, so every action takes some       *)
(* filter.  The join with the triggers and the chart data are left out.    *)
(***************************************************************************)
EXTENDS QueryCache, FiniteSets, Naturals

CONSTANTS
    Problem,        \* the events Zabbix knows
    Host, HostOf,   \* and the host each is about
    Field,          \* what actions change, of {"acknowledged", "suppressed", "high"}
    Actions,        \* bound: the actions the user starts in one behaviour,
    MaxMoves        \* and the rest: the turns to another list or page, and
                    \* the changes Zabbix and its other users make

VARIABLES
    server,         \* [Problem -> what holds of it], at Zabbix
    moves,          \* counts against MaxMoves
    list,           \* [Variant -> entry of the query cache]
    shown,          \* the variant on the page, or Away
    selected,       \* the ticked problems
    mutation,       \* [Slot -> an action under way, or Unused]
    latest,         \* the action under way each part of the page waits for
    since           \* [Variant -> the server's states since the last action
                    \*  that ended with this list loaded and on the page]

vars == <<server, moves, list, shown, selected, mutation, latest, since>>

Variant == {"default", "with-suppressed"}
Away    == "away"
Part    == {"bar", "panel"}
State   == SUBSET {"open", "acknowledged", "suppressed", "high"}

(* problem.get, with "suppressed: false" for the default variant.          *)
Rows(s, v) ==
    LET listed == {p \in Problem : /\ "open" \in s[p]
                                   /\ v = "default" => "suppressed" \notin s[p]}
    IN  [p \in listed |-> s[p]]

AllRows == UNION {[P -> State] : P \in SUBSET Problem}

ProblemsAssumption ==
    /\ Field \subseteq {"acknowledged", "suppressed", "high"}
    /\ NoData \notin AllRows
    /\ MaxMoves \in Nat

Operation == [field : Field \cup {"open", "message"}, value : BOOLEAN]

(* What an action does to a problem, at Zabbix and in the cached lists.    *)
Changed(what, op) ==
    CASE op.field = "message" -> what
      [] op.field # "message" /\ op.value -> what \cup {op.field}
      [] OTHER -> what \ {op.field}

(* The edit of a cached list: a problem being closed leaves it at once.    *)
Edited(rows, ids, op) ==
    [p \in (IF op.field = "open" THEN DOMAIN rows \ ids ELSE DOMAIN rows) |->
        IF p \in ids THEN Changed(rows[p], op) ELSE rows[p]]

Slot   == 1 .. Actions      \* in the order they are started
NoSlot == 0
Unused == [stage |-> "unused"]
Over   == [stage |-> "over"]
(* What is left to do with an action that Zabbix has seen.                 *)
Ended(m, end) ==
    [stage |-> end, part |-> m.part,
     previous |-> IF end = "error" THEN m.previous
                  ELSE [v \in Variant |-> NoData]]

Pending(m) == m.stage \in {"sent", "done", "error"}

---------------------------------------------------------------------------
(* The filters of the page.                                                *)

Filter == [severities : SUBSET BOOLEAN, unackOnly : BOOLEAN,
           host : Host \cup {"any"}]

SeverityOn(f, what) == f.severities = {} \/ ("high" \in what) \in f.severities
HostOn(f, p) == f.host = "any" \/ HostOf[p] = f.host

(* filterProblems                                                          *)
Visible(v, rows, f) ==
    {p \in DOMAIN rows :
        /\ SeverityOn(f, rows[p])
        /\ f.unackOnly => "acknowledged" \notin rows[p]
        /\ v = "default" => "suppressed" \notin rows[p]
        /\ HostOn(f, p)}

(* (mutant) no severity is active: the counter takes that as a filter      *)
Reason_emptyIsNone(v, rows, f, p) ==
    CASE ("high" \in rows[p]) \notin f.severities -> "severity"
      [] OTHER -> "shown"

(* visibilityBreakdown: the one cause each row is counted under.           *)
Reason(v, rows, f, p) ==
    CASE ~SeverityOn(f, rows[p]) -> "severity"
      [] SeverityOn(f, rows[p]) /\ ~HostOn(f, p) -> "host"
      [] /\ SeverityOn(f, rows[p]) /\ HostOn(f, p)
         /\ f.unackOnly /\ "acknowledged" \in rows[p] -> "acknowledged"
      [] /\ SeverityOn(f, rows[p]) /\ HostOn(f, p)
         /\ ~(f.unackOnly /\ "acknowledged" \in rows[p])
         /\ v = "default" /\ "suppressed" \in rows[p] -> "suppressed"
      [] OTHER -> "shown"

---------------------------------------------------------------------------
Init ==
    /\ server = [p \in Problem |-> {"open"}]
    /\ moves = 0
    /\ list = [v \in Variant |-> IF v = "default" THEN Restart(Empty) ELSE Empty]
    /\ shown = "default"
    /\ selected = {}
    /\ mutation = [m \in Slot |-> Unused]
    /\ latest = [w \in Part |-> NoSlot]
    /\ since = [v \in Variant |-> {server}]

(* Zabbix raises, closes, acknowledges, ... a problem without this page.   *)
Change ==
    /\ moves < MaxMoves
    /\ moves' = moves + 1
    /\ \E p \in Problem, what \in SUBSET (Field \cup {"open"}) :
        server' = [server EXCEPT ![p] = what]
    /\ since' = [v \in Variant |-> since[v] \cup {server'}]
    /\ UNCHANGED <<list, shown, selected, mutation, latest>>

Serve(v) ==
    /\ list[v].fetch = Asked
    /\ list' = [list EXCEPT ![v] = Answer(@, Rows(server, v))]
    /\ UNCHANGED <<server, moves, shown, selected, mutation, latest, since>>

Lose(v) ==
    /\ Fetching(list[v])
    /\ list' = [list EXCEPT ![v] = Fail(@)]
    /\ UNCHANGED <<server, moves, shown, selected, mutation, latest, since>>

Receive(v) ==
    /\ CanArrive(list[v])
    /\ list' = [list EXCEPT ![v] = Arrive(@)]
    /\ UNCHANGED <<server, moves, shown, selected, mutation, latest, since>>

(* The 30 s poll, the retry button of the error panel, a window focus.     *)
Poll ==
    /\ shown # Away
    /\ ~Fetching(list[shown])
    /\ list' = [list EXCEPT ![shown] = Fetch(@)]
    /\ UNCHANGED <<server, moves, shown, selected, mutation, latest, since>>

(* The chip "suppressed", and leaving and opening the page.  The fetches   *)
(* do not listen to an abort signal: they go on unwatched.                 *)
Show(v) ==
    /\ shown # v /\ moves < MaxMoves
    /\ moves' = moves + 1
    /\ shown' = v
    /\ \E old \in BOOLEAN : list' = [list EXCEPT ![v] = Observe(@, old)]
    /\ UNCHANGED <<server, selected, mutation, latest, since>>

Leave ==
    /\ shown # Away /\ moves < MaxMoves
    /\ moves' = moves + 1
    /\ shown' = Away
    /\ selected' = {}
    /\ latest' = [w \in Part |-> NoSlot]
    /\ UNCHANGED <<server, list, mutation, since>>

---------------------------------------------------------------------------
(* Ticking rows and lanes.  A tick outlives the row it was made on.        *)

HasRows == shown # Away /\ Loaded(list[shown]) /\ ~list[shown].failed

(* What may be on the page: the rows that some filter leaves.              *)
Pages == {Visible(shown, list[shown].data, f) : f \in Filter}

Toggle(p) ==
    /\ HasRows
    /\ p \in UNION Pages
    /\ selected' = IF p \in selected THEN selected \ {p} ELSE selected \cup {p}
    /\ UNCHANGED <<server, moves, list, shown, mutation, latest, since>>

(* The lane's box adds every row, or takes them out when all are ticked.   *)
ToggleLane ==
    /\ HasRows
    /\ \E page \in Pages, high \in BOOLEAN :
        LET lane == {p \in page : ("high" \in list[shown].data[p]) = high}
        IN  /\ lane # {}
            /\ selected' = IF lane \subseteq selected THEN selected \ lane
                           ELSE selected \cup lane
    /\ UNCHANGED <<server, moves, list, shown, mutation, latest, since>>

(* "Done", Escape and the select-mode button.                              *)
ExitSelectMode ==
    /\ shown # Away
    /\ selected' = {}
    /\ UNCHANGED <<server, moves, list, shown, mutation, latest, since>>

---------------------------------------------------------------------------
(* The actions: useAcknowledge.                                            *)

Mutate(m, part, ids, op) ==
    LET quiet == [v \in Variant |-> Cancel(list[v])]
    IN  /\ mutation[m] = Unused
        /\ \A k \in 1 .. (m - 1) : mutation[k] # Unused
        /\ mutation' = [mutation EXCEPT ![m] =
                [stage |-> "sent", part |-> part, ids |-> ids, op |-> op,
                 previous |-> [v \in Variant |-> quiet[v].data]]]
        /\ latest' = [latest EXCEPT ![part] = m]
        /\ list' = [v \in Variant |->
                IF Loaded(quiet[v])
                THEN Write(quiet[v], Edited(quiet[v].data, ids, op))
                ELSE quiet[v]]
        /\ UNCHANGED <<server, moves, shown, selected, since>>

Free(part) == latest[part] = NoSlot

(* The bar acts on the ticked rows that are still on the page.             *)
RunBulk(m) ==
    /\ HasRows /\ Free("bar")
    /\ \E page \in Pages, op \in Operation :
        /\ op.field \notin {"open", "message"}
        /\ selected \cap page # {}
        /\ Mutate(m, "bar", selected \cap page, op)

(* The panel's buttons offer what the row shown is not.                    *)
Act(m) ==
    /\ HasRows /\ Free("panel")
    /\ \E p \in UNION Pages, op \in Operation :
        /\ op.field # "message"
        /\ op.value = (op.field \notin list[shown].data[p])
        /\ Mutate(m, "panel", {p}, op)

(* Enter in the comment field asks nothing about an action under way.      *)
SubmitComment(m) ==
    /\ HasRows
    /\ \E p \in UNION Pages :
        Mutate(m, "panel", {p}, [field |-> "message", value |-> TRUE])

(* event.acknowledge at Zabbix: all of the events or none; and the answer, *)
(* which may be an error though the work is done.                          *)
Execute(m) ==
    /\ mutation[m].stage = "sent"
    /\ server' = [p \in Problem |->
            IF p \in mutation[m].ids THEN Changed(server[p], mutation[m].op)
            ELSE server[p]]
    /\ since' = [v \in Variant |-> since[v] \cup {server'}]
    /\ \E end \in {"done", "error"} :
        mutation' = [mutation EXCEPT ![m] = Ended(@, end)]
    /\ UNCHANGED <<moves, list, shown, selected, latest>>

Reject(m) ==
    /\ mutation[m].stage = "sent"
    /\ mutation' = [mutation EXCEPT ![m] = Ended(@, "error")]
    /\ UNCHANGED <<server, moves, list, shown, selected, latest, since>>

(* (mutant) the list is fetched again only after a success                 *)
Settled_onSuccess(m, lists) ==
    [v \in Variant |->
        IF mutation[m].stage = "done" THEN Invalidate(lists[v], v = shown)
        ELSE lists[v]]

(* onSettled                                                               *)
Settled(m, lists) == [v \in Variant |-> Invalidate(lists[v], v = shown)]

(* onError puts the lists of before the action back, over whatever another *)
(* action has written since.                                               *)
RolledBack(m) ==
    [v \in Variant |->
        IF mutation[m].stage = "error"
        THEN Write(list[v], mutation[m].previous[v])
        ELSE list[v]]

Settle(m) ==
    /\ mutation[m].stage \in {"done", "error"}
    /\ list' = Settled(m, RolledBack(m))
    /\ since' = [v \in Variant |->
            IF v = shown /\ Loaded(list[v]) THEN {server} ELSE since[v]]
    /\ selected' = IF /\ mutation[m].stage = "done"
                      /\ mutation[m].part = "bar"
                      /\ latest["bar"] = m
                   THEN {} ELSE selected
    /\ mutation' = [mutation EXCEPT ![m] = Over]
    /\ latest' = [w \in Part |-> IF latest[w] = m THEN NoSlot ELSE latest[w]]
    /\ UNCHANGED <<server, moves, shown>>

Next ==
    \/ Change
    \/ \E v \in Variant : Serve(v) \/ Lose(v) \/ Receive(v) \/ Show(v)
    \/ Poll \/ Leave
    \/ \E p \in Problem : Toggle(p)
    \/ ToggleLane \/ ExitSelectMode
    \/ \E m \in Slot : \/ RunBulk(m) \/ Act(m) \/ SubmitComment(m)
                       \/ Execute(m) \/ Reject(m) \/ Settle(m)

Spec == Init /\ [][Next]_vars

---------------------------------------------------------------------------
Mutation ==
    {Unused, Over} \cup
    [stage : {"sent"}, part : Part, ids : SUBSET Problem,
     op : Operation, previous : [Variant -> AllRows \cup {NoData}]] \cup
    [stage : {"done", "error"}, part : Part,
     previous : [Variant -> AllRows \cup {NoData}]]

TypeOK ==
    /\ server \in [Problem -> State]
    /\ moves \in 0 .. MaxMoves
    /\ list \in [Variant -> Queries(AllRows)]
    /\ shown \in Variant \cup {Away}
    /\ selected \subseteq Problem
    /\ mutation \in [Slot -> Mutation]
    /\ latest \in [Part -> Slot \cup {NoSlot}]
    /\ since \in [Variant -> SUBSET [Problem -> State]] /\ \A v \in Variant : server \in since[v]

(* The page is quiet: nothing it has asked for is still on its way.        *)
Quiet ==
    /\ HasRows
    /\ ~Fetching(list[shown])
    /\ \A m \in Slot : ~Pending(mutation[m])

(* However two actions, their errors and the polls interleave: once the    *)
(* page is quiet, its list is one that Zabbix would have given at some     *)
(* moment since the last action that ended while that list was on the      *)
(* page.  No edit of an action that failed stays, and no answer from       *)
(* before an action hides what it did.                                     *)
QuietListIsCurrent ==
    Quiet => list[shown].data \in {Rows(s, shown) : s \in since[shown]}

(* The filter and the counter of what it hides are written twice, in       *)
(* different orders: for every filter they agree on what is shown.         *)
BreakdownAgrees ==
    \A v \in Variant, rows \in AllRows, f \in Filter :
        Visible(v, rows, f) = {p \in DOMAIN rows : Reason(v, rows, f, p) = "shown"}
=============================================================================
