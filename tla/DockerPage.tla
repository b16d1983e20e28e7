----------------------------- MODULE DockerPage -----------------------------
(***************************************************************************)
(* The Docker page: the container list of the chosen hosts, the panel of a *)
(* compose stack, and the actions that are started from a row, from the    *)
(* panel of a container and from the panel of a stack.  Every part of the  *)
(* page reads its own entry of the query cache; an action that succeeds    *)
(* marks the entries it knows of.                                          *)
(*                                                                         *)
(* What the containers are is one value, `engine': every entry is a        *)
(* reading of it.  The gateway's own cache is DockerService's; here it has *)
(* been emptied by the action that ended.  The summary of the hosts, the   *)
(* usage figures, image updates and the inspect payload are left out: each *)
(* is an entry of its own that follows the list's rules.                   *)
(***************************************************************************)
EXTENDS QueryCache, Naturals

CONSTANTS
    Engine,         \* what the containers of a host may be doing
    HostFilter,     \* the sets of hosts the list is asked for
    Actions,        \* bound: the actions the user starts in one behaviour
    MaxMoves        \* bound: the turns of the user, and the containers' own

DockerPageAssumption ==
    /\ NoData \notin Engine
    /\ HostFilter # {} /\ "stacks" \notin HostFilter
    /\ MaxMoves \in Nat

VARIABLES
    engine,
    entry,          \* [Key -> entry of the query cache]
    hosts,          \* the hosts chosen in the URL
    panel,          \* what the panel on the right shows
    mutation,       \* [Slot -> an action under way]
    since,          \* [Key -> what the containers were since the last action
                    \*  that ended well with this entry loaded and on the page]
    moves           \* counts against MaxMoves

vars == <<engine, entry, hosts, panel, mutation, since, moves>>

Key  == HostFilter \cup {"stacks"}
Part == {"row", "container", "stack"}
Slot == 1 .. Actions        \* in the order they are started

Unused == [stage |-> "unused", part |-> "none"]
Over   == [stage |-> "over", part |-> "none"]
Pending(m) == m.stage \in {"sent", "done", "error"}

(* The entries on the page.  The last list stays on the screen while the   *)
(* first answer for other hosts is awaited, but it is not theirs.          *)
Watched == {hosts} \cup (IF panel = "stack" THEN {"stacks"} ELSE {})

Init ==
    /\ engine \in Engine
    /\ entry = [k \in Key |-> Empty]
    /\ hosts \in HostFilter
    /\ panel = "closed"
    /\ mutation = [m \in Slot |-> Unused]
    /\ since = [k \in Key |-> {engine}]
    /\ moves = 0

(* A container stops, starts or is replaced without this page.             *)
Work ==
    /\ moves < MaxMoves
    /\ moves' = moves + 1
    /\ engine' \in Engine \ {engine}
    /\ since' = [k \in Key |-> since[k] \cup {engine'}]
    /\ UNCHANGED <<entry, hosts, panel, mutation>>

---------------------------------------------------------------------------
(* Reading.                                                                *)

Serve(k) ==
    /\ entry[k].fetch = Asked
    /\ entry' = [entry EXCEPT ![k] = Answer(@, engine)]
    /\ UNCHANGED <<engine, hosts, panel, mutation, since, moves>>

Receive(k) ==
    /\ CanArrive(entry[k])
    /\ entry' = [entry EXCEPT ![k] = Arrive(@)]
    /\ UNCHANGED <<engine, hosts, panel, mutation, since, moves>>

Lose(k) ==
    /\ Fetching(entry[k])
    /\ entry' = [entry EXCEPT ![k] = Fail(@)]
    /\ UNCHANGED <<engine, hosts, panel, mutation, since, moves>>

(* The page opens, the list is polled, the window gets the focus again.    *)
Poll(k) ==
    /\ k \in Watched
    /\ ~Fetching(entry[k])
    /\ entry' = [entry EXCEPT ![k] = Fetch(@)]
    /\ UNCHANGED <<engine, hosts, panel, mutation, since, moves>>

(* Every fetch listens to its abort signal: nothing goes on unwatched.     *)
ToggleHost(h) ==
    /\ h # hosts /\ moves < MaxMoves
    /\ moves' = moves + 1
    /\ hosts' = h
    /\ \E old \in BOOLEAN :
        entry' = [entry EXCEPT ![hosts] = Cancel(@), ![h] = Observe(@, old)]
    /\ UNCHANGED <<engine, panel, mutation, since>>

SelectStack ==
    /\ panel # "stack" /\ Loaded(entry[hosts]) /\ moves < MaxMoves
    /\ moves' = moves + 1
    /\ panel' = "stack"
    /\ \E old \in BOOLEAN : entry' = [entry EXCEPT !["stacks"] = Observe(@, old)]
    /\ UNCHANGED <<engine, hosts, mutation, since>>

SelectContainer ==
    /\ panel # "container" /\ Loaded(entry[hosts]) /\ moves < MaxMoves
    /\ moves' = moves + 1
    /\ panel' = "container"
    /\ entry' = [entry EXCEPT !["stacks"] = Cancel(@)]
    /\ UNCHANGED <<engine, hosts, mutation, since>>

---------------------------------------------------------------------------
(* Acting.  Each set of buttons is disabled by its own action only.        *)

Offered(part) ==
    CASE part = "row"       -> Loaded(entry[hosts])
      [] part = "container" -> panel = "container" /\ Loaded(entry[hosts])
      [] part = "stack"     -> panel = "stack" /\ Loaded(entry["stacks"])

Run(m, part) ==
    /\ mutation[m] = Unused
    /\ \A k \in 1 .. (m - 1) : mutation[k] # Unused
    /\ Offered(part)
    /\ \A k \in Slot : Pending(mutation[k]) => mutation[k].part # part
    /\ mutation' = [mutation EXCEPT ![m] = [stage |-> "sent", part |-> part]]
    /\ UNCHANGED <<engine, entry, hosts, panel, since, moves>>

(* The gateway does it; the answer may still be an error.                  *)
Execute(m) ==
    /\ mutation[m].stage = "sent"
    /\ engine' \in Engine
    /\ since' = [k \in Key |-> since[k] \cup {engine'}]
    /\ \E end \in {"done", "error"} :
        mutation' = [mutation EXCEPT ![m].stage = end]
    /\ UNCHANGED <<entry, hosts, panel, moves>>

Reject(m) ==
    /\ mutation[m].stage = "sent"
    /\ mutation' = [mutation EXCEPT ![m].stage = "error"]
    /\ UNCHANGED <<engine, entry, hosts, panel, since, moves>>

(* onSuccess: the entries an action marks, by the prefix of their keys.    *)
Stale(part) ==
    HostFilter \cup (IF part = "stack" THEN {"stacks"} ELSE {})

Settle(m) ==
    /\ mutation[m].stage \in {"done", "error"}
    /\ IF mutation[m].stage = "error" THEN UNCHANGED <<entry, since>>
       ELSE /\ entry' = [k \in Key |->
                  IF k \in Stale(mutation[m].part)
                  THEN Invalidate(entry[k], k \in Watched) ELSE entry[k]]
            /\ since' = [k \in Key |->
                  IF k \in Watched /\ Loaded(entry[k]) THEN {engine} ELSE since[k]]
    /\ mutation' = [mutation EXCEPT ![m] = Over]
    /\ UNCHANGED <<engine, hosts, panel, moves>>

Next ==
    \/ Work
    \/ \E k \in Key : Serve(k) \/ Receive(k) \/ Lose(k) \/ Poll(k)
    \/ \E h \in HostFilter : ToggleHost(h)
    \/ SelectStack \/ SelectContainer
    \/ \E m \in Slot : \/ \E part \in Part : Run(m, part)
                       \/ Execute(m) \/ Reject(m) \/ Settle(m)

Spec == Init /\ [][Next]_vars

---------------------------------------------------------------------------
TypeOK ==
    /\ engine \in Engine
    /\ entry \in [Key -> Queries(Engine)]
    /\ hosts \in HostFilter
    /\ panel \in {"closed", "container", "stack"}
    /\ mutation \in [Slot -> [stage : {"unused", "sent", "done", "error", "over"},
                              part : Part \cup {"none"}]]
    /\ since \in [Key -> SUBSET Engine] /\ \A k \in Key : engine \in since[k]
    /\ moves \in 0 .. MaxMoves

Current(k) ==
    (/\ k \in Watched /\ Loaded(entry[k])
     /\ ~Fetching(entry[k]) /\ ~entry[k].failed
     /\ \A m \in Slot : ~Pending(mutation[m]))
        => entry[k].data \in since[k]

(* However the actions of the three parts, the changes of the host filter, *)
(* the polls and the answers interleave: once nothing is on its way, the   *)
(* container list shows the containers as they were at some moment since   *)
(* the last action that ended well before its eyes.                        *)
QuietListsAreCurrent == \A k \in HostFilter : Current(k)

(* The comment above useDockerContainerAction (ActionButtons.tsx:10-12):   *)
(* an action "invalidates every query whose data an action can change".    *)
(* The panel of a stack lists the same containers, and it has no poll.     *)
StackPanelIsCurrent == Current("stacks")
=============================================================================
