---------------------------- MODULE ZabbixAccess -----------------------------
(***************************************************************************)
(* Who may use the gateway: every route asks Zabbix about its caller's     *)
(* session token (zabbix.py) before it acts, through caches that keep an   *)
(* answer for a while.  One token, several requests; Zabbix ends the       *)
(* session or takes a right away whenever it likes, and any call to it     *)
(* may fail or lose its answer.  A tick is a unit of time.                 *)
(***************************************************************************)
EXTENDS Naturals, Sequences

CONSTANTS
  Request,  \* concurrent requests with the token
  Route,    \* the kinds of routes they take
  Ttl,      \* permission_cache_ttl
  HostTtl,  \* host_mapping_cache_ttl
  Timeout   \* zabbix_timeout: the ticks one call may take

\* The lookups of a route, in order.
Needs ==
  [read   |-> <<"session">>,          \* lists, searches, statistics, streams
   write  |-> <<"session", "role">>,  \* container and stack actions
   owner  |-> <<"name">>,             \* saved filter sets
   series |-> <<"item">>,             \* /api/ts/query
   host   |-> <<"host">>]             \* /api/logs/host

AccessAssumption ==
  Route \subseteq DOMAIN Needs /\ {Ttl, HostTtl, Timeout} \subseteq Nat

Lookup  == (UNION {{Needs[k][i] : i \in DOMAIN Needs[k]} : k \in Route}) \cup {"session"}
Right   == Lookup \ {"session", "name"}  \* what a live session may be without
Fact    == Right \cup {"session"}

\* How long an answer is kept: a host's identity longer than the others.
TtlOf(l) == IF l = "host" THEN HostTtl ELSE Ttl
Longest  == IF Ttl >= HostTtl THEN Ttl ELSE HostTtl
Forever  == Longest + Timeout + 1  \* bound: beyond it times are not told apart

VARIABLES
  holds,  \* the facts that are true of the token in Zabbix
  since,  \* per fact the ticks since it last was
  cache,  \* per lookup the answer kept and its age
  req     \* per request where it stands

vars == <<holds, since, cache, req>>

Idle   == [at |-> "idle"]
Absent == [yes |-> FALSE, age |-> Longest + 1]  \* no entry, or one that has expired

\* A call to Zabbix: the lookup, which of its attempts this is, its age, and
\* what Zabbix has said so far: yes, less (a live session without the right)
\* or no.
Call == [at : {"call"}, route : Route, step : 1..2, try : 1..3, age : 0..Timeout,
         said : {"nothing", "yes", "less", "no"}]

TypeOK ==
  /\ holds \subseteq Fact
  /\ since \in [Fact -> 0..Forever]
  /\ cache \in [Lookup -> [yes : BOOLEAN, age : 0..Longest + 1]]
  /\ req \in [Request -> Call \cup [at : {"idle", "refused"}] \cup [at : {"served"}, route : Route]]
  /\ \A r \in Request : req[r].at = "call" => req[r].step <= Len(Needs[req[r].route])

Init ==
  /\ holds \in {Fact, {"session"}}
  /\ since = [f \in Fact |-> IF f \in holds THEN 0 ELSE Forever]
  /\ cache = [l \in Lookup |-> Absent]
  /\ req = [r \in Request |-> Idle]

Verdict(l) ==
  IF "session" \notin holds THEN "no" ELSE IF l \in Right \ holds THEN "less" ELSE "yes"

-----------------------------------------------------------------------------
Kept(known, l) == known[l].age <= TtlOf(l)  \* TTLCache.get

Ask(k, i) == [at |-> "call", route |-> k, step |-> i, try |-> 1, age |-> 0, said |-> "nothing"]

\* The lookup at step i of route k: from the cache without waiting, else by a
\* call.  What the cache knows may be that there is no role.
From(k, i, known) ==
  IF ~Kept(known, Needs[k][i]) THEN Ask(k, i)
  ELSE IF ~known[Needs[k][i]].yes THEN [at |-> "refused"]
  ELSE IF i < Len(Needs[k])
  THEN IF ~Kept(known, Needs[k][i + 1]) THEN Ask(k, i + 1)
       ELSE IF known[Needs[k][i + 1]].yes THEN [at |-> "served", route |-> k]
       ELSE [at |-> "refused"]
  ELSE [at |-> "served", route |-> k]

Begin(r, k) ==
  /\ req[r] = Idle
  /\ req' = [req EXCEPT ![r] = From(k, 1, cache)]
  /\ UNCHANGED <<holds, since, cache>>

Calling(r) == req[r].at = "call"
Of(r) == Needs[req[r].route][req[r].step]

\* Zabbix looks at the call.
Decide(r) ==
  /\ Calling(r) /\ req[r].said = "nothing"
  /\ req' = [req EXCEPT ![r].said = Verdict(Of(r))]
  /\ UNCHANGED <<holds, since, cache>>

\* TTLCache.set; a resolved name vouches for the session as well.
Stored(l, yes) ==
  [m \in Lookup |-> IF m = l \/ (l = "name" /\ m = "session")
                    THEN [yes |-> yes, age |-> 0] ELSE cache[m]]

\* The identity of an administrator has arrived without the role's type:
\* role.get is asked for it.
AskRole(r) ==
  /\ Calling(r) /\ Of(r) = "role" /\ req[r].said # "nothing" /\ req[r].said # "no"
  /\ req[r].try < 3
  /\ req' = [req EXCEPT ![r] = [Ask(req[r].route, req[r].step) EXCEPT !.try = 3]]
  /\ UNCHANGED <<holds, since, cache>>

Granted(r) ==
  /\ Calling(r) /\ req[r].said = "yes"
  /\ cache' = Stored(Of(r), TRUE)
  /\ req' = [req EXCEPT ![r] = From(req[r].route, req[r].step, cache')]
  /\ UNCHANGED <<holds, since>>

\* 403; that somebody is no administrator is kept.
Lacking(r) ==
  /\ Calling(r) /\ req[r].said = "less"
  /\ cache' = IF Of(r) = "role" THEN Stored("role", FALSE) ELSE cache
  /\ req' = [req EXCEPT ![r] = [at |-> "refused"]]
  /\ UNCHANGED <<holds, since>>

\* 401, an error, or no answer in time.  _check_authentication tries the token
\* as a sessionid and then as an API token; a role that cannot be determined
\* is kept as none.
Fails(r) ==
  /\ Calling(r)
  /\ IF Of(r) \in {"name", "role"} /\ req[r].try = 1
     THEN /\ req' = [req EXCEPT ![r] = [Ask(req[r].route, req[r].step) EXCEPT !.try = 2]]
          /\ UNCHANGED cache
     ELSE /\ req' = [req EXCEPT ![r] = [at |-> "refused"]]
          /\ cache' = IF Of(r) = "role" THEN Stored("role", FALSE) ELSE cache
  /\ UNCHANGED <<holds, since>>

Close(r) ==
  /\ req[r].at \in {"served", "refused"}
  /\ req' = [req EXCEPT ![r] = Idle]
  /\ UNCHANGED <<holds, since, cache>>

-----------------------------------------------------------------------------
\* Zabbix ends the session, for good, or takes and gives a right.
Lose(f) ==
  /\ f \in holds /\ holds' = holds \ {f}
  /\ UNCHANGED <<since, cache, req>>

Gain(f) ==
  /\ f \in Right \ holds /\ holds' = holds \cup {f}
  /\ since' = [since EXCEPT ![f] = 0]
  /\ UNCHANGED <<cache, req>>

\* TTLCache.set drops the older half of a full cache, for other tokens' sake.
Evict(l) ==
  /\ Kept(cache, l) /\ cache' = [cache EXCEPT ![l] = Absent]
  /\ UNCHANGED <<holds, since, req>>

\* (mutant) an expired entry stays in the cache and is used
Tick_keepsExpired ==
  /\ \A r \in Request : Calling(r) => req[r].age < Timeout
  /\ since' = [f \in Fact |-> IF f \in holds THEN 0
                              ELSE IF since[f] = Forever THEN Forever ELSE since[f] + 1]
  /\ cache' = [l \in Lookup |-> IF cache[l].age >= TtlOf(l) THEN cache[l]
                                ELSE [cache[l] EXCEPT !.age = @ + 1]]
  /\ req' = [r \in Request |-> IF Calling(r) THEN [req[r] EXCEPT !.age = @ + 1] ELSE req[r]]
  /\ UNCHANGED holds

\* Time passes, and no call outlives its timeout.
Tick ==
  /\ \A r \in Request : Calling(r) => req[r].age < Timeout
  /\ since' = [f \in Fact |-> IF f \in holds THEN 0
                              ELSE IF since[f] = Forever THEN Forever ELSE since[f] + 1]
  /\ cache' = [l \in Lookup |-> IF cache[l].age >= TtlOf(l) THEN Absent
                                ELSE [cache[l] EXCEPT !.age = @ + 1]]
  /\ req' = [r \in Request |-> IF Calling(r) THEN [req[r] EXCEPT !.age = @ + 1] ELSE req[r]]
  /\ UNCHANGED holds

Next ==
  \/ \E r \in Request :
       \/ \E k \in Route : Begin(r, k)
       \/ Decide(r) \/ AskRole(r) \/ Granted(r) \/ Lacking(r) \/ Fails(r) \/ Close(r)
  \/ \E f \in Fact : Lose(f) \/ Gain(f)
  \/ \E l \in Lookup : Evict(l)
  \/ Tick

Spec == Init /\ [][Next]_vars

-----------------------------------------------------------------------------
(* Property.                                                               *)

\* The session, and the rights route k needs, were there no longer ago than its
\* last answer is kept plus the time one call may take.
RecentFor(k) ==
  LET oldest == TtlOf(Needs[k][Len(Needs[k])]) + Timeout
  IN  /\ since["session"] <= oldest
      /\ \A i \in DOMAIN Needs[k] : Needs[k][i] \in Right => since[Needs[k][i]] <= oldest

\* Whatever is cached, late, lost or asked at the same time: a route does its
\* work only on a recent word.  Every lookup vouches for the session as well
\* (zabbix.py:121-265, docker_routes.py:108-247; docs/configuration.md on
\* PERMISSION_CACHE_TTL).
RecentWord ==
  \A r \in Request :
    (req[r].at # "served" /\ req'[r].at = "served") => RecentFor(req'[r].route)

ServedOnRecentWord == [][RecentWord]_vars
=============================================================================
