---------------------------- MODULE DockerService ----------------------------
(***************************************************************************)
(* DockerService's container lists and write actions (docker_hosts.py):    *)
(* containers() answers from a TTL cache or fetches through _call and      *)
(* stores what it got; act() sends a write through _call and, when it      *)
(* succeeds, invalidates the host's entries.  Nothing ties a fetch that is *)
(* in flight to an invalidation that happens meanwhile.                    *)
(***************************************************************************)
EXTENDS DockerCalls

CONSTANTS
  View,     \* the cache keys of one host: all_=True and all_=False
  NoEntry,  \* an absent cache entry, or no answer
  MaxVersion \* bound: changes of one host's containers

ASSUME ServiceAssumption ==
  NoEntry \notin Nat /\ MaxVersion \in Nat /\ "act" \notin View

VARIABLES
  world,   \* the daemons: how often the host's containers have changed
  cache,   \* _container_cache: the version an entry shows, or NoEntry
  want,    \* what each task serves: a view of the list, or a write
  got,     \* the version the task's call or cache lookup produced
  acted,   \* history: the version the last successful action left behind
  floor,   \* history: acted[host] when the request began
  raced,   \* history: an action succeeded while this fetch was in flight
  tainted  \* history: the entry was stored by a fetch that was raced

serviceVars == <<world, cache, want, got, acted, floor, raced, tainted>>
vars == <<pc, host, global, hosts, world, cache, want, got, acted, floor,
          raced, tainted>>

Wants    == View \cup {"act"}
Versions == Nat \cup {NoEntry}

TypeOK ==
  /\ CallsTypeOK
  /\ world \in [Host -> Nat]
  /\ cache \in [Host -> [View -> Versions]]
  /\ want \in [Task -> Wants]
  /\ got \in [Task -> Versions]
  /\ acted \in [Host -> Nat]
  /\ floor \in [Task -> Nat]
  /\ raced \in [Task -> BOOLEAN]
  /\ tainted \in [Host -> [View -> BOOLEAN]]

Init ==
  /\ CallsInit
  /\ world = [h \in Host |-> 0]
  /\ cache = [h \in Host |-> [v \in View |-> NoEntry]]
  /\ want = [t \in Task |-> "act"]
  /\ got = [t \in Task |-> NoEntry]
  /\ acted = [h \in Host |-> 0]
  /\ floor = [t \in Task |-> 0]
  /\ raced = [t \in Task |-> FALSE]
  /\ tainted = [h \in Host |-> [v \in View |-> FALSE]]

InFlight(t) == pc[t] \in {"globalQueue", "hostQueue", "thread", "answered"}

Begin(t, h, w) ==
  /\ pc[t] = "idle"
  /\ want' = [want EXCEPT ![t] = w]
  /\ floor' = [floor EXCEPT ![t] = acted[h]]
  /\ raced' = [raced EXCEPT ![t] = FALSE]

\* _containers_for_host with a live entry: the answer is the entry.
ListFromCache(t, h, v) ==
  /\ Begin(t, h, v)
  /\ cache[h][v] # NoEntry
  /\ got' = [got EXCEPT ![t] = cache[h][v]]
  /\ NoCall(t, h)
  /\ UNCHANGED <<world, cache, acted, tainted>>

\* _containers_for_host on a miss, up to its `await`.
ListFetch(t, h, v) ==
  /\ Begin(t, h, v)
  /\ cache[h][v] = NoEntry
  /\ Enter(t, h)
  /\ UNCHANGED <<world, cache, got, acted, tainted>>

\* act, up to its `await`.
ActBegin(t, h) ==
  /\ Begin(t, h, "act")
  /\ Enter(t, h)
  /\ UNCHANGED <<world, cache, got, acted, tainted>>

Acquire(t) ==
  /\ ResumeGlobal(t) \/ ResumeHost(t)
  /\ UNCHANGED serviceVars

\* The daemon serves the call: a list reads the containers, a write changes
\* them.  A failure is an answer too; a failed write may have changed them.
Daemon(t) ==
  /\ Answer(t)
  /\ \/ /\ want[t] \in View
        /\ got' = [got EXCEPT ![t] = world[host[t]]]
        /\ UNCHANGED world
     \/ /\ want[t] = "act"
        /\ world[host[t]] < MaxVersion
        /\ world' = [world EXCEPT ![host[t]] = @ + 1]
        /\ \/ got' = [got EXCEPT ![t] = world'[host[t]]]
           \/ UNCHANGED got
     \/ UNCHANGED <<got, world>>
  /\ UNCHANGED <<cache, want, acted, floor, raced, tainted>>

\* (mutant) whatever was answered is kept, that of a write under a key too
Finish_storesEveryAnswer(t) ==
  LET h == host[t] IN
  /\ Leave(t)
  /\ got[t] # NoEntry
  /\ cache' = [cache EXCEPT ![h] = [v \in DOMAIN @ \cup {want[t]} |->
                                      IF v = want[t] THEN got[t] ELSE @[v]]]
  /\ UNCHANGED <<tainted, acted, raced, world, want, got, floor>>

\* (mutant) an action drops the entry of one view only
Finish_dropsOneView(t) ==
  LET h == host[t] IN
  /\ Leave(t)
  /\ \/ /\ want[t] \in View /\ got[t] # NoEntry
        /\ cache' = [cache EXCEPT ![h][want[t]] = got[t]]
        /\ tainted' = [tainted EXCEPT ![h][want[t]] = raced[t]]
        /\ UNCHANGED <<acted, raced>>
     \/ /\ want[t] = "act" /\ got[t] # NoEntry
        /\ cache' = [cache EXCEPT ![h]["all"] = NoEntry]
        /\ tainted' = [tainted EXCEPT ![h]["all"] = FALSE]
        /\ acted' = [acted EXCEPT ![h] = IF got[t] > @ THEN got[t] ELSE @]
        /\ raced' = [u \in Task |-> raced[u] \/ (InFlight(u) /\ host[u] = h)]
     \/ /\ got[t] = NoEntry
        /\ UNCHANGED <<cache, tainted, acted, raced>>
  /\ UNCHANGED <<world, want, got, floor>>

\* Back on the event loop: permits are released and, in the same step, a
\* list is stored, or a successful write drops the host's entries.
Finish(t) ==
  LET h == host[t] IN
  /\ Leave(t)
  /\ \/ /\ want[t] \in View /\ got[t] # NoEntry
        /\ cache' = [cache EXCEPT ![h][want[t]] = got[t]]
        /\ tainted' = [tainted EXCEPT ![h][want[t]] = raced[t]]
        /\ UNCHANGED <<acted, raced>>
     \/ /\ want[t] = "act" /\ got[t] # NoEntry
        /\ cache' = [cache EXCEPT ![h] = [v \in View |-> NoEntry]]
        /\ tainted' = [tainted EXCEPT ![h] = [v \in View |-> FALSE]]
        /\ acted' = [acted EXCEPT ![h] = IF got[t] > @ THEN got[t] ELSE @]
        /\ raced' = [u \in Task |-> raced[u] \/ (InFlight(u) /\ host[u] = h)]
     \/ /\ got[t] = NoEntry
        /\ UNCHANGED <<cache, tainted, acted, raced>>
  /\ UNCHANGED <<world, want, got, floor>>

Reply(t) ==
  /\ Done(t)
  /\ want' = [want EXCEPT ![t] = "act"]
  /\ got' = [got EXCEPT ![t] = NoEntry]
  /\ floor' = [floor EXCEPT ![t] = 0]
  /\ raced' = [raced EXCEPT ![t] = FALSE]
  /\ UNCHANGED <<world, cache, acted, tainted>>

\* docker_cache_ttl has passed.
Expire(h, v) ==
  /\ cache[h][v] # NoEntry
  /\ cache' = [cache EXCEPT ![h][v] = NoEntry]
  /\ tainted' = [tainted EXCEPT ![h][v] = FALSE]
  /\ UNCHANGED <<callVars, world, want, got, acted, floor, raced>>

Next ==
  \/ \E t \in Task, h \in Host :
       \/ \E v \in View : ListFromCache(t, h, v) \/ ListFetch(t, h, v)
       \/ ActBegin(t, h)
  \/ \E t \in Task : Acquire(t) \/ Daemon(t) \/ Finish(t) \/ Reply(t)
  \/ \E h \in Host, v \in View : Expire(h, v)

Spec == Init /\ [][Next]_vars

-----------------------------------------------------------------------------
(* Properties.                                                             *)

\* A cached list is older than the last successful action only if it was
\* fetched while that action succeeded; every other entry is dropped or
\* stored after it (1293-1300, 1321-1329).
StaleOnlyIfRaced ==
  \A h \in Host, v \in View :
    cache[h][v] # NoEntry /\ ~tainted[h][v] => cache[h][v] >= acted[h]

\* The docstring of invalidate (1322-1324): dropping the entries after a write
\* makes "the next list reflect it right away".
NextListReflectsAct ==
  \A t \in Task :
    pc[t] = "reply" /\ want[t] \in View /\ got[t] # NoEntry => got[t] >= floor[t]
=============================================================================
