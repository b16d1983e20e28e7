----------------------------- MODULE DockerStats -----------------------------
(***************************************************************************)
(* CPU usage of a container on the Docker page: DockerService._stats_for   *)
(* reads the counters of the container and of its host, and docker_stats   *)
(* turns two readings into a percentage.  Polls overlap, a reading may     *)
(* take long or fail, and the container or its host may restart between    *)
(* two of them.  The counters are in the same unit: the host counts at      *)
(* least what its container uses.                                          *)
(***************************************************************************)
EXTENDS Integers

CONSTANTS
  Poll,      \* concurrent polls
  MaxTotal,  \* bound: the host's counter since it booted
  MaxBoot    \* bound: restarts of the host

StatsAssumption ==
  MaxTotal \in Nat \ {0} /\ MaxBoot \in Nat

VARIABLES
  now,   \* the counters now; `boot` counts the starts of the host
  prev,  \* _stats_raw_prev: the reading kept for the next poll, or None
  kept,  \* _stats_cache: what is answered without a call, or None
  poll,  \* per poll: no call, or the reading on its way
  shown  \* the last answer: its two readings and the usage

vars == <<now, prev, kept, poll, shown>>

None    == [none |-> TRUE]
Reading == [total : 0..MaxTotal, system : 0..MaxTotal, boot : 0..MaxBoot]
\* cpu_pct is (num / den) * Cpus * 100.
Usage   == [num : Int, den : Int]
Zero    == [num |-> 0, den |-> 1]

TypeOK ==
  /\ now \in Reading
  /\ prev \in Reading \cup {None}
  /\ kept \in Usage \cup {None}
  /\ poll \in [Poll -> Reading \cup {None}]
  /\ shown \in [base : Reading \cup {None}, cur : Reading, usage : Usage]

Init ==
  /\ now = [total |-> 0, system |-> 0, boot |-> 0]
  /\ prev = None /\ kept = None
  /\ poll = [p \in Poll |-> None]
  /\ shown = [base |-> None, cur |-> now, usage |-> Zero]

(* _cpu_pct.  The sample of a streaming read carries its own predecessor;  *)
(* a one-shot sample is compared with the reading before.                  *)
CpuPct_cpuGuard(base, cur) ==  \* (mutant) only the container's delta is looked at
  IF base = None \/ cur.total <= base.total THEN Zero
  ELSE [num |-> cur.total - base.total, den |-> cur.system - base.system]

CpuPct(base, cur) ==
  IF base = None \/ cur.total <= base.total \/ cur.system <= base.system THEN Zero
  ELSE [num |-> cur.total - base.total, den |-> cur.system - base.system]

(* stats_bulk, one target: a kept answer is given at once, else the        *)
(* counters are read, and the reading arrives later or never.              *)
Ask(p) ==
  /\ poll[p] = None /\ kept = None
  /\ poll' = [poll EXCEPT ![p] = now]
  /\ UNCHANGED <<now, prev, kept, shown>>

Arrive(p) ==
  /\ poll[p] # None
  /\ shown' = [base |-> prev, cur |-> poll[p], usage |-> CpuPct(prev, poll[p])]
  /\ kept' = shown'.usage
  /\ prev' = poll[p]
  /\ poll' = [poll EXCEPT ![p] = None]
  /\ UNCHANGED now

Fail(p) ==
  /\ poll[p] # None
  /\ poll' = [poll EXCEPT ![p] = None]
  /\ UNCHANGED <<now, prev, kept, shown>>

(* stats_one: docker-py reads twice, a second apart.                       *)
Stream ==
  /\ now.system > 0
  /\ \E t \in {now.total - 1, now.total} \cap Nat :
       LET base == [total |-> t, system |-> now.system - 1, boot |-> now.boot]
       IN  shown' = [base |-> base, cur |-> now, usage |-> CpuPct(base, now)]
  /\ UNCHANGED <<now, prev, kept, poll>>

Expire ==
  /\ kept # None /\ kept' = None
  /\ UNCHANGED <<now, prev, poll, shown>>

(* The host counts on, the container works or not; it is started anew; the *)
(* host reboots, and everything counts from 0.                             *)
Work(used) ==
  /\ now.system < MaxTotal
  /\ now' = [now EXCEPT !.system = @ + 1, !.total = @ + used]
  /\ UNCHANGED <<prev, kept, poll, shown>>

Restart ==
  /\ now' = [now EXCEPT !.total = 0]
  /\ UNCHANGED <<prev, kept, poll, shown>>

Reboot ==
  /\ now.boot < MaxBoot
  /\ now' = [total |-> 0, system |-> 0, boot |-> now.boot + 1]
  /\ UNCHANGED <<prev, kept, poll, shown>>

Next ==
  \/ \E p \in Poll : Ask(p) \/ Arrive(p) \/ Fail(p)
  \/ Stream \/ Expire \/ Restart \/ Reboot \/ \E used \in 0..1 : Work(used)

Spec == Init /\ [][Next]_vars

-----------------------------------------------------------------------------
(* Properties.                                                             *)

\* No container is shown to use a negative share or more processors than its
\* host has, however polls overlap, samples arrive out of order and the
\* container restarts in between, as long as both readings are from one run
\* of the host (docker_stats.py:15-52; _stats_for, docker_hosts.py:1174-1187).
\* After a reboot between two readings nothing bounds the number.
UsageWithinHost ==
  (shown.base # None /\ shown.base.boot = shown.cur.boot)
    => 0 <= shown.usage.num /\ shown.usage.num <= shown.usage.den

\* Why: between two readings of one run of the host the container used no more
\* than the host counted, unless the later one was taken first.
Taken == ({prev} \cup {poll[p] : p \in Poll}) \ {None}
Follows(a, b) == b.total - a.total <= b.system - a.system

UsageInv ==
  /\ TypeOK /\ UsageWithinHost
  /\ now.total <= now.system
  /\ \A a \in Taken :
       /\ a.boot <= now.boot
       /\ a.boot = now.boot => a.system <= now.system /\ Follows(a, now)
       /\ \A b \in Taken : a.boot = b.boot /\ a.system < b.system => Follows(a, b)
=============================================================================
