------------------------------ MODULE FailureLock ------------------------------
(***************************************************************************)
(* What LoginThrottle (services/gateway/src/auzui_gateway/                 *)
(* zabbix_proxy.py:121-131) promises: every address and user name has a    *)
(* run of failures, which ends by itself when none has been added for      *)
(* Lockout; a login is refused exactly while one of its keys has a run of  *)
(* MaxFailures.  Runs may be forgotten early only when too many are held,  *)
(* and then only the oldest.                                               *)
(***************************************************************************)
EXTENDS Naturals, FiniteSets

CONSTANTS
  Task, Addr, Name, \* logins in flight, client addresses, user names
  NoName,           \* a login that carries none
  MaxFailures, Lockout, Cap

VARIABLES
  run,     \* the length of each key's run of failures
  quiet,   \* the time since a run's last failure
  sent,    \* the login each task has sent to Zabbix
  refused  \* whether the last login that asked was refused

lockVars == <<run, quiet, sent, refused>>

Key    == Addr \cup Name
Logins == [addr : Addr, name : Name \cup {NoName}]
KeysOf(l) == {l.addr, l.name} \cap Key

Held(r) == {k \in Key : r[k] > 0}
Locked(k) == MaxFailures > 0 /\ run[k] >= MaxFailures

LockInit ==
  /\ run = [k \in Key |-> 0] /\ quiet = [k \in Key |-> 0]
  /\ sent = [t \in Task |-> {}] /\ refused = FALSE

Ask(t, l) ==
  /\ sent[t] = {}
  /\ refused' = \E k \in KeysOf(l) : Locked(k)
  /\ sent' = IF refused' THEN sent ELSE [sent EXCEPT ![t] = {l}]
  /\ UNCHANGED <<run, quiet>>

\* The keys that K leaves are at least as recent as those in it.
Oldest(K, r, q) == \A k \in K : \A j \in Held(r) \ K : q[j] <= q[k]

Fails(t) ==
  \E l \in sent[t] :
    LET more  == [k \in Key |-> run[k] + IF k \in KeysOf(l) THEN 1 ELSE 0]
        fresh == [k \in Key |-> IF k \in KeysOf(l) THEN 0 ELSE quiet[k]]
    IN \E K \in SUBSET Held(more) :
         /\ IF Cardinality(Held(more)) > Cap
              THEN /\ Cardinality(K) = Cardinality(Held(more)) \div 2
                   /\ Oldest(K, more, fresh)
              ELSE K = {}
         /\ run' = [k \in Key |-> IF k \in K THEN 0 ELSE more[k]]
         /\ quiet' = [k \in Key |-> IF k \in K THEN 0 ELSE fresh[k]]
         /\ sent' = [sent EXCEPT ![t] = {}]
         /\ UNCHANGED refused

Succeeds(t) ==
  \E l \in sent[t] :
    /\ run' = [k \in Key |-> IF k = l.name THEN 0 ELSE run[k]]
    /\ quiet' = [k \in Key |-> IF k = l.name THEN 0 ELSE quiet[k]]
    /\ sent' = [sent EXCEPT ![t] = {}]
    /\ UNCHANGED refused

\* No answer that says anything about the password.
ComesToNothing(t) ==
  /\ sent[t] # {}
  /\ sent' = [sent EXCEPT ![t] = {}]
  /\ UNCHANGED <<run, quiet, refused>>

TimePasses ==
  LET over(k) == run[k] > 0 /\ quiet[k] + 1 >= Lockout
  IN /\ run' = [k \in Key |-> IF over(k) THEN 0 ELSE run[k]]
     /\ quiet' = [k \in Key |-> IF run[k] = 0 \/ over(k) THEN 0 ELSE quiet[k] + 1]
     /\ UNCHANGED <<sent, refused>>

LockNext ==
  \/ \E t \in Task : \E l \in Logins : Ask(t, l)
  \/ \E t \in Task : Fails(t) \/ Succeeds(t) \/ ComesToNothing(t)
  \/ TimePasses

LockSpec == LockInit /\ [][LockNext]_lockVars
=============================================================================
