----------------------------- MODULE LoginThrottle -----------------------------
(***************************************************************************)
(* user.login through the gateway's JSON-RPC proxy                         *)
(* (services/gateway/src/auzui_gateway/zabbix_proxy.py).  api_jsonrpc asks *)
(* the LoginThrottle before it awaits Zabbix's answer, and tells it the    *)
(* outcome afterwards; other logins run in between.  The table of failures *)
(* is emptied lazily, and pruned when it grows.                            *)
(***************************************************************************)
EXTENDS Naturals, FiniteSets

CONSTANTS
  Task,        \* bound: logins in flight
  Addr, Name,  \* client addresses and user names: the keys of the table
  NoName,      \* a login whose parameters carry no user name
  MaxFailures, \* zabbix_login_max_failures; 0 disables the throttle
  Lockout,     \* zabbix_login_lockout_seconds, in ticks
  Cap          \* max_entries

ASSUME ThrottleAssumption ==
  /\ IsFiniteSet(Task) /\ IsFiniteSet(Addr) /\ IsFiniteSet(Name)
  /\ Addr \cap Name = {} /\ NoName \notin Addr \cup Name
  /\ MaxFailures \in Nat /\ Lockout \in Nat \ {0} /\ Cap \in Nat \ {0, 1}

VARIABLES
  table,   \* _state: for each key none, or the failures and the last one's age
  sent,    \* the login each task awaits Zabbix's answer to
  refused  \* history: whether the last login that asked was refused

vars == <<table, sent, refused>>

Key    == Addr \cup Name
Logins == [addr : Addr, name : Name \cup {NoName}]

\* ip_key and user_keys.
KeysOf(l) == {l.addr, l.name} \cap Key

\* Ages stop at Lockout: an older entry is as expired.
Entries == [count : Nat \ {0}, age : 0..Lockout]

AtMostOne(S) == \A x, y \in S : x = y

Present(T) == {k \in Key : T[k] # {}}
Expired(T, k) == \E e \in T[k] : e.age >= Lockout
Without(T, K) == [k \in Key |-> IF k \in K THEN {} ELSE T[k]]

TypeOK ==
  /\ table \in [Key -> SUBSET Entries] /\ \A k \in Key : AtMostOne(table[k])
  /\ sent \in [Task -> SUBSET Logins] /\ \A t \in Task : AtMostOne(sent[t])
  /\ refused \in BOOLEAN

Init ==
  /\ table = [k \in Key |-> {}]
  /\ sent = [t \in Task |-> {}]
  /\ refused = FALSE

-----------------------------------------------------------------------------

\* (mutant) one failure too many is allowed
Locks_offByOne(T, k) ==
  /\ MaxFailures > 0
  /\ \E e \in T[k] : e.age < Lockout /\ e.count > MaxFailures

\* One key of is_locked's loop.
Locks(T, k) ==
  /\ MaxFailures > 0
  /\ \E e \in T[k] : e.age < Lockout /\ e.count >= MaxFailures

\* is_locked looks at the address first, returns at the first key that locks,
\* and drops the expired entries it has looked at.
LookedAt(l) == IF Locks(table, l.addr) THEN {l.addr} ELSE KeysOf(l)

\* api_jsonrpc up to its await.
Login(t, l) ==
  /\ sent[t] = {}
  /\ refused' = \E k \in KeysOf(l) : Locks(table, k)
  /\ sent' = IF refused' THEN sent ELSE [sent EXCEPT ![t] = {l}]
  /\ table' = Without(table, {k \in LookedAt(l) : MaxFailures > 0 /\ Expired(table, k)})

\* The failures that count, and the age of the last of them.
Count(T, k) == IF \E e \in T[k] : e.age < Lockout
                 THEN (CHOOSE e \in T[k] : TRUE).count
                 ELSE 0
Age(T, k)   == IF \E e \in T[k] : e.age < Lockout
                 THEN (CHOOSE e \in T[k] : TRUE).age
                 ELSE 0

\* (mutant) only expired entries are dropped
Pruned_expiredOnly(T) ==
  {IF Cardinality(Present(T)) <= Cap THEN T
   ELSE Without(T, {k \in Key : Expired(T, k)})}

\* _prune: the expired entries, and if that is not enough the oldest half.
\* Entries of one age go in the order of the table.
Pruned(T) ==
  LET U == Without(T, {k \in Key : Expired(T, k)})
  IN IF Cardinality(Present(T)) <= Cap THEN {T}
     ELSE IF Cardinality(Present(U)) <= Cap THEN {U}
     ELSE {Without(U, K) : K \in {K \in SUBSET Present(U) :
             /\ Cardinality(K) = Cardinality(Present(U)) \div 2
             /\ \A k \in K : \A j \in Present(U) \ K :
                  \A d \in U[k] : \A e \in U[j] : e.age <= d.age}}

\* (mutant) an old count goes on
Failure_keepsOldCount(t) ==
  \E l \in sent[t] :
    /\ table' \in Pruned([k \in Key |->
                    IF k \in KeysOf(l)
                      THEN {[count |-> 1 + (IF table[k] = {} THEN 0
                                            ELSE (CHOOSE e \in table[k] : TRUE).count),
                             age |-> 0]}
                      ELSE table[k]])
    /\ sent' = [sent EXCEPT ![t] = {}]
    /\ UNCHANGED refused

\* Zabbix answers with an error: failure() for the address and the name.
Failure(t) ==
  \E l \in sent[t] :
    /\ table' \in Pruned([k \in Key |->
                    IF k \in KeysOf(l) THEN {[count |-> Count(table, k) + 1, age |-> 0]}
                                       ELSE table[k]])
    /\ sent' = [sent EXCEPT ![t] = {}]
    /\ UNCHANGED refused

\* (mutant) a success takes one failure off the count
Success_forgivesOne(t) ==
  \E l \in sent[t] :
    /\ table' = [k \in Key |-> IF k = l.name
                    THEN {[e EXCEPT !.count = @ - 1] : e \in table[k]}
                    ELSE table[k]]
    /\ sent' = [sent EXCEPT ![t] = {}]
    /\ UNCHANGED refused

\* Zabbix answers with a session: success() for the name, not for the address.
Success(t) ==
  \E l \in sent[t] :
    /\ table' = Without(table, {l.name})
    /\ sent' = [sent EXCEPT ![t] = {}]
    /\ UNCHANGED refused

\* A timeout, an unreachable Zabbix or an unusable answer counts for nothing.
Unusable(t) ==
  /\ sent[t] # {}
  /\ sent' = [sent EXCEPT ![t] = {}]
  /\ UNCHANGED <<table, refused>>

Tick ==
  /\ table' = [k \in Key |-> {[e EXCEPT !.age = IF @ < Lockout THEN @ + 1 ELSE @] :
                                e \in table[k]}]
  /\ UNCHANGED <<sent, refused>>

Next ==
  \/ \E t \in Task : \E l \in Logins : Login(t, l)
  \/ \E t \in Task : Failure(t) \/ Success(t) \/ Unusable(t)
  \/ Tick

Spec == Init /\ [][Next]_vars

-----------------------------------------------------------------------------
(* Properties.                                                             *)

InFlight(k) == {t \in Task : \E l \in sent[t] : k \in KeysOf(l)}

\* Logins that were let through together can all fail, but no more of them:
\* what a key has counted and what may still be added to it stays below the
\* limit plus the logins in flight, although the check and the count are an
\* await apart (zabbix_proxy.py:270, 327).
FailuresBounded ==
  MaxFailures > 0 =>
    \A k \in Key : \A e \in table[k] :
      e.count + Cardinality(InFlight(k)) <= MaxFailures - 1 + Cardinality(Task)

\* The table never holds more than max_entries keys (zabbix_proxy.py:121-131:
\* "State is per process ... and bounded").
TableBounded == Cardinality(Present(table)) <= Cap

\* Deleting expired entries when they are met, counting from one again and
\* pruning come to the same as ending every run of failures on time.
Lock == INSTANCE FailureLock WITH
  run   <- [k \in Key |-> Count(table, k)],
  quiet <- [k \in Key |-> Age(table, k)]

LockSpec == Lock!LockSpec
=============================================================================
