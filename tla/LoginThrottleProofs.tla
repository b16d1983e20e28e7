-------------------------- MODULE LoginThrottleProofs --------------------------
(***************************************************************************)
(* Proofs about LoginThrottle: its table is bounded, its counts are, and   *)
(* it implements FailureLock.                                              *)
(***************************************************************************)
EXTENDS LoginThrottle, FiniteSetTheorems, TLAPS

-----------------------------------------------------------------------------
(* Lemmas about the operators.                                             *)

\* There are finitely many keys, hence entries.
LEMMA KeysAreFinite ==
  /\ IsFiniteSet(Key)
  /\ \A S \in SUBSET Key : IsFiniteSet(S) /\ Cardinality(S) \in Nat
BY ThrottleAssumption, FS_Union, FS_Subset, FS_CardinalityType DEF Key

\* A login has its address as a key, its name if it has one, and no other.
LEMMA KeysOfLogin ==
  ASSUME NEW l \in Logins
  PROVE  /\ l.addr \in KeysOf(l) /\ KeysOf(l) \subseteq Key
         /\ KeysOf(l) \subseteq {l.addr, l.name}
BY DEF Logins, KeysOf, Key

\* What a table is.
Tables == {T \in [Key -> SUBSET Entries] : \A k \in Key : AtMostOne(T[k])}

\* The table after some keys are dropped.
LEMMA WithoutIsTable ==
  ASSUME NEW T \in Tables, NEW K
  PROVE  /\ Without(T, K) \in Tables
         /\ \A k \in Key : Without(T, K)[k] = IF k \in K THEN {} ELSE T[k]
         /\ Present(Without(T, K)) = Present(T) \ K
BY DEF Tables, Without, Present, AtMostOne

\* Pruning removes keys and changes none that stays.
LEMMA PrunedIsWithout ==
  ASSUME NEW T \in Tables, NEW U \in Pruned(T)
  PROVE  \E K \in SUBSET Key : U = Without(T, K)
<1> DEFINE X == {k \in Key : Expired(T, k)}
           V == Without(T, X)
<1>1. T = Without(T, {}) /\ X \in SUBSET Key
  BY DEF Without, Tables
<1>2. \/ U = T \/ U = V
      \/ \E K \in SUBSET Present(V) : U = Without(V, K)
  BY DEF Pruned
<1>3. ASSUME NEW K \in SUBSET Present(V), U = Without(V, K)
      PROVE  U = Without(T, X \cup K) /\ X \cup K \in SUBSET Key
  BY <1>3 DEF Without, Present
<1>4. QED
  BY <1>1, <1>2, <1>3

\* Pruning makes room.
LEMMA PrunedIsBounded ==
  ASSUME NEW T \in Tables, Cardinality(Present(T)) <= Cap + 2, NEW U \in Pruned(T)
  PROVE  Cardinality(Present(U)) <= Cap
<1> DEFINE X == {k \in Key : Expired(T, k)}
           V == Without(T, X)
<1>1. CASE Cardinality(Present(T)) <= Cap
  BY <1>1 DEF Pruned
<1>2. CASE ~(Cardinality(Present(T)) <= Cap) /\ Cardinality(Present(V)) <= Cap
  BY <1>2 DEF Pruned
<1>3. CASE ~(Cardinality(Present(T)) <= Cap) /\ ~(Cardinality(Present(V)) <= Cap)
  <2>1. PICK K \in SUBSET Present(V) :
          U = Without(V, K) /\ Cardinality(K) = Cardinality(Present(V)) \div 2
    BY <1>3 DEF Pruned
  <2>2. V \in Tables /\ Present(V) = Present(T) \ X
    BY WithoutIsTable
  <2>3. Present(U) = Present(V) \ K
    BY <2>1, <2>2, WithoutIsTable
  <2>4. /\ IsFiniteSet(Present(T)) /\ IsFiniteSet(Present(V))
        /\ Cardinality(Present(T)) \in Nat /\ Cardinality(Present(V)) \in Nat
    BY KeysAreFinite DEF Present
  <2>5. Cardinality(Present(V)) <= Cardinality(Present(T))
    BY <2>2, <2>4, FS_Subset
  <2>6. Present(V) \cap K = K
    BY <2>1
  <2>7. Cardinality(Present(V) \ K) = Cardinality(Present(V)) - Cardinality(K)
    BY <2>4, <2>6, FS_Difference
  <2>8. Cap \in Nat /\ Cap >= 2
    BY ThrottleAssumption
  <2>9. \A n, m \in Nat : n <= m + 2 /\ m >= 2 => n - (n \div 2) <= m
    OBVIOUS
  <2> HIDE DEF V
  <2>10. /\ Cardinality(Present(U)) =
              Cardinality(Present(V)) - (Cardinality(Present(V)) \div 2)
         /\ Cardinality(Present(V)) <= Cap + 2
    BY <2>1, <2>3, <2>4, <2>5, <2>7, <2>8
  <2>11. QED
    BY <2>4, <2>8, <2>9, <2>10
<1>4. QED
  BY <1>1, <1>2, <1>3

\* An entry counts until it has expired.
LEMMA CountIsLive ==
  ASSUME NEW T \in Tables, NEW k \in Key
  PROVE  /\ Count(T, k) \in Nat
         /\ Age(T, k) \in 0..Lockout
         /\ T[k] = {} => Count(T, k) = 0 /\ Age(T, k) = 0
         /\ Count(T, k) > 0 <=> T[k] # {} /\ ~Expired(T, k)
         /\ \A e \in T[k] :
              /\ T[k] = {e} /\ e \in Entries
              /\ Count(T, k) = IF e.age < Lockout THEN e.count ELSE 0
              /\ Age(T, k) = IF e.age < Lockout THEN e.age ELSE 0
<1>1. T[k] \subseteq Entries /\ AtMostOne(T[k])
  BY DEF Tables
<1>2. CASE T[k] = {}
  BY <1>2, ThrottleAssumption DEF Count, Age
<1>3. ASSUME NEW e \in T[k]
      PROVE  /\ T[k] = {e} /\ e \in Entries
             /\ Count(T, k) = IF e.age < Lockout THEN e.count ELSE 0
             /\ Age(T, k) = IF e.age < Lockout THEN e.age ELSE 0
             /\ Count(T, k) \in Nat /\ Age(T, k) \in 0..Lockout
             /\ Count(T, k) > 0 <=> ~Expired(T, k)
  <2>1. T[k] = {e} /\ e \in Entries
    BY <1>1, <1>3 DEF AtMostOne
  <2>2. (CHOOSE x \in T[k] : TRUE) = e
    BY <2>1
  <2>3. QED
    BY <2>1, <2>2, ThrottleAssumption DEF Count, Age, Entries, Expired
<1>4. QED
  BY <1>2, <1>3

\* What drops only expired entries counts as before.
LEMMA DroppingExpired ==
  ASSUME NEW T \in Tables, NEW K, \A k \in K \cap Key : Expired(T, k), NEW k \in Key
  PROVE  /\ Count(Without(T, K), k) = Count(T, k)
         /\ Age(Without(T, K), k) = Age(T, k)
<1>1. Without(T, K) \in Tables /\ Without(T, K)[k] = IF k \in K THEN {} ELSE T[k]
  BY WithoutIsTable
<1>2. CASE k \notin K
  BY <1>1, <1>2 DEF Count, Age
<1>3. CASE k \in K
  <2>1. Count(Without(T, K), k) = 0 /\ Age(Without(T, K), k) = 0
    BY <1>1, <1>3, CountIsLive
  <2>2. PICK e \in T[k] : e.age >= Lockout
    BY <1>3 DEF Expired
  <2>3. Count(T, k) = 0 /\ Age(T, k) = 0
    BY <2>2, CountIsLive, ThrottleAssumption DEF Entries
  <2>4. QED
    BY <2>1, <2>3
<1>4. QED
  BY <1>2, <1>3

-----------------------------------------------------------------------------
(* The steps.                                                              *)

\* The table once the failure of a login has been counted.
Failed(l) == [k \in Key |-> IF k \in KeysOf(l)
                              THEN {[count |-> Count(table, k) + 1, age |-> 0]}
                              ELSE table[k]]

LEMMA FailedIsTable ==
  ASSUME TypeOK, NEW l \in Logins
  PROVE  Failed(l) \in Tables
<1>1. ASSUME NEW k \in Key
      PROVE  Failed(l)[k] \subseteq Entries /\ AtMostOne(Failed(l)[k])
  <2>1. CASE k \in KeysOf(l)
    <3>1. table \in Tables
      BY DEF TypeOK, Tables
    <3>2. [count |-> Count(table, k) + 1, age |-> 0] \in Entries
      BY <3>1, CountIsLive, ThrottleAssumption DEF Entries
    <3>3. QED
      BY <2>1, <3>2 DEF Failed, AtMostOne
  <2>2. CASE k \notin KeysOf(l)
    BY <2>2 DEF Failed, TypeOK
  <2>3. QED
    BY <2>1, <2>2
<1>2. QED
  BY <1>1 DEF Tables, Failed

\* The table and the logins in flight after an action keep their types.
LEMMA TypeStep ==
  ASSUME TypeOK, [Next]_vars
  PROVE  TypeOK'
<1>1. table \in Tables
  BY DEF TypeOK, Tables
<1>2. ASSUME NEW t \in Task, NEW X \in SUBSET Logins, AtMostOne(X),
             sent' = [sent EXCEPT ![t] = X] \/ sent' = sent,
             table' \in Tables, refused' \in BOOLEAN
      PROVE  TypeOK'
  BY <1>2 DEF TypeOK, Tables
<1>3. ASSUME NEW t \in Task, NEW l \in Logins, Login(t, l) PROVE TypeOK'
  <2>1. {l} \in SUBSET Logins /\ AtMostOne({l}) /\ refused' \in BOOLEAN
    BY <1>3 DEF AtMostOne, Login
  <2>2. table' \in Tables
    BY <1>1, <1>3, WithoutIsTable DEF Login
  <2>3. sent' = [sent EXCEPT ![t] = {l}] \/ sent' = sent
    BY <1>3 DEF Login
  <2>4. QED
    BY <2>1, <2>2, <2>3, <1>2
<1>4. ASSUME NEW t \in Task, Failure(t) PROVE TypeOK'
  <2>1. PICK l \in sent[t] : table' \in Pruned(Failed(l))
    BY <1>4 DEF Failure, Failed
  <2>2. l \in Logins
    BY <2>1 DEF TypeOK
  <2>3. table' \in Tables
    BY <2>1, <2>2, FailedIsTable, PrunedIsWithout, WithoutIsTable
  <2>4. QED
    BY <1>4, <2>3, <1>2 DEF Failure, TypeOK, AtMostOne
<1>5. ASSUME NEW t \in Task, Success(t) PROVE TypeOK'
  <2>1. table' \in Tables
    BY <1>1, <1>5, WithoutIsTable DEF Success
  <2>2. QED
    BY <1>5, <2>1, <1>2 DEF Success, TypeOK, AtMostOne
<1>6. ASSUME NEW t \in Task, Unusable(t) PROVE TypeOK'
  BY <1>1, <1>6, <1>2 DEF Unusable, TypeOK, AtMostOne
<1>7. CASE Tick
  <2>1. ASSUME NEW k \in Key PROVE table'[k] \subseteq Entries /\ AtMostOne(table'[k])
    <3>1. \A e \in Entries : [e EXCEPT !.age = IF @ < Lockout THEN @ + 1 ELSE @] \in Entries
      BY ThrottleAssumption DEF Entries
    <3>2. table[k] \subseteq Entries /\ AtMostOne(table[k])
      BY DEF TypeOK
    <3>3. QED
      BY <1>7, <3>1, <3>2 DEF Tick, AtMostOne
  <2>2. QED
    BY <1>7, <2>1 DEF Tick, TypeOK
<1>8. CASE UNCHANGED vars
  BY <1>8 DEF vars, TypeOK
<1>9. QED
  BY <1>3, <1>4, <1>5, <1>6, <1>7, <1>8 DEF Next

\* The table of failures and the logins in flight are what the code makes them.
THEOREM ThrottleTypeCorrect == Spec => []TypeOK
<1>1. Init => TypeOK
  BY DEF Init, TypeOK, AtMostOne
<1>2. TypeOK /\ [Next]_vars => TypeOK'
  BY TypeStep
<1>3. QED
  BY <1>1, <1>2, PTL DEF Spec

-----------------------------------------------------------------------------
(* The table is bounded.                                                   *)

\* One element more.
LEMMA AddOne ==
  ASSUME NEW S, IsFiniteSet(S), NEW x
  PROVE  /\ IsFiniteSet(S \cup {x}) /\ Cardinality(S \cup {x}) \in Nat
         /\ Cardinality(S \cup {x}) <= Cardinality(S) + 1
<1>1. /\ IsFiniteSet(S \cup {x})
      /\ Cardinality(S \cup {x}) = IF x \in S THEN Cardinality(S) ELSE Cardinality(S) + 1
  BY FS_AddElement
<1>2. Cardinality(S) \in Nat
  BY FS_CardinalityType
<1>3. QED
  BY <1>1, <1>2

\* A failure adds an address and a name at the most.
LEMMA FailedGrowsByTwo ==
  ASSUME TypeOK, NEW l \in Logins
  PROVE  Cardinality(Present(Failed(l))) <= Cardinality(Present(table)) + 2
<1>1. Present(Failed(l)) \subseteq (Present(table) \cup {l.addr}) \cup {l.name}
  BY KeysOfLogin DEF Present, Failed
<1>2. IsFiniteSet(Present(table)) /\ Cardinality(Present(table)) \in Nat
  BY KeysAreFinite DEF Present
<1>3. /\ IsFiniteSet(Present(table) \cup {l.addr})
      /\ Cardinality(Present(table) \cup {l.addr}) \in Nat
      /\ Cardinality(Present(table) \cup {l.addr}) <= Cardinality(Present(table)) + 1
  BY <1>2, AddOne
<1>4. /\ IsFiniteSet((Present(table) \cup {l.addr}) \cup {l.name})
      /\ Cardinality((Present(table) \cup {l.addr}) \cup {l.name}) \in Nat
      /\ Cardinality((Present(table) \cup {l.addr}) \cup {l.name})
           <= Cardinality(Present(table) \cup {l.addr}) + 1
  BY <1>3, AddOne
<1>5. /\ Cardinality(Present(Failed(l))) \in Nat
      /\ Cardinality(Present(Failed(l)))
           <= Cardinality((Present(table) \cup {l.addr}) \cup {l.name})
  BY <1>1, <1>4, FS_Subset, FS_CardinalityType
<1>6. QED
  BY <1>2, <1>3, <1>4, <1>5

\* Every path that adds keys prunes.
THEOREM TableIsBounded == Spec => []TableBounded
<1> DEFINE Inv == TypeOK /\ TableBounded
<1>1. Init => Inv
  <2>1. Init => Present(table) = {}
    BY DEF Init, Present
  <2>2. Init => TypeOK
    BY DEF Init, TypeOK, AtMostOne
  <2>3. QED
    BY <2>1, <2>2, FS_EmptySet, ThrottleAssumption DEF TableBounded
<1>2. Inv /\ [Next]_vars => Inv'
  <2> SUFFICES ASSUME Inv, [Next]_vars PROVE TableBounded'
    BY TypeStep
  <2>1. table \in Tables /\ Cap \in Nat
    BY ThrottleAssumption DEF TypeOK, Tables
  <2>2. ASSUME Present(table') \subseteq Present(table) PROVE TableBounded'
    <3>1. /\ IsFiniteSet(Present(table)) /\ Cardinality(Present(table)) \in Nat
          /\ Cardinality(Present(table')) \in Nat
      BY KeysAreFinite DEF Present
    <3>2. Cardinality(Present(table')) <= Cardinality(Present(table))
      BY <2>2, <3>1, FS_Subset
    <3>3. QED
      BY <2>1, <3>1, <3>2 DEF TableBounded
  <2>3. ASSUME NEW t \in Task, NEW l \in Logins, Login(t, l) PROVE TableBounded'
    <3>1. Present(table') \subseteq Present(table)
      BY <2>1, <2>3, WithoutIsTable DEF Login
    <3>2. QED
      BY <2>2, <3>1
  <2>4. ASSUME NEW t \in Task, Failure(t) PROVE TableBounded'
    <3>1. PICK l \in sent[t] : table' \in Pruned(Failed(l))
      BY <2>4 DEF Failure, Failed
    <3>2. l \in Logins /\ Failed(l) \in Tables
      BY <3>1, FailedIsTable DEF TypeOK
    <3>3. /\ Cardinality(Present(Failed(l))) \in Nat
          /\ Cardinality(Present(table)) \in Nat /\ Cardinality(Present(table)) <= Cap
      BY KeysAreFinite DEF Present, TableBounded
    <3>4. Cardinality(Present(Failed(l))) <= Cap + 2
      BY <2>1, <3>2, <3>3, FailedGrowsByTwo
    <3>5. QED
      BY <3>1, <3>2, <3>4, PrunedIsBounded DEF TableBounded
  <2>5. ASSUME NEW t \in Task, Success(t) PROVE TableBounded'
    <3>1. Present(table') \subseteq Present(table)
      BY <2>1, <2>5, WithoutIsTable DEF Success
    <3>2. QED
      BY <2>2, <3>1
  <2>6. ASSUME NEW t \in Task, Unusable(t) PROVE TableBounded'
    BY <2>6 DEF Unusable, TableBounded
  <2>7. CASE Tick
    <3>1. Present(table') \subseteq Present(table)
      BY <2>7 DEF Tick, Present
    <3>2. QED
      BY <2>2, <3>1
  <2>8. CASE UNCHANGED vars
    BY <2>8 DEF vars, TableBounded
  <2>9. QED
    BY <2>3, <2>4, <2>5, <2>6, <2>7, <2>8 DEF Next
<1>3. Inv => TableBounded
  OBVIOUS
<1>4. QED
  BY <1>1, <1>2, <1>3, PTL DEF Spec

-----------------------------------------------------------------------------
(* The failures are bounded.                                               *)

\* The logins in flight that count for a key are finitely many.
LEMMA InFlightIsFinite ==
  ASSUME NEW k \in Key
  PROVE  /\ IsFiniteSet(InFlight(k)) /\ Cardinality(InFlight(k)) \in Nat
         /\ Cardinality(InFlight(k)) <= Cardinality(Task)
         /\ Cardinality(Task) \in Nat
<1>1. InFlight(k) \subseteq Task
  BY DEF InFlight
<1>2. QED
  BY <1>1, ThrottleAssumption, FS_Subset, FS_CardinalityType

\* A task that ceases to wait takes its own login with it.
LEMMA InFlightShrinks ==
  ASSUME TypeOK, NEW t \in Task, NEW k \in Key, sent' = [sent EXCEPT ![t] = {}]
  PROVE  /\ Cardinality(InFlight(k)') \in Nat
         /\ Cardinality(InFlight(k)') <= Cardinality(InFlight(k))
         /\ t \in InFlight(k) =>
              Cardinality(InFlight(k)') = Cardinality(InFlight(k)) - 1
<1>1. InFlight(k)' = InFlight(k) \ {t}
  BY DEF InFlight, TypeOK
<1>2. IsFiniteSet(InFlight(k)) /\ Cardinality(InFlight(k)) \in Nat
  BY InFlightIsFinite
<1>3. /\ IsFiniteSet(InFlight(k) \ {t})
      /\ Cardinality(InFlight(k) \ {t}) =
           IF t \in InFlight(k) THEN Cardinality(InFlight(k)) - 1
                                ELSE Cardinality(InFlight(k))
  BY <1>2, FS_RemoveElement
<1>4. Cardinality(InFlight(k) \ {t}) \in Nat
  BY <1>3, FS_CardinalityType
<1>5. QED
  BY <1>1, <1>2, <1>3, <1>4

\* However many logins pass the check together, they add no more than
\* themselves to what was below the limit.
THEOREM FailuresAreBounded == Spec => []FailuresBounded
<1> DEFINE Inv == TypeOK /\ FailuresBounded
           Within(k) == \A e \in table[k] :
             e.count + Cardinality(InFlight(k)) <= MaxFailures - 1 + Cardinality(Task)
<1>1. Init => Inv
  BY DEF Init, TypeOK, AtMostOne, FailuresBounded
<1>2. Inv /\ [Next]_vars => Inv'
  <2> SUFFICES ASSUME Inv, [Next]_vars, MaxFailures > 0, NEW k \in Key
               PROVE  Within(k)'
    BY TypeStep DEF FailuresBounded
  <2>1. TypeOK' /\ Within(k) /\ table \in Tables /\ MaxFailures \in Nat \ {0}
    BY TypeStep, ThrottleAssumption DEF FailuresBounded, TypeOK, Tables
  <2>2. \A e \in table[k] : e.count \in Nat
    BY DEF TypeOK, Entries
  <2>3. ASSUME table'[k] \subseteq table[k],
               Cardinality(InFlight(k)') <= Cardinality(InFlight(k)),
               Cardinality(InFlight(k)') \in Nat, Cardinality(InFlight(k)) \in Nat,
               Cardinality(Task) \in Nat
        PROVE  Within(k)'
    BY <2>1, <2>2, <2>3
  <2>4. ASSUME NEW t \in Task, NEW l \in Logins, Login(t, l) PROVE Within(k)'
    <3>1. table'[k] \subseteq table[k]
      BY <2>1, <2>4, WithoutIsTable DEF Login
    <3>2. /\ Cardinality(InFlight(k)) \in Nat /\ Cardinality(Task) \in Nat
          /\ Cardinality(InFlight(k)') \in Nat
          /\ Cardinality(InFlight(k)') <= Cardinality(Task)
      <4>1. InFlight(k)' \subseteq Task
        BY DEF InFlight
      <4>2. QED
        BY <4>1, InFlightIsFinite, ThrottleAssumption, FS_Subset, FS_CardinalityType
    <3>3. CASE refused' \/ k \notin KeysOf(l)
      <4>1. InFlight(k)' = InFlight(k)
        BY <2>4, <3>3 DEF Login, InFlight, TypeOK
      <4>2. QED
        BY <2>3, <3>1, <3>2, <4>1
    <3>4. CASE ~refused' /\ k \in KeysOf(l)
      <4>1. k \in LookedAt(l) /\ ~Locks(table, k)
        BY <2>4, <3>4, KeysOfLogin DEF Login, LookedAt
      <4>2. \A e \in table'[k] : e \in table[k] /\ e.age < Lockout
        <5>1. ASSUME NEW e \in table[k], ~(e.age < Lockout) PROVE table'[k] = {}
          <6>1. e.age >= Lockout
            BY <5>1, ThrottleAssumption DEF TypeOK, Entries
          <6>2. Expired(table, k)
            BY <5>1, <6>1 DEF Expired
          <6>3. QED
            BY <2>1, <2>4, <4>1, <6>2, WithoutIsTable DEF Login
        <5>2. QED
          BY <3>1, <5>1
      <4>3. \A e \in table'[k] : e.count \in Nat /\ e.count < MaxFailures
        BY <2>1, <2>2, <4>1, <4>2 DEF Locks
      <4>4. QED
        BY <2>1, <3>2, <4>3
    <3>5. QED
      BY <3>3, <3>4
  <2>5. ASSUME NEW t \in Task, Failure(t) PROVE Within(k)'
    <3>1. PICK l \in sent[t] : table' \in Pruned(Failed(l))
      BY <2>5 DEF Failure, Failed
    <3>2. l \in Logins /\ Failed(l) \in Tables /\ sent' = [sent EXCEPT ![t] = {}]
      BY <2>5, <3>1, FailedIsTable DEF TypeOK, Failure
    <3>3. table'[k] \subseteq Failed(l)[k]
      BY <3>1, <3>2, PrunedIsWithout, WithoutIsTable
    <3>4. /\ Cardinality(InFlight(k)) \in Nat /\ Cardinality(Task) \in Nat
          /\ Cardinality(InFlight(k)') \in Nat
          /\ Cardinality(InFlight(k)) <= Cardinality(Task)
          /\ Cardinality(InFlight(k)') <= Cardinality(InFlight(k))
          /\ t \in InFlight(k) =>
               Cardinality(InFlight(k)') = Cardinality(InFlight(k)) - 1
      BY <3>2, InFlightIsFinite, InFlightShrinks
    <3>5. CASE k \notin KeysOf(l)
      <4>1. table'[k] \subseteq table[k]
        BY <3>3, <3>5 DEF Failed
      <4>2. QED
        BY <2>3, <3>4, <4>1
    <3>6. CASE k \in KeysOf(l)
      <4>1. t \in InFlight(k)
        BY <3>1, <3>6 DEF InFlight
      <4>2. ASSUME NEW e \in table'[k]
            PROVE  e.count = Count(table, k) + 1
        BY <3>3, <3>6, <4>2 DEF Failed
      <4>3. \/ Count(table, k) = 0
            \/ Count(table, k) + Cardinality(InFlight(k)) <= MaxFailures - 1 + Cardinality(Task)
        BY <2>1, CountIsLive
      <4>4. Count(table, k) \in Nat
        BY <2>1, CountIsLive
      <4>5. QED
        BY <2>1, <3>4, <4>1, <4>2, <4>3, <4>4
    <3>7. QED
      BY <3>5, <3>6
  <2>6. ASSUME NEW t \in Task, Success(t) \/ Unusable(t) PROVE Within(k)'
    <3>1. sent' = [sent EXCEPT ![t] = {}]
      BY <2>6 DEF Success, Unusable
    <3>2. table' = table \/ \E l \in sent[t] : table' = Without(table, {l.name})
      BY <2>6 DEF Success, Unusable
    <3>3. table'[k] \subseteq table[k]
      <4>1. ASSUME NEW l, table' = Without(table, {l.name})
            PROVE  table'[k] \subseteq table[k]
        <5>1. table'[k] = IF k \in {l.name} THEN {} ELSE table[k]
          BY <2>1, <4>1, WithoutIsTable
        <5>2. QED
          BY <5>1
      <4>2. QED
        BY <3>2, <4>1
    <3>4. QED
      BY <2>3, <3>1, <3>3, InFlightIsFinite, InFlightShrinks
  <2>7. CASE Tick
    <3>1. InFlight(k)' = InFlight(k)
      BY <2>7 DEF Tick, InFlight
    <3>2. ASSUME NEW e \in table'[k] PROVE \E d \in table[k] : e.count = d.count
      <4>1. PICK d \in table[k] : e = [d EXCEPT !.age = IF @ < Lockout THEN @ + 1 ELSE @]
        BY <2>7, <3>2 DEF Tick
      <4>2. d \in Entries
        BY DEF TypeOK
      <4>3. QED
        BY <4>1, <4>2 DEF Entries
    <3>3. QED
      BY <2>1, <3>1, <3>2
  <2>8. CASE UNCHANGED vars
    BY <2>1, <2>8 DEF vars, InFlight
  <2>9. QED
    BY <2>4, <2>5, <2>6, <2>7, <2>8 DEF Next
<1>3. Inv => FailuresBounded
  OBVIOUS
<1>4. QED
  BY <1>1, <1>2, <1>3, PTL DEF Spec

-----------------------------------------------------------------------------
(* LoginThrottle implements FailureLock.                                   *)

\* The keys whose failures count.
Counting(T) == {k \in Key : Count(T, k) > 0}

\* A key is locked in the table when its run has reached the limit.
LEMMA LocksAtLimit ==
  ASSUME NEW T \in Tables, NEW k \in Key
  PROVE  Locks(T, k) <=> MaxFailures > 0 /\ Count(T, k) >= MaxFailures
<1>1. CASE T[k] = {}
  BY <1>1, CountIsLive, ThrottleAssumption DEF Locks
<1>2. ASSUME NEW e \in T[k]
      PROVE  Locks(T, k) <=> MaxFailures > 0 /\ Count(T, k) >= MaxFailures
  <2>1. /\ T[k] = {e} /\ e \in Entries
        /\ Count(T, k) = IF e.age < Lockout THEN e.count ELSE 0
    BY <1>2, CountIsLive
  <2>2. QED
    BY <2>1, ThrottleAssumption DEF Locks, Entries
<1>3. QED
  BY <1>1, <1>2

\* Pruning takes from the keys that count only when they are too many, and
\* then the oldest half of them.
LEMMA PrunedForgets ==
  ASSUME NEW T \in Tables, NEW U \in Pruned(T)
  PROVE  \E K \in SUBSET Counting(T) :
           /\ IF Cardinality(Counting(T)) > Cap
                THEN /\ Cardinality(K) = Cardinality(Counting(T)) \div 2
                     /\ \A k \in K : \A j \in Counting(T) \ K : Age(T, j) <= Age(T, k)
                ELSE K = {}
           /\ \A k \in Key : /\ Count(U, k) = IF k \in K THEN 0 ELSE Count(T, k)
                             /\ Age(U, k) = IF k \in K THEN 0 ELSE Age(T, k)
<1> DEFINE X == {k \in Key : Expired(T, k)}
           V == Without(T, X)
<1>1. /\ V \in Tables /\ Present(V) = Present(T) \ X
      /\ \A k \in Key : Count(V, k) = Count(T, k) /\ Age(V, k) = Age(T, k)
  BY WithoutIsTable, DroppingExpired
<1>2. Counting(T) = Present(V)
  BY <1>1, CountIsLive DEF Counting, Present
<1>3. /\ Counting(T) \subseteq Present(T) /\ IsFiniteSet(Present(T))
      /\ Cardinality(Present(T)) \in Nat /\ Cardinality(Counting(T)) \in Nat
      /\ Cardinality(Counting(T)) <= Cardinality(Present(T))
      /\ Cap \in Nat
  <2>1. Counting(T) \subseteq Present(T) /\ Present(T) \subseteq Key
    BY <1>1, <1>2 DEF Present
  <2>2. QED
    BY <2>1, KeysAreFinite, FS_Subset, ThrottleAssumption
<1>4. CASE U = T /\ Cardinality(Present(T)) <= Cap
  <2>1. ~(Cardinality(Counting(T)) > Cap) /\ {} \in SUBSET Counting(T)
    BY <1>3, <1>4
  <2>2. QED
    BY <1>4, <2>1
<1>5. CASE U = V /\ Cardinality(Present(V)) <= Cap
  <2>1. ~(Cardinality(Counting(T)) > Cap) /\ {} \in SUBSET Counting(T)
    BY <1>2, <1>3, <1>5
  <2>2. QED
    BY <1>1, <1>5, <2>1
<1>6. ASSUME ~(Cardinality(Present(V)) <= Cap),
             NEW K \in SUBSET Present(V), U = Without(V, K),
             Cardinality(K) = Cardinality(Present(V)) \div 2,
             \A k \in K : \A j \in Present(V) \ K :
               \A d \in V[k] : \A e \in V[j] : e.age <= d.age
      PROVE  /\ K \in SUBSET Counting(T)
             /\ Cardinality(Counting(T)) > Cap
             /\ Cardinality(K) = Cardinality(Counting(T)) \div 2
             /\ \A k \in K : \A j \in Counting(T) \ K : Age(T, j) <= Age(T, k)
             /\ \A k \in Key : /\ Count(U, k) = IF k \in K THEN 0 ELSE Count(T, k)
                               /\ Age(U, k) = IF k \in K THEN 0 ELSE Age(T, k)
  <2>1. /\ K \in SUBSET Counting(T) /\ Cardinality(Counting(T)) > Cap
        /\ Cardinality(K) = Cardinality(Counting(T)) \div 2
    BY <1>2, <1>3, <1>6
  <2>2. ASSUME NEW k \in K, NEW j \in Counting(T) \ K PROVE Age(T, j) <= Age(T, k)
    <3>1. k \in Key /\ j \in Key /\ Count(V, k) > 0 /\ Count(V, j) > 0
          /\ k \in Present(V) /\ j \in Present(V) \ K
      BY <1>1, <1>2, <2>1, <2>2 DEF Counting
    <3>2. PICK d \in V[k], e \in V[j] : TRUE
      BY <3>1 DEF Present
    <3>3. Age(V, k) = d.age /\ Age(V, j) = e.age
      BY <1>1, <3>1, <3>2, CountIsLive, ThrottleAssumption
    <3>4. e.age <= d.age
      BY <1>6, <3>1, <3>2
    <3>5. QED
      BY <1>1, <3>1, <3>3, <3>4
  <2>3. ASSUME NEW k \in Key
        PROVE  /\ Count(U, k) = IF k \in K THEN 0 ELSE Count(T, k)
               /\ Age(U, k) = IF k \in K THEN 0 ELSE Age(T, k)
    <3>1. U \in Tables /\ U[k] = IF k \in K THEN {} ELSE V[k]
      BY <1>1, <1>6, WithoutIsTable
    <3>2. CASE k \in K
      BY <3>1, <3>2, CountIsLive
    <3>3. CASE k \notin K
      <4>1. Count(U, k) = Count(V, k) /\ Age(U, k) = Age(V, k)
        BY <3>1, <3>3 DEF Count, Age
      <4>2. QED
        BY <1>1, <3>3, <4>1
    <3>4. QED
      BY <3>2, <3>3
  <2>4. QED
    BY <2>1, <2>2, <2>3
<1>7. QED
  <2>1. \/ U = T /\ Cardinality(Present(T)) <= Cap
        \/ U = V /\ Cardinality(Present(V)) <= Cap
        \/ /\ ~(Cardinality(Present(V)) <= Cap)
           /\ \E K \in SUBSET Present(V) :
                /\ U = Without(V, K)
                /\ Cardinality(K) = Cardinality(Present(V)) \div 2
                /\ \A k \in K : \A j \in Present(V) \ K :
                     \A d \in V[k] : \A e \in V[j] : e.age <= d.age
    BY DEF Pruned
  <2> HIDE DEF V
  <2>2. QED
    BY <1>4, <1>5, <1>6, <2>1

\* Counting is counting.
LEMMA SameCardinality == \A S : Lock!Cardinality(S) = Cardinality(S)
BY DEF Lock!Cardinality, Cardinality

\* A login asks the same question of the table and of the runs.
LEMMA AskStep ==
  ASSUME TypeOK, NEW t \in Task, NEW l \in Logins, Login(t, l)
  PROVE  Lock!Ask(t, l)
<1>1. table \in Tables
  BY DEF TypeOK, Tables
<1>2. \A k \in KeysOf(l) : k \in Key
  BY KeysOfLogin
<1>3. \A k \in Key : Count(table', k) = Count(table, k) /\ Age(table', k) = Age(table, k)
  BY <1>1, DroppingExpired DEF Login
<1>4. \A k \in KeysOf(l) : Lock!Locked(k) <=> Locks(table, k)
  BY <1>1, <1>2, LocksAtLimit DEF Lock!Locked
<1>5. Lock!KeysOf(l) = KeysOf(l)
  BY DEF Lock!KeysOf, Lock!Key, KeysOf, Key
<1>6. refused' = \E k \in Lock!KeysOf(l) : Lock!Locked(k)
  BY <1>4, <1>5 DEF Login
<1>7. /\ [k \in Key |-> Count(table', k)] = [k \in Key |-> Count(table, k)]
      /\ [k \in Key |-> Age(table', k)] = [k \in Key |-> Age(table, k)]
  BY <1>3
<1>8. QED
  BY <1>6, <1>7 DEF Lock!Ask, Login

\* A failure adds one to the runs of its keys; what pruning forgets, the
\* promise allows to be forgotten.
LEMMA FailStep ==
  ASSUME TypeOK, NEW t \in Task, Failure(t)
  PROVE  Lock!Fails(t)
<1>1. PICK l \in sent[t] : table' \in Pruned(Failed(l))
  BY DEF Failure, Failed
<1>2. l \in Logins /\ Failed(l) \in Tables /\ table \in Tables
  BY <1>1, FailedIsTable DEF TypeOK, Tables
<1> DEFINE run == [k \in Key |-> Count(table, k)]
           quiet == [k \in Key |-> Age(table, k)]
           more == [k \in Key |-> run[k] + IF k \in KeysOf(l) THEN 1 ELSE 0]
           fresh == [k \in Key |-> IF k \in KeysOf(l) THEN 0 ELSE quiet[k]]
<1>3. ASSUME NEW k \in Key
      PROVE  more[k] = Count(Failed(l), k) /\ fresh[k] = Age(Failed(l), k)
  <2>1. CASE k \in KeysOf(l)
    <3>1. Failed(l)[k] = {[count |-> Count(table, k) + 1, age |-> 0]}
      BY <2>1 DEF Failed
    <3>2. PICK x \in Failed(l)[k] : x.count = Count(table, k) + 1 /\ x.age = 0
      BY <3>1
    <3>3. /\ Count(Failed(l), k) = IF x.age < Lockout THEN x.count ELSE 0
          /\ Age(Failed(l), k) = IF x.age < Lockout THEN x.age ELSE 0
      BY <1>2, CountIsLive
    <3>4. QED
      BY <2>1, <3>2, <3>3, ThrottleAssumption
  <2>2. CASE k \notin KeysOf(l)
    <3>1. Failed(l)[k] = table[k]
      BY <2>2 DEF Failed
    <3>2. Count(Failed(l), k) = Count(table, k) /\ Age(Failed(l), k) = Age(table, k)
      BY <3>1 DEF Count, Age
    <3>3. Count(table, k) \in Nat
      BY <1>2, CountIsLive
    <3>4. QED
      BY <2>2, <3>2, <3>3
  <2>3. QED
    BY <2>1, <2>2
<1>4. PICK K \in SUBSET Counting(Failed(l)) :
        /\ IF Cardinality(Counting(Failed(l))) > Cap
             THEN /\ Cardinality(K) = Cardinality(Counting(Failed(l))) \div 2
                  /\ \A k \in K : \A j \in Counting(Failed(l)) \ K :
                       Age(Failed(l), j) <= Age(Failed(l), k)
             ELSE K = {}
        /\ \A k \in Key : /\ Count(table', k) = IF k \in K THEN 0 ELSE Count(Failed(l), k)
                          /\ Age(table', k) = IF k \in K THEN 0 ELSE Age(Failed(l), k)
  BY <1>1, <1>2, PrunedForgets
<1>5. Lock!Held(more) = Counting(Failed(l)) /\ Lock!Key = Key /\ Lock!KeysOf(l) = KeysOf(l)
  BY <1>3 DEF Lock!Held, Lock!Key, Lock!KeysOf, Counting, Key, KeysOf
<1>6. IF Cardinality(Lock!Held(more)) > Cap
        THEN /\ Cardinality(K) = Cardinality(Lock!Held(more)) \div 2
             /\ Lock!Oldest(K, more, fresh)
        ELSE K = {}
  <2>1. \A k \in K : k \in Key
    BY DEF Counting
  <2>2. \A j \in Counting(Failed(l)) \ K : j \in Key
    BY DEF Counting
  <2>3. QED
    BY <1>3, <1>4, <1>5, <2>1, <2>2 DEF Lock!Oldest
<1>7. /\ [k \in Key |-> Count(table', k)] = [k \in Key |-> IF k \in K THEN 0 ELSE more[k]]
      /\ [k \in Key |-> Age(table', k)] = [k \in Key |-> IF k \in K THEN 0 ELSE fresh[k]]
  BY <1>3, <1>4
<1>8. sent' = [sent EXCEPT ![t] = {}] /\ UNCHANGED refused /\ K \in SUBSET Lock!Held(more)
  BY <1>4, <1>5 DEF Failure
<1> DEFINE M == [k \in Lock!Key |-> run[k] + IF k \in Lock!KeysOf(l) THEN 1 ELSE 0]
           F == [k \in Lock!Key |-> IF k \in Lock!KeysOf(l) THEN 0 ELSE quiet[k]]
<1>9. M = more /\ F = fresh
  BY <1>5
<1>10. /\ K \in SUBSET Lock!Held(M)
       /\ IF Lock!Cardinality(Lock!Held(M)) > Cap
            THEN /\ Lock!Cardinality(K) = Lock!Cardinality(Lock!Held(M)) \div 2
                 /\ Lock!Oldest(K, M, F)
            ELSE K = {}
  BY <1>6, <1>8, <1>9, SameCardinality, Zenon
<1>11. /\ run' = [k \in Lock!Key |-> IF k \in K THEN 0 ELSE M[k]]
       /\ quiet' = [k \in Lock!Key |-> IF k \in K THEN 0 ELSE F[k]]
  BY <1>5, <1>7, <1>9, Zenon
<1>12. \E J \in SUBSET Lock!Held(M) :
         /\ IF Lock!Cardinality(Lock!Held(M)) > Cap
              THEN /\ Lock!Cardinality(J) = Lock!Cardinality(Lock!Held(M)) \div 2
                   /\ Lock!Oldest(J, M, F)
              ELSE J = {}
         /\ run' = [k \in Lock!Key |-> IF k \in J THEN 0 ELSE M[k]]
         /\ quiet' = [k \in Lock!Key |-> IF k \in J THEN 0 ELSE F[k]]
         /\ sent' = [sent EXCEPT ![t] = {}]
         /\ UNCHANGED refused
  BY <1>8, <1>10, <1>11, Zenon
<1>13. QED
  BY <1>1, <1>12, Zenon DEF Lock!Fails

LEMMA SucceedStep ==
  ASSUME TypeOK, NEW t \in Task, Success(t)
  PROVE  Lock!Succeeds(t)
<1>1. PICK l \in sent[t] : table' = Without(table, {l.name})
  BY DEF Success
<1>2. table \in Tables /\ Lock!Key = Key
  BY DEF TypeOK, Tables, Lock!Key, Key
<1>3. ASSUME NEW k \in Key
      PROVE  /\ Count(table', k) = IF k = l.name THEN 0 ELSE Count(table, k)
             /\ Age(table', k) = IF k = l.name THEN 0 ELSE Age(table, k)
  <2>1. table' \in Tables /\ table'[k] = IF k \in {l.name} THEN {} ELSE table[k]
    BY <1>1, <1>2, WithoutIsTable
  <2>2. CASE k = l.name
    BY <2>1, <2>2, CountIsLive
  <2>3. CASE k # l.name
    BY <2>1, <2>3 DEF Count, Age
  <2>4. QED
    BY <2>2, <2>3
<1>4. QED
  BY <1>1, <1>2, <1>3 DEF Lock!Succeeds, Success

LEMMA TimeStep ==
  ASSUME TypeOK, Tick
  PROVE  Lock!TimePasses
<1>1. table \in Tables /\ table' \in Tables /\ Lock!Key = Key
  <2>1. TypeOK'
    BY TypeStep DEF Next
  <2>2. QED
    BY <2>1 DEF TypeOK, Tables, Lock!Key, Key
<1> DEFINE over(k) == Count(table, k) > 0 /\ Age(table, k) + 1 >= Lockout
<1>2. ASSUME NEW k \in Key
      PROVE  /\ Count(table', k) = IF over(k) THEN 0 ELSE Count(table, k)
             /\ Age(table', k) = IF Count(table, k) = 0 \/ over(k) THEN 0
                                 ELSE Age(table, k) + 1
  <2>1. CASE table[k] = {}
    <3>1. table'[k] = {}
      BY <2>1 DEF Tick
    <3>2. QED
      BY <1>1, <2>1, <3>1, CountIsLive
  <2>2. ASSUME NEW e \in table[k]
        PROVE  /\ Count(table', k) = IF over(k) THEN 0 ELSE Count(table, k)
               /\ Age(table', k) = IF Count(table, k) = 0 \/ over(k) THEN 0
                                   ELSE Age(table, k) + 1
    <3> DEFINE d == [e EXCEPT !.age = IF @ < Lockout THEN @ + 1 ELSE @]
    <3>1. /\ e \in Entries
          /\ Count(table, k) = IF e.age < Lockout THEN e.count ELSE 0
          /\ Age(table, k) = IF e.age < Lockout THEN e.age ELSE 0
      BY <1>1, <2>2, CountIsLive
    <3>2. d \in table'[k]
      BY <2>2 DEF Tick
    <3>3. /\ Count(table', k) = IF d.age < Lockout THEN d.count ELSE 0
          /\ Age(table', k) = IF d.age < Lockout THEN d.age ELSE 0
      <4>1. PICK x \in table'[k] : x = d
        BY <3>2
      <4>2. /\ Count(table', k) = IF x.age < Lockout THEN x.count ELSE 0
            /\ Age(table', k) = IF x.age < Lockout THEN x.age ELSE 0
        BY <1>1, CountIsLive
      <4>3. QED
        BY <4>1, <4>2
    <3>4. d.count = e.count /\ d.age = IF e.age < Lockout THEN e.age + 1 ELSE e.age
      BY <3>1 DEF Entries
    <3>5. e.count \in Nat \ {0} /\ e.age \in 0..Lockout /\ Lockout \in Nat
      BY <3>1, ThrottleAssumption DEF Entries
    <3> HIDE DEF d
    <3>6. QED
      BY <3>1, <3>3, <3>4, <3>5
  <2>3. QED
    BY <2>1, <2>2
<1>3. QED
  BY <1>1, <1>2 DEF Lock!TimePasses, Tick

\* Lazy expiry, counting from one again and pruning together do exactly what
\* FailureLock promises.
THEOREM ThrottleImplementsLock == Spec => LockSpec
<1>1. Init => Lock!LockInit
  <2> SUFFICES ASSUME Init PROVE Lock!LockInit
    OBVIOUS
  <2>1. table \in Tables /\ \A k \in Key : table[k] = {}
    BY DEF Init, Tables, AtMostOne
  <2>2. \A k \in Key : Count(table, k) = 0 /\ Age(table, k) = 0
    BY <2>1, CountIsLive
  <2>3. QED
    BY <2>2 DEF Init, Lock!LockInit, Lock!Key, Key
<1>2. TypeOK /\ [Next]_vars => [Lock!LockNext]_(Lock!lockVars)
  <2> SUFFICES ASSUME TypeOK, [Next]_vars
               PROVE  [Lock!LockNext]_(Lock!lockVars)
    OBVIOUS
  <2>1. ASSUME NEW t \in Task, NEW l \in Logins, Login(t, l) PROVE Lock!LockNext
    BY <2>1, AskStep DEF Lock!LockNext, Lock!Logins, Logins
  <2>2. ASSUME NEW t \in Task, Failure(t) \/ Success(t) PROVE Lock!LockNext
    BY <2>2, FailStep, SucceedStep DEF Lock!LockNext
  <2>3. ASSUME NEW t \in Task, Unusable(t) PROVE Lock!LockNext
    BY <2>3 DEF Unusable, Lock!LockNext, Lock!ComesToNothing
  <2>4. CASE Tick
    BY <2>4, TimeStep DEF Lock!LockNext
  <2>5. CASE UNCHANGED vars
    BY <2>5 DEF vars, Lock!lockVars
  <2>6. QED
    BY <2>1, <2>2, <2>3, <2>4, <2>5 DEF Next
<1>3. QED
  BY <1>1, <1>2, ThrottleTypeCorrect, PTL DEF Spec, LockSpec, Lock!LockSpec
=============================================================================
