--------------------------- MODULE LogTailProofs ---------------------------
(***************************************************************************)
(* Proofs about LogTail, for any number of lines, polls and containers:    *)
(* the log of a container that writes to one stream is shown whole.  A     *)
(* line is the moment it was written, so that what a request has got is a  *)
(* set of numbers and the buffer is that set in order.                     *)
(***************************************************************************)
EXTENDS LogTail, FiniteSetTheorems, TLAPS

-----------------------------------------------------------------------------
(* Finite sets of numbers: their order, their ends, the newest of them.    *)

\* The number below an element tells the elements apart, in their order.
LEMMA BelowCounts ==
  ASSUME NEW T \in SUBSET Nat, IsFiniteSet(T), NEW t \in T
  PROVE  /\ Cardinality({u \in T : u < t}) \in 0..Cardinality(T) - 1
         /\ \A v \in T : t < v => Cardinality({u \in T : u < t}) < Cardinality({u \in T : u < v})
  <1> DEFINE Below(x) == {u \in T : u < x}
  <1>1. \A x \in T : IsFiniteSet(Below(x)) /\ Cardinality(Below(x)) \in Nat
    BY FS_Subset, FS_CardinalityType
  <1>2. Cardinality(T) \in Nat
    BY FS_CardinalityType
  <1>3. Cardinality(Below(t)) < Cardinality(T)
    <2>1. Below(t) \in SUBSET T /\ t \notin Below(t)
      OBVIOUS
    <2> QED BY <2>1, <1>1, <1>2, FS_Subset
  <1>4. ASSUME NEW v \in T, t < v PROVE Cardinality(Below(t)) < Cardinality(Below(v))
    <2>1. ~(t < t) /\ \A u \in T : u < t => u < v
      BY <1>4
    <2>2. Below(t) \in SUBSET Below(v) /\ t \notin Below(t) /\ t \in Below(v)
      BY <1>4, <2>1
    <2> QED BY <2>2, <1>1, FS_Subset
  <1> QED BY <1>1, <1>2, <1>3, <1>4

\* So does the number above it.
LEMMA AboveCounts ==
  ASSUME NEW T \in SUBSET Nat, IsFiniteSet(T), NEW t \in T
  PROVE  /\ Cardinality({u \in T : u > t}) \in 0..Cardinality(T) - 1
         /\ \A v \in T : t > v => Cardinality({u \in T : u > t}) < Cardinality({u \in T : u > v})
  <1> DEFINE Above(x) == {u \in T : u > x}
  <1>1. \A x \in T : IsFiniteSet(Above(x)) /\ Cardinality(Above(x)) \in Nat
    BY FS_Subset, FS_CardinalityType
  <1>2. Cardinality(T) \in Nat
    BY FS_CardinalityType
  <1>3. Cardinality(Above(t)) < Cardinality(T)
    <2>1. Above(t) \in SUBSET T /\ t \notin Above(t)
      OBVIOUS
    <2> QED BY <2>1, <1>1, <1>2, FS_Subset
  <1>4. ASSUME NEW v \in T, t > v PROVE Cardinality(Above(t)) < Cardinality(Above(v))
    <2>1. ~(t > t) /\ \A u \in T : u > t => u > v
      BY <1>4
    <2>2. Above(t) \in SUBSET Above(v) /\ t \notin Above(t) /\ t \in Above(v)
      BY <1>4, <2>1
    <2> QED BY <2>2, <1>1, FS_Subset
  <1> QED BY <1>1, <1>2, <1>3, <1>4

\* Every place of the order is taken.
LEMMA EveryPlace ==
  ASSUME NEW T \in SUBSET Nat, IsFiniteSet(T), NEW i \in 0..Cardinality(T) - 1
  PROVE  \E t \in T : Cardinality({u \in T : u < t}) = i
  <1> DEFINE n == Cardinality(T)
             place == [t \in T |-> Cardinality({u \in T : u < t})]
  <1>1. n \in Nat /\ IsFiniteSet(0..n - 1) /\ Cardinality(0..n - 1) = n
    BY FS_CardinalityType, FS_Interval
  <1>2. place \in [T -> 0..n - 1]
    BY BelowCounts
  <1>3. \A a, b \in T : place[a] = place[b] => a = b
    <2> SUFFICES ASSUME NEW a \in T, NEW b \in T, a < b PROVE place[a] # place[b]
      OBVIOUS
    <2>1. place[a] < place[b]
      BY BelowCounts
    <2> QED BY <2>1, <1>2
  <1>4. place \in Injection(T, 0..n - 1)
    BY <1>2, <1>3 DEF Injection, IsInjective
  <1>5. place \in Surjection(T, 0..n - 1)
    <2> HIDE DEF place
    <2> QED BY <1>4, <1>1, FS_Injection
  <1> QED BY <1>5 DEF Surjection

\* Max and Min are what they are called.
LEMMA Greatest ==
  ASSUME NEW T \in SUBSET Nat, IsFiniteSet(T), T # {}
  PROVE  Max(T) \in T /\ \A t \in T : t <= Max(T)
  <1>1. Cardinality(T) \in Nat \ {0}
    BY FS_CardinalityType, FS_EmptySet
  <1>2. PICK m \in T : Cardinality({u \in T : u < m}) = Cardinality(T) - 1
    BY <1>1, EveryPlace
  <1>3. \A t \in T : t <= m
    <2> SUFFICES ASSUME NEW t \in T, m < t PROVE FALSE
      OBVIOUS
    <2>1. Cardinality({u \in T : u < t}) \in 0..Cardinality(T) - 1
      BY BelowCounts
    <2>2. Cardinality({u \in T : u < m}) < Cardinality({u \in T : u < t})
      BY BelowCounts
    <2> QED BY <1>1, <1>2, <2>1, <2>2
  <1> QED BY <1>2, <1>3 DEF Max

LEMMA Least ==
  ASSUME NEW T \in SUBSET Nat, IsFiniteSet(T), T # {}
  PROVE  Min(T) \in T /\ \A t \in T : Min(T) <= t
  <1>1. Cardinality(T) \in Nat \ {0}
    BY FS_CardinalityType, FS_EmptySet
  <1>2. PICK m \in T : Cardinality({u \in T : u < m}) = 0
    BY <1>1, EveryPlace
  <1>3. \A t \in T : m <= t
    <2> SUFFICES ASSUME NEW t \in T, t < m PROVE FALSE
      OBVIOUS
    <2>1. IsFiniteSet({u \in T : u < m})
      BY FS_Subset
    <2> QED BY <1>2, <2>1, FS_EmptySet
  <1> QED BY <1>2, <1>3 DEF Min

\* Sorted gives the elements once each, in their order.
LEMMA SortedIsInOrder ==
  ASSUME NEW S \in SUBSET Nat, NEW T \in SUBSET S, IsFiniteSet(T)
  PROVE  /\ Sorted(T) \in Seq(S) /\ Len(Sorted(T)) = Cardinality(T)
         /\ ToSet(Sorted(T)) = T
         /\ \A i, j \in DOMAIN Sorted(T) : i < j => Sorted(T)[i] < Sorted(T)[j]
  <1> DEFINE n == Cardinality(T)
             Place(t) == Cardinality({u \in T : u < t})
  <1>1. n \in Nat
    BY FS_CardinalityType
  <1>2. \A i \in 1..n : Sorted(T)[i] \in T /\ Place(Sorted(T)[i]) = i - 1
    <2> SUFFICES ASSUME NEW i \in 1..n
                 PROVE  Sorted(T)[i] \in T /\ Place(Sorted(T)[i]) = i - 1
      OBVIOUS
    <2>1. \E t \in T : Place(t) = i - 1
      BY <1>1, EveryPlace
    <2>2. Sorted(T)[i] = CHOOSE t \in T : Place(t) = i - 1
      BY DEF Sorted
    <2> QED BY <2>1, <2>2
  <1>3. Sorted(T) \in Seq(S) /\ Len(Sorted(T)) = n /\ DOMAIN Sorted(T) = 1..n
    <2>1. DOMAIN Sorted(T) = 1..n /\ Sorted(T) = [i \in 1..n |-> Sorted(T)[i]]
      <3>1. Sorted(T) = [i \in 1..n |-> CHOOSE t \in T : Place(t) = i - 1]
        BY DEF Sorted
      <3> DEFINE at(i) == CHOOSE t \in T : Place(t) = i - 1
      <3> HIDE DEF at, n, Place
      <3>2. Sorted(T) = [i \in 1..n |-> at(i)]
        BY <3>1 DEF at
      <3> QED BY <3>2
    <2>2. Sorted(T) \in [1..n -> S]
      BY <1>2, <2>1
    <2> QED BY <1>1, <2>1, <2>2
  <1>4. ASSUME NEW t \in T PROVE \E i \in 1..n : Sorted(T)[i] = t
    <2>1. Place(t) \in 0..n - 1
      BY BelowCounts
    <2>2. Place(t) + 1 \in 1..n
      BY <1>1, <2>1
    <2>3. Place(Sorted(T)[Place(t) + 1]) = Place(t) /\ Sorted(T)[Place(t) + 1] \in T
      BY <1>2, <2>1, <2>2
    <2>4. Sorted(T)[Place(t) + 1] = t
      <3> DEFINE v == Sorted(T)[Place(t) + 1]
      <3>1. v \in T /\ Place(v) = Place(t) /\ Place(v) \in Nat
        BY <2>3, <2>1
      <3>2. ~(v < t) /\ ~(t < v)
        <4> HIDE DEF v
        <4> QED BY <3>1, BelowCounts
      <3> HIDE DEF v
      <3>3. v = t
        BY <3>1, <3>2
      <3> QED BY <3>3 DEF v
    <2> QED BY <2>2, <2>4
  <1>5. ToSet(Sorted(T)) = T
    BY <1>2, <1>3, <1>4 DEF ToSet
  <1>6. ASSUME NEW i \in 1..n, NEW j \in 1..n, i < j PROVE Sorted(T)[i] < Sorted(T)[j]
    <2>1. Place(Sorted(T)[i]) < Place(Sorted(T)[j]) /\ Sorted(T)[i] \in T /\ Sorted(T)[j] \in T
      BY <1>2, <1>6
    <2>2. \A t, v \in T : t < v => Place(t) < Place(v)
      BY BelowCounts
    <2>3. \A t \in T : t \in Nat /\ Place(t) \in Nat
      BY BelowCounts
    <2> DEFINE a == Sorted(T)[i]
               b == Sorted(T)[j]
    <2>4. a \in T /\ b \in T /\ Place(a) < Place(b)
      BY <2>1
    <2> HIDE DEF Place, a, b
    <2>5. a < b
      BY <2>2, <2>3, <2>4
    <2> QED BY <2>5 DEF a, b
  <1> QED BY <1>3, <1>5, <1>6

\* The newest n are an upper end, and all there is when it is shorter.
LEMMA NewestIsUpperEnd ==
  ASSUME NEW T \in SUBSET Nat, IsFiniteSet(T), NEW n \in Nat
  PROVE  /\ NewestOf(T, n) \subseteq T
         /\ \A t \in NewestOf(T, n), v \in T : t <= v => v \in NewestOf(T, n)
         /\ IsFiniteSet(NewestOf(T, n)) /\ Cardinality(NewestOf(T, n)) <= n
         /\ Cardinality(NewestOf(T, n)) < n => NewestOf(T, n) = T
         /\ Cardinality(T) <= n => NewestOf(T, n) = T
  <1> DEFINE Above(t) == Cardinality({u \in T : u > t})
             New == NewestOf(T, n)
  <1>1. /\ New \subseteq T /\ IsFiniteSet(New) /\ Cardinality(New) \in Nat
        /\ \A t \in T : t \in New <=> Above(t) < n
    BY FS_Subset, FS_CardinalityType DEF NewestOf
  <1>2. \A t \in T : Above(t) \in 0..Cardinality(T) - 1
    BY AboveCounts
  <1>3. \A t, v \in T : v > t => Above(v) < Above(t)
    BY AboveCounts
  <1>4. Cardinality(T) \in Nat
    BY FS_CardinalityType
  <1> HIDE DEF Above, New
  <1>5. \A t \in New, v \in T : t <= v => v \in New
    <2> SUFFICES ASSUME NEW t \in New, NEW v \in T, t < v PROVE v \in New
      BY <1>1
    <2>1. Above(v) < Above(t) /\ Above(t) < n /\ Above(v) \in Nat /\ Above(t) \in Nat
      BY <1>1, <1>2, <1>3
    <2> QED BY <2>1, <1>1
  <1>6. Cardinality(New) <= n
    <2> DEFINE place == [t \in New |-> Above(t)]
    <2>1. place \in [New -> 0..n - 1]
      BY <1>1, <1>2
    <2>2. \A a, b \in New : place[a] = place[b] => a = b
      <3> SUFFICES ASSUME NEW a \in New, NEW b \in New, a < b PROVE place[a] # place[b]
        BY <1>1
      <3>1. Above(b) < Above(a) /\ Above(a) \in Nat /\ Above(b) \in Nat
        BY <1>1, <1>2, <1>3
      <3> QED BY <3>1
    <2>3. place \in Injection(New, 0..n - 1)
      BY <2>1, <2>2 DEF Injection, IsInjective
    <2>4. IsFiniteSet(0..n - 1) /\ Cardinality(0..n - 1) = n
      BY FS_Interval
    <2> HIDE DEF place
    <2> QED BY <2>3, <2>4, FS_Injection
  <1>7. ASSUME Cardinality(New) < n PROVE New = T
    <2> SUFFICES ASSUME T \ New # {} PROVE FALSE
      BY <1>1
    <2>1. IsFiniteSet(T \ New) /\ T \ New \in SUBSET Nat
      BY FS_Subset
    <2>2. PICK t \in T \ New : \A v \in T \ New : v <= t
      BY <2>1, Greatest
    <2>3. \A u \in T : u > t => u \in New
      BY <2>2
    <2>4. {u \in T : u > t} \in SUBSET New
      BY <2>3
    <2>5. Above(t) <= Cardinality(New)
      BY <2>4, <1>1, FS_Subset DEF Above
    <2> QED BY <1>7, <2>5, <1>1, <1>2
  <1>8. ASSUME Cardinality(T) <= n PROVE New = T
    <2>1. \A t \in T : Above(t) < n
      BY <1>2, <1>8, <1>4
    <2> QED BY <1>1, <2>1
  <1> QED BY <1>1, <1>5, <1>6, <1>7, <1>8 DEF New

-----------------------------------------------------------------------------
(* What a request asks for, and what the buffer makes of it.               *)

\* What is asked for and got is finite, and has its ends among the times.
LEMMA TimesAreFinite ==
  ASSUME TailAssumption, NEW T \in SUBSET Times
  PROVE  /\ IsFiniteSet(T) /\ Cardinality(T) \in 0..MaxTime
         /\ T \in SUBSET Nat /\ CursorOf(T) \in 0..MaxTime + 1
         /\ T # {} => Max(T) \in Times /\ Min(T) \in Times /\ Cardinality(T) # 0
  <1>1. IsFiniteSet(Times) /\ Cardinality(Times) = MaxTime /\ Times \subseteq Nat
    BY FS_Interval DEF Times, TailAssumption
  <1>2. IsFiniteSet(T) /\ Cardinality(T) <= MaxTime /\ Cardinality(T) \in Nat /\ T \in SUBSET Nat
    BY <1>1, FS_Subset, FS_CardinalityType
  <1>3. T # {} => Max(T) \in Times /\ Min(T) \in Times /\ Cardinality(T) # 0
    BY <1>2, Greatest, Least, FS_EmptySet
  <1> QED BY <1>2, <1>3 DEF CursorOf, Times, TailAssumption

\* A request is told from no request.
LEMMA RequestIsNot ==
  /\ \A q : q \in Request => q # Nothing
  /\ Nothing.left = <<>>
  <1>1. ASSUME NEW q \in Request PROVE q # Nothing
    <2>1. DOMAIN q = {"left", "since", "until", "tail", "got"}
      BY DEF Request
    <2>2. DOMAIN Nothing = {"left"}
      BY DEF Nothing
    <2> QED BY <2>1, <2>2
  <1> QED BY <1>1 DEF Nothing

\* The gateway reads one stream of a request: the newest of what it asks for.
LEMMA ReadIs ==
  ASSUME TailAssumption, TypeOK, NEW q \in Request, q.left # <<>>
  PROVE  LET asked == {t \in On(Head(q.left)) : q.since <= t /\ t <= q.until}
         IN  /\ Read(q) \in Request
             /\ Read(q).left = Tail(q.left) /\ Head(q.left) \in Stream
             /\ Read(q).since = q.since /\ Read(q).until = q.until /\ Read(q).tail = q.tail
             /\ Read(q).got = q.got \cup NewestOf(asked, q.tail)
             /\ asked \in SUBSET Times /\ q.tail \in Nat \ {0}
             /\ \/ q.left = <<"stdout", "stderr">> /\ Tail(q.left) = <<"stderr">>
                \/ q.left = <<"stderr">> /\ Tail(q.left) = <<>>
  <1> DEFINE asked == {t \in On(Head(q.left)) : q.since <= t /\ t <= q.until}
  <1>1. asked \in SUBSET Times
    BY DEF On, Times, TypeOK, TailAssumption, Now
  <1>2. NewestOf(asked, q.tail) \in SUBSET Times
    BY <1>1 DEF NewestOf
  <1>3. \/ q.left = <<"stdout", "stderr">> /\ Tail(q.left) = <<"stderr">> /\ Head(q.left) = "stdout"
        \/ q.left = <<"stderr">> /\ Tail(q.left) = <<>> /\ Head(q.left) = "stderr"
    <2>1. q.left \in {<<"stdout", "stderr">>, <<"stderr">>, <<>>}
      BY DEF Request
    <2>2. Tail(<<"stdout", "stderr">>) = <<"stderr">> /\ Head(<<"stdout", "stderr">>) = "stdout"
      OBVIOUS
    <2>3. Tail(<<"stderr">>) = <<>> /\ Head(<<"stderr">>) = "stderr"
      OBVIOUS
    <2> QED BY <2>1, <2>2, <2>3
  <1>4. q.tail \in Nat \ {0}
    BY DEF Request, TailAssumption
  <1>5. Read(q) = [q EXCEPT !.left = Tail(@), !.got = @ \cup NewestOf(asked, q.tail)]
    BY DEF Read
  <1> HIDE DEF asked
  <1>6. /\ Read(q).left = Tail(q.left)
        /\ Read(q).since = q.since /\ Read(q).until = q.until /\ Read(q).tail = q.tail
        /\ Read(q).got = q.got \cup NewestOf(asked, q.tail)
        /\ Read(q) \in Request
    BY <1>2, <1>3, <1>5 DEF Request
  <1> QED BY <1>1, <1>3, <1>4, <1>6 DEF asked, Stream

\* What is sent is a request.
LEMMA AsksAreRequests ==
  ASSUME TailAssumption, NEW since \in Times \cup {0, MaxTime + 1}, NEW until \in Times,
         NEW tail \in {LogsTail, MaxTime}
  PROVE  Ask(since, until, tail) \in Request
  BY DEF Ask, Request

\* No poll is on its way.
LEMMA IdleIs ==
  /\ Idle \in [Polls -> Request \cup {Nothing}]
  /\ \A k \in Polls : Idle[k] = Nothing
  BY DEF Idle

\* New lines go to the end of the buffer; while it has room none is cut off.
LEMMA MergedIs ==
  ASSUME TailAssumption, TypeOK, NEW new \in SUBSET Times
  PROVE  LET more == Sorted(new \ ToSet(lines))
         IN  /\ Merged(new) \in Seq(Times) /\ Len(Merged(new)) <= Cap
             /\ Len(Merged(new)) < Cap =>
                  Merged(new) = lines \o more /\ Len(lines) < Cap
  <1> DEFINE more == Sorted(new \ ToSet(lines))
             both == lines \o more
  <1>1. more \in Seq(Times)
    BY TimesAreFinite, SortedIsInOrder
  <1>2. both \in Seq(Times) /\ Len(both) = Len(lines) + Len(more) /\ Len(both) \in Nat
        /\ Len(lines) \in Nat /\ Len(more) \in Nat
    BY <1>1 DEF TypeOK
  <1>3. Cap \in Nat \ {0}
    BY DEF TailAssumption
  <1>4. CASE Len(both) > Cap
    <2>1. Merged(new) = SubSeq(both, Len(both) - Cap + 1, Len(both))
      BY <1>4 DEF Merged
    <2> HIDE DEF both
    <2>2. Merged(new) \in Seq(Times) /\ Len(Merged(new)) = Cap
      BY <2>1, <1>2, <1>3, <1>4
    <2> QED BY <2>2, <1>3
  <1>5. CASE ~(Len(both) > Cap)
    <2>1. Merged(new) = both
      BY <1>5 DEF Merged
    <2>2. Len(both) = Len(lines) + Len(more) /\ both = lines \o more
      BY <1>2
    <2>3. Len(both) <= Cap /\ (Len(both) < Cap => Len(lines) < Cap)
      <3> HIDE DEF both, more
      <3> QED BY <2>2, <1>2, <1>3, <1>5
    <2> QED BY <2>1, <2>2, <2>3, <1>2
  <1> QED BY <1>4, <1>5

\* Where the first answer's lines begin is a moment.
LEMMA FirstCovered ==
  ASSUME TailAssumption, TypeOK, load \in Request
  PROVE  LET full == {s \in Stream : Cardinality(load.got \cap On(s)) = load.tail}
             firsts == {1} \cup {Min(load.got \cap On(s)) : s \in full}
         IN  firsts \in SUBSET Times /\ Max(firsts) \in Times
  <1> DEFINE full == {s \in Stream : Cardinality(load.got \cap On(s)) = load.tail}
             firsts == {1} \cup {Min(load.got \cap On(s)) : s \in full}
  <1>1. ASSUME NEW s \in full PROVE Min(load.got \cap On(s)) \in Times
    <2>1. load.got \cap On(s) \in SUBSET Times /\ load.tail # 0
      BY DEF Request, TailAssumption
    <2>2. load.got \cap On(s) # {}
      BY <2>1, FS_EmptySet
    <2> QED BY <2>1, <2>2, TimesAreFinite
  <1>2. firsts \in SUBSET Times /\ firsts # {}
    <2>1. 1 \in Times
      BY DEF Times, TailAssumption
    <2> HIDE DEF full
    <2> QED BY <2>1, <1>1
  <1>3. Max(firsts) \in Times
    <2> HIDE DEF firsts
    <2> QED BY <1>2, TimesAreFinite
  <1> QED BY <1>2, <1>3

-----------------------------------------------------------------------------
(* Types.                                                                  *)

\* A line is written at the next moment, over none of the earlier ones.
LEMMA WriteTypes ==
  ASSUME TailAssumption, TypeOK, NEW c \in Container, NEW s \in Stream, Write(c, s)
  PROVE  /\ TypeOK'
         /\ Now' = Now + 1 /\ Now \in Nat /\ log'[Now + 1] = [by |-> c, to |-> s]
         /\ \A t \in 1..Now : log'[t] = log[t]
  <1>1. log' = Append(log, [by |-> c, to |-> s]) /\ Now < MaxTime /\ s \in Writes[c]
    BY DEF Write
  <1>2. log \in Seq([by : Container, to : Stream]) /\ Now \in Nat
    BY DEF TypeOK, Now
  <1>3. log' \in Seq([by : Container, to : Stream]) /\ Now' = Now + 1
        /\ log'[Now + 1] = [by |-> c, to |-> s] /\ \A t \in 1..Now : log'[t] = log[t]
    BY <1>1, <1>2 DEF Now
  <1>4. \A t \in 1..Now' : log'[t].to \in Writes[log'[t].by]
    <2> SUFFICES ASSUME NEW t \in 1..Now' PROVE log'[t].to \in Writes[log'[t].by]
      OBVIOUS
    <2>1. CASE t = Now + 1
      <3>1. log'[t] = [by |-> c, to |-> s]
        BY <2>1, <1>3
      <3>2. log'[t].to = s /\ log'[t].by = c
        BY <3>1
      <3> QED BY <3>2, <1>1
    <2>2. CASE t # Now + 1
      <3>1. t \in 1..Now /\ log'[t] = log[t]
        BY <2>2, <1>2, <1>3
      <3> QED BY <3>1 DEF TypeOK
    <2> QED BY <2>1, <2>2
  <1>5. Now' <= MaxTime
    BY <1>1, <1>2, <1>3 DEF TailAssumption
  <1> QED BY <1>2, <1>3, <1>4, <1>5 DEF Write, TypeOK, Times, Container, Request, Nothing

\* The types hold at first
LEMMA InitTypes == TailAssumption /\ Init => TypeOK
  <1> SUFFICES ASSUME TailAssumption, Init PROVE TypeOK
    OBVIOUS
  <1>1. load \in Request
    <2>1. MaxTime \in Times
      BY DEF Times, TailAssumption
    <2> QED BY <2>1, AsksAreRequests DEF Init, History, Live
  <1> QED BY <1>1, IdleIs DEF Init, TypeOK, TailAssumption, Now, Live

\* The first load asks from the beginning.
LEMMA HistoryIsRequest ==
  ASSUME TailAssumption, NEW r \in Times \cup {Live}
  PROVE  /\ History(r) \in Request
         /\ History(r).since = 0 /\ History(r).got = {} /\ History(r).tail = LogsTail
  <1>1. MaxTime \in Times
    BY DEF Times, TailAssumption
  <1>2. (IF r = Live THEN MaxTime ELSE r) \in Times
    BY <1>1
  <1> QED BY <1>2, AsksAreRequests DEF History, Ask

\* and every step keeps them.
LEMMA TypesKept == TailAssumption /\ TypeOK /\ [Next]_vars => TypeOK'
  <1> SUFFICES ASSUME TailAssumption, TypeOK, [Next]_vars PROVE TypeOK'
    OBVIOUS
  <1>1. ASSUME NEW c \in Container, NEW s \in Stream, Write(c, s) PROVE TypeOK'
    BY <1>1, WriteTypes
  <1>2. ASSUME NEW c \in Container, NEW r \in Times \cup {Live}, Show(c, r) PROVE TypeOK'
    <2>1. load' \in Request
      BY <1>2, HistoryIsRequest DEF Show
    <2> QED BY <1>2, <2>1, IdleIs DEF Show, TypeOK, TailAssumption, Now
  <1>3. CASE ServeLoad
    <2>1. load \in Request
      BY <1>3 DEF ServeLoad, TypeOK, Nothing
    <2>2. load' \in Request
      BY <1>3, <2>1, ReadIs DEF ServeLoad
    <2> QED BY <1>3, <2>2 DEF ServeLoad, TypeOK, Now
  <1>4. CASE Loaded
    <2>1. load \in Request
      BY <1>4 DEF Loaded, TypeOK
    <2>2. load.got \in SUBSET Times /\ IsFiniteSet(load.got) /\ load.got \in SUBSET Nat
      BY <2>1, TimesAreFinite DEF Request
    <2>3. cursor' \in 0..MaxTime + 1
      BY <1>4, <2>2, TimesAreFinite DEF Loaded
    <2>4. from' \in 0..MaxTime
      <3> DEFINE full == {s \in Stream : Cardinality(load.got \cap On(s)) = load.tail}
                 firsts == {1} \cup {Min(load.got \cap On(s)) : s \in full}
      <3>1. from' = IF poll # Idle THEN 0 ELSE Max(firsts)
        BY <1>4 DEF Loaded
      <3>2. Max(firsts) \in Times
        BY <2>1, FirstCovered
      <3> HIDE DEF firsts
      <3> QED BY <3>1, <3>2 DEF Times, TailAssumption
    <2>5. lines' \in Seq(Times) /\ Len(lines') <= Cap
      <3>1. NewestOf(load.got, Cap) \in SUBSET Times /\ IsFiniteSet(NewestOf(load.got, Cap))
            /\ Cardinality(NewestOf(load.got, Cap)) <= Cap
        BY <2>2, NewestIsUpperEnd DEF TailAssumption
      <3>2. Times \in SUBSET Nat
        BY DEF Times
      <3> QED BY <1>4, <3>1, <3>2, SortedIsInOrder DEF Loaded
    <2> QED BY <1>4, <2>3, <2>4, <2>5 DEF Loaded, TypeOK, Now
  <1>5. CASE LoadFails
    BY <1>5 DEF LoadFails, TypeOK, Now
  <1>6. ASSUME NEW k \in Polls, ServePoll(k) PROVE TypeOK'
    <2>1. poll[k] \in Request
      BY <1>6 DEF ServePoll, TypeOK, Nothing
    <2>2. Read(poll[k]) \in Request
      BY <1>6, <2>1, ReadIs DEF ServePoll
    <2> QED BY <1>6, <2>2 DEF ServePoll, TypeOK, Now
  <1>7. ASSUME NEW k \in Polls, Tick(k) PROVE TypeOK'
    <2>1. PICK since \in {cursor, cursor - 1} \cap Nat : Poll(k, since)
      BY <1>7 DEF Tick
    <2>2. since \in Times \cup {0, MaxTime + 1} /\ MaxTime \in Times
      BY DEF TypeOK, Times, TailAssumption
    <2>3. Ask(since, MaxTime, MaxTime) \in Request
      BY <2>2, AsksAreRequests
    <2> QED BY <2>1, <2>3 DEF Poll, TypeOK, Now
  <1>8. ASSUME NEW k \in Polls, Polled(k) PROVE TypeOK'
    <2>1. poll[k] \in Request
      BY <1>8 DEF Polled, TypeOK
    <2>2. poll[k].got \in SUBSET Times
      BY <2>1 DEF Request
    <2>3. lines' \in Seq(Times) /\ Len(lines') <= Cap
      BY <1>8, <2>2, MergedIs DEF Polled
    <2>4. cursor' \in 0..MaxTime + 1
      BY <1>8, <2>2, TimesAreFinite DEF Polled, TypeOK
    <2> QED BY <1>8, <2>3, <2>4 DEF Polled, TypeOK, Now
  <1>9. ASSUME NEW k \in Polls, PollFails(k) PROVE TypeOK'
    BY <1>9 DEF PollFails, TypeOK, Now
  <1>10. CASE UNCHANGED vars
    BY <1>10 DEF vars, TypeOK, Now
  <1> QED BY <1>1, <1>2, <1>3, <1>4, <1>5, <1>6, <1>7, <1>8, <1>9, <1>10 DEF Next

-----------------------------------------------------------------------------
(* One stream: what is whole stays whole, step by step.                    *)

\* A container that writes to one stream has all its lines there.
LEMMA OneStreamIs ==
  ASSUME TailAssumption, TypeOK, OneStream
  PROVE  \E s \in Stream : /\ Writes[target] = {s} /\ On(s) = Written
                           /\ \A o \in Stream : o # s => On(o) = {}
  <1>1. target \in Container /\ Writes[target] \in SUBSET Stream /\ IsFiniteSet(Stream)
    <2>1. IsFiniteSet({"stdout"} \cup {"stderr"})
      BY FS_Singleton, FS_Union
    <2>2. Stream = {"stdout"} \cup {"stderr"}
      BY DEF Stream
    <2> QED BY <2>1, <2>2 DEF TypeOK, TailAssumption
  <1>2. PICK s : Writes[target] = {s}
    BY <1>1, FS_Subset, FS_Singleton DEF OneStream
  <1>3. \A t \in 1..Now : log[t].by = target => log[t].to = s
    BY <1>2 DEF TypeOK
  <1>4. On(s) = Written /\ \A o : o # s => On(o) = {}
    BY <1>3 DEF On, Written
  <1> QED BY <1>1, <1>2, <1>4

\* What is written has been written by now.
LEMMA WrittenAre ==
  ASSUME TailAssumption, TypeOK
  PROVE  Written \in SUBSET Times /\ Now \in 0..MaxTime /\ Written \in SUBSET (1..Now)
  BY DEF Written, Times, TypeOK, TailAssumption, Now

\* A line more is above everything held.
\* Another line breaks nothing that was unbroken.
LEMMA WriteLeaves ==
  ASSUME TailAssumption, TypeOK, NEW c \in Container, NEW s \in Stream, Write(c, s)
  PROVE  /\ \A T, a : Unbroken(T, a) => Unbroken(T, a)'
         /\ \A t \in Written' : t \in Written \/ t = Now + 1
  <1>1. /\ Now' = Now + 1 /\ Now \in Nat /\ target' = target
        /\ \A t \in 1..Now : log'[t] = log[t]
    BY WriteTypes DEF Write
  <1>2. \A t \in Written' : t \in Nat /\ (t \in Written \/ t = Now + 1)
    BY <1>1 DEF Written
  <1>3. Written \subseteq Written' /\ \A g \in Written : g \in 1..Now
    BY <1>1 DEF Written
  <1>4. ASSUME NEW T, NEW a, Unbroken(T, a) PROVE Unbroken(T, a)'
    <2>1. T \subseteq Written'
      BY <1>3, <1>4 DEF Unbroken
    <2>2. ASSUME NEW g \in T, NEW t \in Written', a <= t, t <= g PROVE t \in T
      <3>1. g \in 1..Now
        BY <1>3, <1>4 DEF Unbroken
      <3>2. t \in Written
        BY <3>1, <1>1, <1>2, <2>2
      <3> QED BY <3>2, <2>2, <1>4 DEF Unbroken
    <2> QED BY <2>1, <2>2 DEF Unbroken
  <1> QED BY <1>2, <1>4

\* Nor does a step that leaves the log and the target alone.
LEMMA StillUnbroken ==
  ASSUME UNCHANGED <<log, target>>
  PROVE  Written' = Written /\ Now' = Now /\ \A T, a : Unbroken(T, a) => Unbroken(T, a)'
  BY DEF Written, Now, Unbroken

\* Between two states the arguments may be named before they are primed.
\* The facts of a next state by the names of its parts.
LEMMA NamedUnbroken ==
  ASSUME NEW T, NEW a, T = ToSet(lines'), a = from', Unbroken(T, a)'
  PROVE  Unbroken(ToSet(lines), from)'
  BY DEF Unbroken

LEMMA NamedPoll ==
  ASSUME NEW k, NEW q, q = poll'[k], PollWhole(q)'
  PROVE  PollWhole(poll[k])'
  BY DEF PollWhole, Unbroken

\* A new line keeps the buffer whole: it is later than every cursor.
LEMMA WriteWhole ==
  ASSUME TailAssumption, TailInv, OneStream, NEW c \in Container, NEW s \in Stream, Write(c, s)
  PROVE  WholeInv'
  <1>1. TypeOK /\ WholeInv
    BY DEF TailInv
  <1>2. /\ \A T, a : Unbroken(T, a) => Unbroken(T, a)'
        /\ \A t \in Written' : t \in Written \/ t = Now + 1
        /\ Now' = Now + 1 /\ Now \in Nat
    BY <1>1, WriteLeaves, WriteTypes
  <1>3. UNCHANGED <<target, range, load, poll, lines, cursor, from>>
    BY DEF Write
  <1>4. load # Nothing => LoadWhole'
    BY <1>1, <1>2, <1>3 DEF WholeInv, LoadWhole
  <1>5. ASSUME NEW q \in Request, PollWhole(q) PROVE PollWhole(q)'
    <2>1. \A t \in Written' : from <= t /\ t < q.since => t \in ToSet(lines)
      <3> SUFFICES ASSUME NEW t \in Written', from <= t, t < q.since PROVE t \in ToSet(lines)
        OBVIOUS
      <3>1. q.since \in Nat /\ q.since <= Now + 1
        BY <1>5 DEF PollWhole, Request, Times, TailAssumption
      <3>2. t # Now + 1
        BY <3>1, <1>2
      <3> QED BY <3>2, <1>2, <1>5 DEF PollWhole
    <2>2. q.since <= Now' + 1
      BY <1>2, <1>5 DEF PollWhole, Request, Times, TailAssumption
    <2> QED BY <2>1, <2>2, <1>2, <1>3, <1>5 DEF PollWhole
  <1>6. from > 0 /\ Len(lines) < Cap => BufferWhole'
    <2> SUFFICES ASSUME from > 0, Len(lines) < Cap PROVE BufferWhole'
      OBVIOUS
    <2>1. BufferWhole
      BY <1>1 DEF WholeInv
    <2>2. \A k \in Polls : poll[k] # Nothing => poll[k] \in Request /\ PollWhole(poll[k])
      BY <2>1, <1>1 DEF BufferWhole, TypeOK
    <2>3. \A k \in Polls : (poll[k] # Nothing => PollWhole(poll[k]))'
      BY <2>2, <1>3, <1>5, NamedPoll
    <2>4. Unbroken(ToSet(lines), from)'
      <3>1. Unbroken(ToSet(lines), from)
        BY <2>1 DEF BufferWhole
      <3>2. PICK T, a : T = ToSet(lines) /\ a = from /\ Unbroken(T, a)
        BY <3>1
      <3> QED BY <3>2, <1>2, <1>3, NamedUnbroken
    <2> QED BY <2>1, <2>3, <2>4, <1>3 DEF BufferWhole, BufferChronological
  <1> QED BY <1>3, <1>4, <1>6 DEF WholeInv

\* The buffer and the polls are whole when what they depend on is left alone.
LEMMA BufferKept ==
  ASSUME UNCHANGED <<log, target, lines, cursor, from>>, BufferWhole,
         \A k \in Polls : (poll[k] # Nothing => PollWhole(poll[k]))'
  PROVE  BufferWhole'
  <1>1. PICK T, a : T = ToSet(lines) /\ a = from /\ Unbroken(T, a)
    BY DEF BufferWhole
  <1>2. Unbroken(ToSet(lines), from)'
    BY <1>1, StillUnbroken, NamedUnbroken
  <1> QED BY <1>2 DEF BufferWhole, BufferChronological

LEMMA PollKept ==
  ASSUME UNCHANGED <<log, target, from>>, ToSet(lines) \subseteq ToSet(lines'),
         NEW q, PollWhole(q)
  PROVE  PollWhole(q)'
  BY StillUnbroken DEF PollWhole

\* Another log or range starts with an empty buffer.
LEMMA ShowWhole ==
  ASSUME TailAssumption, NEW c \in Container, NEW r \in Times \cup {Live}, Show(c, r)
  PROVE  WholeInv'
  <1>1. load' \in Request /\ load'.since = 0 /\ load'.got = {} /\ load'.tail = LogsTail
    BY HistoryIsRequest DEF Show
  <1>2. Cardinality(load'.got) = 0 /\ LogsTail \in Nat
    BY <1>1, FS_EmptySet DEF TailAssumption
  <1>3. LoadWhole'
    BY <1>1, <1>2 DEF LoadWhole, Unbroken
  <1> QED BY <1>3 DEF WholeInv, Show

\* The load's answer reaches back from its end without a gap.
LEMMA ServeLoadWhole ==
  ASSUME TailAssumption, TailInv, OneStream, ServeLoad
  PROVE  WholeInv'
  <1>1. /\ TypeOK /\ WholeInv /\ load # Nothing /\ load \in Request /\ from = 0
    BY DEF TailInv, ServeLoad, TypeOK, Nothing, RequestsInv
  <1>2. LoadWhole /\ load' = Read(load) /\ load.left # <<>>
        /\ UNCHANGED <<log, target, from>>
    BY <1>1 DEF WholeInv, ServeLoad
  <1>3. PICK s \in Stream : /\ Writes[target] = {s} /\ On(s) = Written
                            /\ \A o \in Stream : o # s => On(o) = {}
    BY <1>1, OneStreamIs
  <1> DEFINE asked == {t \in On(Head(load.left)) : load.since <= t /\ t <= load.until}
             New == NewestOf(asked, load.tail)
  <1>4. /\ load'.left = Tail(load.left) /\ Head(load.left) \in Stream
        /\ load'.since = 0 /\ load'.tail = load.tail /\ load'.got = load.got \cup New
        /\ asked \in SUBSET Times /\ load.tail \in Nat \ {0}
        /\ \/ load.left = <<"stdout", "stderr">> /\ Tail(load.left) = <<"stderr">>
           \/ load.left = <<"stderr">> /\ Tail(load.left) = <<>>
    BY <1>1, <1>2, ReadIs DEF LoadWhole
  <1>5. IsFiniteSet(asked) /\ asked \in SUBSET Nat
    BY <1>4, TimesAreFinite
  <1> HIDE DEF asked
  <1>6. /\ New \subseteq asked /\ Cardinality(New) <= load.tail
        /\ \A t \in New, v \in asked : t <= v => v \in New
        /\ Cardinality(New) < load.tail => New = asked
    BY <1>4, <1>5, NewestIsUpperEnd
  <1> USE DEF asked
  <1> HIDE DEF New
  <1>7. LoadWhole'
    <2>1. CASE Head(load.left) = s
      <3>1. load.got = {} /\ load'.got = New
        <4>1. load.left[1] \in Writes[target] /\ 1 \in DOMAIN load.left
          BY <1>3, <1>4, <2>1
        <4> QED BY <4>1, <1>2, <1>4 DEF LoadWhole
      <3>2. /\ New \subseteq Written
            /\ \A t \in Written : t \in asked <=> t <= load.until
            /\ \A t \in Written : t \in Nat
            /\ load.until \in Nat
        BY <1>1, <1>2, <1>3, <1>6, <2>1, WrittenAre DEF LoadWhole, Times, Request
      <3>3. ASSUME NEW g \in New PROVE Unbroken(New, g)
        <4> SUFFICES ASSUME NEW h \in New, NEW t \in Written, g <= t, t <= h PROVE t \in New
          BY <3>2 DEF Unbroken
        <4>1. t \in asked
          BY <3>2, <1>6
        <4> QED BY <4>1, <1>6
      <3>4. ASSUME Cardinality(New) < load.tail PROVE Unbroken(New, 0)
        <4> SUFFICES ASSUME NEW h \in New, NEW t \in Written, t <= h PROVE t \in New
          BY <3>2 DEF Unbroken
        <4>1. t \in asked
          BY <3>2, <1>6
        <4> QED BY <4>1, <3>4, <1>6
      <3>5. ~ \E n \in DOMAIN load'.left : load'.left[n] \in Writes[target]
        BY <1>3, <1>4, <2>1
      <3> QED BY <1>2, <1>4, <1>6, <3>1, <3>3, <3>4, <3>5, StillUnbroken DEF LoadWhole
    <2>2. CASE Head(load.left) # s
      <3>1. New = {}
        BY <1>3, <1>4, <1>6, <2>2
      <3>2. load'.got = load.got
        BY <3>1, <1>4
      <3>3. (\E n \in DOMAIN load'.left : load'.left[n] \in Writes[target])
               => \E n \in DOMAIN load.left : load.left[n] \in Writes[target]
        <4>1. CASE load.left = <<"stdout", "stderr">> /\ load'.left = <<"stderr">>
          <5>1. load'.left[1] = load.left[2] /\ 2 \in DOMAIN load.left /\ DOMAIN load'.left = {1}
            BY <4>1
          <5> QED BY <5>1
        <4>2. CASE load'.left = <<>>
          BY <4>2
        <4> QED BY <4>1, <4>2, <1>4
      <3> QED BY <1>2, <1>4, <3>2, <3>3, StillUnbroken DEF LoadWhole
    <2> QED BY <2>1, <2>2
  <1> QED BY <1>1, <1>2, <1>7 DEF WholeInv

\* What it brings is the buffer.
LEMMA LoadedWhole ==
  ASSUME TailAssumption, TailInv, OneStream, Loaded
  PROVE  WholeInv'
  <1>1. TypeOK /\ WholeInv /\ load # Nothing /\ load \in Request /\ LoadWhole
    BY DEF TailInv, Loaded, TypeOK, WholeInv
  <1>2. PICK s \in Stream : /\ Writes[target] = {s} /\ On(s) = Written
                            /\ \A o \in Stream : o # s => On(o) = {}
    BY <1>1, OneStreamIs
  <1>3. /\ load' = Nothing /\ UNCHANGED <<log, target, poll>>
        /\ lines' = Sorted(NewestOf(load.got, Cap)) /\ cursor' = CursorOf(load.got)
    BY DEF Loaded
  <1>4. /\ load.got \in SUBSET Times /\ load.got \in SUBSET Nat /\ IsFiniteSet(load.got)
        /\ load.tail \in Nat \ {0} /\ Cap \in Nat \ {0}
        /\ Unbroken(load.got, 0) \/ Cardinality(load.got) = load.tail
        /\ Cardinality(load.got) \in Nat
    BY <1>1, TimesAreFinite DEF Request, TailAssumption, LoadWhole
  <1>5. load.got \subseteq Written
    BY <1>1 DEF LoadWhole, Unbroken
  <1>6. ASSUME from' > 0
        PROVE  /\ poll = Idle
               /\ from' = IF Cardinality(load.got) = load.tail THEN Min(load.got) ELSE 1
    <2> DEFINE full == {o \in Stream : Cardinality(load.got \cap On(o)) = load.tail}
               firsts == {1} \cup {Min(load.got \cap On(o)) : o \in full}
    <2>1. poll = Idle /\ from' = Max(firsts)
      BY <1>6 DEF Loaded
    <2>2. load.got \cap On(s) = load.got
      BY <1>2, <1>5
    <2>3. \A o \in Stream : o # s => load.got \cap On(o) = {} /\ Cardinality(load.got \cap On(o)) = 0
      BY <1>2, FS_EmptySet
    <2>4. full = IF Cardinality(load.got) = load.tail THEN {s} ELSE {}
      BY <1>2, <1>4, <2>2, <2>3
    <2>5. firsts = IF Cardinality(load.got) = load.tail THEN {1, Min(load.got)} ELSE {1}
      <3> HIDE DEF full
      <3> QED BY <2>2, <2>4
    <2> HIDE DEF full, firsts
    <2>6. CASE Cardinality(load.got) = load.tail
      <3>1. Min(load.got) \in Times
        BY <2>6, <1>4, FS_EmptySet, TimesAreFinite
      <3>2. firsts \in SUBSET Times /\ firsts # {}
        BY <2>5, <2>6, <3>1 DEF Times, TailAssumption
      <3>3. Max(firsts) \in firsts /\ \A t \in firsts : t <= Max(firsts)
        BY <3>2, TimesAreFinite, Greatest
      <3> QED BY <2>1, <2>5, <2>6, <3>1, <3>3 DEF Times
    <2>7. CASE Cardinality(load.got) # load.tail
      <3>1. firsts = {1}
        BY <2>5, <2>7
      <3>2. Max({1}) = 1
        <4>1. IsFiniteSet({1})
          BY FS_Singleton
        <4>2. Max({1}) \in {1}
          BY <4>1, Greatest
        <4> QED BY <4>2
      <3> QED BY <2>1, <3>1, <3>2, <2>7
    <2> QED BY <2>6, <2>7
  <1>7. ASSUME from' > 0, Len(lines') < Cap PROVE BufferWhole'
    <2> USE <1>7
    <2>1. NewestOf(load.got, Cap) = load.got
      <3>1. NewestOf(load.got, Cap) \in SUBSET Times /\ IsFiniteSet(NewestOf(load.got, Cap))
        BY <1>4, NewestIsUpperEnd
      <3>2. Times \in SUBSET Nat
        BY DEF Times
      <3>3. Len(lines') = Cardinality(NewestOf(load.got, Cap))
        BY <1>3, <3>1, <3>2, SortedIsInOrder
      <3> QED BY <1>4, <1>7, <3>3, NewestIsUpperEnd
    <2>2. ToSet(lines') = load.got /\ BufferChronological'
      BY <1>3, <1>4, <2>1, SortedIsInOrder DEF BufferChronological
    <2>3. /\ \A t \in load.got : from' <= t
          /\ Unbroken(load.got, from')
          /\ cursor' - 1 \in load.got \/ (cursor' = 0 /\ from' = 1)
      <3>1. CASE load.got = {}
        <4>1. Cardinality(load.got) = 0
          BY <3>1, FS_EmptySet
        <4> QED BY <4>1, <3>1, <1>3, <1>4, <1>6 DEF CursorOf, Unbroken
      <3>2. CASE load.got # {}
        <4>1. Max(load.got) \in load.got /\ Min(load.got) \in load.got
              /\ \A t \in load.got : Min(load.got) <= t
          BY <3>2, <1>4, Greatest, Least
        <4>2. cursor' - 1 \in load.got
          BY <1>3, <1>4, <3>2, <4>1 DEF CursorOf
        <4>3. \A t \in load.got : from' <= t
          BY <1>4, <1>6, <4>1 DEF Times
        <4>4. Unbroken(load.got, from')
          <5>1. CASE Cardinality(load.got) = load.tail
            BY <5>1, <1>1, <1>6, <4>1 DEF LoadWhole
          <5>2. CASE Cardinality(load.got) # load.tail
            <6>1. from' = 1 /\ Unbroken(load.got, 0)
              BY <5>2, <1>4, <1>6
            <6>2. Written \in SUBSET Nat
              BY <1>1, WrittenAre DEF Times
            <6> QED BY <6>1, <6>2 DEF Unbroken
          <5> QED BY <5>1, <5>2
        <4> QED BY <4>2, <4>3, <4>4
      <3> QED BY <3>1, <3>2
    <2>4. Unbroken(ToSet(lines), from)'
      <3>1. PICK T, a : T = ToSet(lines') /\ a = from' /\ Unbroken(T, a)
        BY <2>2, <2>3
      <3> QED BY <3>1, <1>3, StillUnbroken, NamedUnbroken
    <2>5. \A k \in Polls : poll'[k] = Nothing
      BY <1>6, <1>3, IdleIs
    <2> QED BY <2>2, <2>3, <2>4, <2>5 DEF BufferWhole
  <1> QED BY <1>3, <1>7 DEF WholeInv

\* A poll's answer joins the buffer: it asks from the cursor, with an overlap.
LEMMA ServePollWhole ==
  ASSUME TailAssumption, TailInv, OneStream, NEW k \in Polls, ServePoll(k)
  PROVE  WholeInv'
  <1>1. TypeOK /\ WholeInv /\ poll[k] # Nothing /\ poll[k] \in Request /\ poll[k].left # <<>>
    BY DEF TailInv, ServePoll, TypeOK, Nothing
  <1>2. /\ poll' = [poll EXCEPT ![k] = Read(poll[k])]
        /\ UNCHANGED <<log, target, range, load, lines, cursor, from>>
    BY DEF ServePoll
  <1>3. PICK s \in Stream : /\ Writes[target] = {s} /\ On(s) = Written
                            /\ \A o \in Stream : o # s => On(o) = {}
    BY <1>1, OneStreamIs
  <1>4. poll[k].tail = MaxTime /\ poll[k].until = MaxTime
    BY <1>1 DEF TailInv, RequestsInv
  <1>5. ASSUME from > 0, Len(lines) < Cap PROVE BufferWhole'
    <2> DEFINE q == poll[k]
               asked == {t \in On(Head(q.left)) : q.since <= t /\ t <= q.until}
               r == Read(q)
    <2>1. BufferWhole /\ PollWhole(q)
      BY <1>1, <1>5 DEF WholeInv, BufferWhole
    <2>2. /\ r.since = q.since /\ r.got = q.got \cup NewestOf(asked, q.tail)
          /\ asked \in SUBSET Times /\ Head(q.left) \in Stream
      BY <1>1, ReadIs
    <2>3. NewestOf(asked, q.tail) = asked
      <3>1. q.tail = MaxTime /\ MaxTime \in Nat
        BY <1>4 DEF TailAssumption
      <3> HIDE DEF asked, q
      <3>2. asked \in SUBSET Nat /\ IsFiniteSet(asked) /\ Cardinality(asked) <= MaxTime
            /\ Cardinality(asked) \in Nat
        BY <2>2, TimesAreFinite
      <3> QED BY <3>1, <3>2, NewestIsUpperEnd
    <2>4. asked = {} \/ asked = {t \in Written : q.since <= t}
      <3>1. \A t \in Written : t <= q.until
        BY <1>1, <1>4, WrittenAre DEF Times, TailAssumption
      <3> QED BY <1>3, <2>2, <3>1
    <2>5. q.since \in Nat /\ from \in Nat /\ \A t \in Written : t \in Nat
      BY <1>1, WrittenAre DEF Request, Times, TypeOK, TailAssumption
    <2> HIDE DEF asked, r, q
    <2>6. Unbroken(r.got, r.since)
      BY <2>1, <2>2, <2>3, <2>4 DEF PollWhole, Unbroken
    <2>7. \A g \in r.got : from <= g
      <3> SUFFICES ASSUME NEW g \in asked PROVE from <= g
        BY <2>1, <2>2, <2>3 DEF PollWhole
      <3>1. g \in Written /\ q.since <= g
        BY <2>4
      <3> QED BY <3>1, <2>1, <2>5, <1>5, WrittenAre, <1>1 DEF PollWhole, Times
    <2>8. PollWhole(r)
      BY <2>1, <2>2, <2>6, <2>7 DEF PollWhole
    <2>9. ASSUME NEW j \in Polls, poll'[j] # Nothing PROVE PollWhole(poll[j])'
      <3>1. PICK p : p = poll'[j] /\ PollWhole(p)
        <4>1. CASE j = k
          <5>1. poll'[j] = r
            BY <1>1, <1>2, <4>1 DEF TypeOK, r, q
          <5> QED BY <5>1, <2>8
        <4>2. CASE j # k
          <5>1. poll'[j] = poll[j] /\ poll[j] # Nothing
            BY <1>2, <2>9, <4>2, <1>1 DEF TypeOK
          <5> QED BY <5>1, <2>1 DEF BufferWhole
        <4> QED BY <4>1, <4>2
      <3> QED BY <3>1, <1>2, PollKept, NamedPoll
    <2> QED BY <2>1, <2>9, <1>2, BufferKept
  <1>6. load # Nothing => LoadWhole'
    BY <1>1, <1>2, StillUnbroken DEF WholeInv, LoadWhole
  <1> QED BY <1>2, <1>5, <1>6 DEF WholeInv

\* A poll is sent with the cursor there is.
LEMMA TickWhole ==
  ASSUME TailAssumption, TailInv, OneStream, NEW k \in Polls, Tick(k)
  PROVE  WholeInv'
  <1>1. TypeOK /\ WholeInv
    BY DEF TailInv
  <1>2. PICK since \in {cursor, cursor - 1} \cap Nat : Poll(k, since)
    BY DEF Tick
  <1>3. /\ poll' = [poll EXCEPT ![k] = Ask(since, MaxTime, MaxTime)]
        /\ UNCHANGED <<log, target, range, load, lines, cursor, from>>
    BY <1>2 DEF Poll
  <1>4. ASSUME from > 0, Len(lines) < Cap PROVE BufferWhole'
    <2> DEFINE q == Ask(since, MaxTime, MaxTime)
    <2>1. BufferWhole
      BY <1>1, <1>4 DEF WholeInv
    <2>2. q.since = since /\ q.got = {}
      BY DEF Ask
    <2>3. /\ cursor \in Nat /\ from \in Nat /\ Now \in Nat /\ Written \in SUBSET (1..Now)
          /\ \A t \in Written : t \in Nat
          /\ ToSet(lines) \subseteq Written
      BY <1>1, <2>1, WrittenAre DEF TypeOK, BufferWhole, Unbroken, Times
    <2> HIDE DEF q
    <2>4. PollWhole(q)
      <3>1. CASE cursor = 0 /\ from = 1
        <4>1. q.since = 0 /\ q.got = {}
          BY <1>2, <2>2, <3>1
        <4>2. Unbroken(q.got, q.since)
          BY <4>1 DEF Unbroken
        <4>3. \A t \in Written : ~(t < q.since)
          BY <4>1, <2>3
        <4>4. (\A g \in q.got : from <= g) /\ from = 1
          BY <4>1, <3>1
        <4>5. q.since <= Now + 1
          BY <4>1, <2>3
        <4> QED BY <4>2, <4>3, <4>4, <4>5 DEF PollWhole
      <3>2. CASE cursor - 1 \in ToSet(lines)
        <4>1. from <= cursor - 1 /\ cursor - 1 <= Now /\ since <= cursor /\ cursor - 1 <= since
          BY <1>2, <2>1, <2>3, <3>2 DEF BufferWhole
        <4>2. ASSUME NEW t \in Written, from <= t, t < since PROVE t \in ToSet(lines)
          <5>1. t <= cursor - 1
            BY <4>1, <4>2, <2>3, <1>2
          <5> QED BY <5>1, <4>2, <3>2, <2>1 DEF BufferWhole, Unbroken
        <4>3. from <= since /\ since <= Now + 1
          BY <4>1, <2>3, <1>2
        <4> QED BY <4>2, <4>3, <2>2 DEF PollWhole, Unbroken
      <3> QED BY <3>1, <3>2, <2>1 DEF BufferWhole
    <2>5. ASSUME NEW j \in Polls, poll'[j] # Nothing PROVE PollWhole(poll[j])'
      <3>1. PICK p : p = poll'[j] /\ PollWhole(p)
        <4>1. CASE j = k
          <5>1. poll'[j] = q
            BY <1>1, <1>3, <4>1 DEF TypeOK, q
          <5> QED BY <5>1, <2>4
        <4>2. CASE j # k
          <5>1. poll'[j] = poll[j] /\ poll[j] # Nothing
            BY <1>3, <2>5, <4>2, <1>1 DEF TypeOK
          <5> QED BY <5>1, <2>1 DEF BufferWhole
        <4> QED BY <4>1, <4>2
      <3> QED BY <3>1, <1>3, PollKept, NamedPoll
    <2> QED BY <2>1, <2>5, <1>3, BufferKept
  <1>5. load # Nothing => LoadWhole'
    BY <1>1, <1>3, StillUnbroken DEF WholeInv, LoadWhole
  <1> QED BY <1>3, <1>4, <1>5 DEF WholeInv

\* A poll merged late adds only what joins what is there by then.
LEMMA PolledWhole ==
  ASSUME TailAssumption, TailInv, OneStream, NEW k \in Polls, Polled(k)
  PROVE  WholeInv'
  <1>1. TypeOK /\ WholeInv /\ poll[k] # Nothing /\ poll[k] \in Request
    BY DEF TailInv, Polled, TypeOK
  <1> DEFINE got == poll[k].got
             more == Sorted(got \ ToSet(lines))
  <1>3. /\ lines' = Merged(got)
        /\ cursor' = IF got = {} THEN cursor ELSE CursorOf(got)
        /\ poll' = [poll EXCEPT ![k] = Nothing]
        /\ UNCHANGED <<log, target, range, load, from>>
    BY DEF Polled
  <1>4. got \in SUBSET Times
    BY <1>1 DEF Request
  <1>5. ASSUME from > 0, Len(lines') < Cap PROVE BufferWhole'
    <2>1. lines' = lines \o more /\ Len(lines) < Cap
      BY <1>1, <1>3, <1>4, <1>5, MergedIs
    <2>2. BufferWhole /\ PollWhole(poll[k])
      BY <1>1, <1>5, <2>1 DEF WholeInv, BufferWhole
    <2>3. /\ got \ ToSet(lines) \in SUBSET Times /\ IsFiniteSet(got \ ToSet(lines))
          /\ Times \in SUBSET Nat
      BY <1>4, TimesAreFinite DEF Times
    <2>4. /\ more \in Seq(Times) /\ ToSet(more) = got \ ToSet(lines)
          /\ \A i, j \in DOMAIN more : i < j => more[i] < more[j]
      BY <2>3, SortedIsInOrder
    <2>5. /\ got \subseteq Written /\ ToSet(lines) \subseteq Written
          /\ \A g \in got : from <= g
          /\ \A t \in Written : t \in Nat
          /\ poll[k].since \in Nat /\ lines \in Seq(Times)
      BY <2>2, <1>1, WrittenAre
         DEF PollWhole, BufferWhole, Unbroken, Request, Times, TailAssumption, TypeOK
    <2> HIDE DEF got, more
    <2>6. \A l \in ToSet(lines), g \in got \ ToSet(lines) : l < g
      <3> SUFFICES ASSUME NEW l \in ToSet(lines), NEW g \in got \ ToSet(lines), g <= l
                   PROVE  FALSE
        BY <2>5
      <3>1. g \in Written /\ from <= g
        BY <2>5
      <3> QED BY <3>1, <2>2 DEF BufferWhole, Unbroken
    <2>7. /\ Len(lines') = Len(lines) + Len(more) /\ Len(lines) \in Nat /\ Len(more) \in Nat
          /\ \A i \in 1..Len(lines) : lines'[i] = lines[i] /\ lines[i] \in ToSet(lines)
          /\ \A i \in 1..Len(more) : /\ lines'[Len(lines) + i] = more[i]
                                     /\ more[i] \in got \ ToSet(lines)
          /\ DOMAIN lines' = 1..Len(lines')
      <3>1. \A i \in 1..Len(lines) : lines[i] \in ToSet(lines)
        BY <2>5 DEF ToSet
      <3>2. \A i \in 1..Len(more) : more[i] \in ToSet(more)
        BY <2>4 DEF ToSet
      <3>3. /\ Len(lines') = Len(lines) + Len(more) /\ Len(lines) \in Nat /\ Len(more) \in Nat
            /\ \A i \in 1..Len(lines) : lines'[i] = lines[i]
            /\ \A i \in 1..Len(more) : lines'[Len(lines) + i] = more[i]
            /\ DOMAIN lines' = 1..Len(lines')
        BY <2>1, <2>4, <2>5
      <3> QED BY <3>1, <3>2, <3>3, <2>4
    <2>8. ToSet(lines') = ToSet(lines) \cup got
      <3>1. ASSUME NEW t \in ToSet(lines') PROVE t \in ToSet(lines) \cup got
        <4>1. PICK i \in 1..Len(lines') : t = lines'[i]
          BY <2>7 DEF ToSet
        <4>2. CASE i <= Len(lines)
          BY <4>1, <4>2, <2>7
        <4>3. CASE i > Len(lines)
          <5>1. i - Len(lines) \in 1..Len(more) /\ i = Len(lines) + (i - Len(lines))
            BY <4>1, <4>3, <2>7
          <5> QED BY <4>1, <5>1, <2>7
        <4> QED BY <4>1, <4>2, <4>3, <2>7
      <3>2. ASSUME NEW t \in ToSet(lines) PROVE t \in ToSet(lines')
        <4>1. PICK i \in 1..Len(lines) : t = lines[i]
          BY <2>5 DEF ToSet
        <4>2. i \in DOMAIN lines' /\ lines'[i] = t
          BY <4>1, <2>7
        <4> QED BY <4>2 DEF ToSet
      <3>3. ASSUME NEW t \in got \ ToSet(lines) PROVE t \in ToSet(lines')
        <4>1. PICK i \in 1..Len(more) : t = more[i]
          BY <2>4, <3>3 DEF ToSet
        <4>2. Len(lines) + i \in DOMAIN lines' /\ lines'[Len(lines) + i] = t
          BY <4>1, <2>7
        <4> QED BY <4>2 DEF ToSet
      <3> QED BY <3>1, <3>2, <3>3
    <2>9. BufferChronological'
      <3> SUFFICES ASSUME NEW i \in 1..Len(lines'), NEW j \in 1..Len(lines'), i < j
                   PROVE  lines'[i] < lines'[j]
        BY <2>7 DEF BufferChronological
      <3>1. CASE j <= Len(lines)
        <4>1. i \in 1..Len(lines) /\ j \in 1..Len(lines) /\ DOMAIN lines = 1..Len(lines)
          BY <3>1, <2>5, <2>7
        <4> QED BY <4>1, <2>2, <2>7 DEF BufferWhole, BufferChronological
      <3>2. CASE i <= Len(lines) /\ j > Len(lines)
        <4>1. i \in 1..Len(lines) /\ j - Len(lines) \in 1..Len(more)
              /\ j = Len(lines) + (j - Len(lines))
          BY <3>2, <2>7
        <4>2. lines'[i] \in ToSet(lines) /\ lines'[j] \in got \ ToSet(lines)
          BY <4>1, <2>7
        <4> QED BY <4>2, <2>6
      <3>3. CASE i > Len(lines)
        <4> DEFINE a == i - Len(lines)
                   b == j - Len(lines)
        <4>1. a \in 1..Len(more) /\ b \in 1..Len(more) /\ a < b
              /\ i = Len(lines) + a /\ j = Len(lines) + b
          BY <3>3, <2>7
        <4> HIDE DEF a, b
        <4>2. lines'[i] = more[a] /\ lines'[j] = more[b] /\ DOMAIN more = 1..Len(more)
          BY <4>1, <2>4, <2>7
        <4> QED BY <4>1, <4>2, <2>4
      <3> QED BY <3>1, <3>2, <3>3, <2>7
    <2>10. Unbroken(ToSet(lines) \cup got, from)
      <3> SUFFICES ASSUME NEW g \in got, NEW t \in Written, from <= t, t <= g
                   PROVE  t \in ToSet(lines) \cup got
        BY <2>2, <2>5 DEF BufferWhole, Unbroken
      <3>1. CASE poll[k].since <= t
        BY <3>1, <2>2 DEF PollWhole, Unbroken, got
      <3>2. CASE t < poll[k].since
        BY <3>2, <2>2 DEF PollWhole
      <3> QED BY <3>1, <3>2, <2>5
    <2>11. Unbroken(ToSet(lines), from)'
      <3>1. PICK T, a : T = ToSet(lines') /\ a = from' /\ Unbroken(T, a)
        BY <1>3, <2>8, <2>10
      <3> QED BY <3>1, <1>3, StillUnbroken, NamedUnbroken
    <2>12. /\ \A t \in ToSet(lines') : from' <= t
           /\ cursor' - 1 \in ToSet(lines') \/ (cursor' = 0 /\ from' = 1)
      <3>1. \A t \in ToSet(lines') : from' <= t
        BY <2>8, <2>5, <2>2, <1>3 DEF BufferWhole
      <3>2. CASE got = {}
        BY <3>1, <3>2, <1>3, <2>2, <2>8 DEF BufferWhole
      <3>3. CASE got # {}
        <4>1. IsFiniteSet(got) /\ got \in SUBSET Nat
          BY <1>4, TimesAreFinite
        <4>2. PICK m : m = Max(got) /\ m \in got /\ cursor' = m + 1
          BY <4>1, <3>3, <1>3, Greatest DEF CursorOf
        <4>3. cursor' - 1 = m
          BY <4>1, <4>2
        <4> QED BY <3>1, <4>2, <4>3, <2>8
      <3> QED BY <3>2, <3>3
    <2>13. ASSUME NEW j \in Polls, poll'[j] # Nothing PROVE PollWhole(poll[j])'
      <3>1. poll'[j] = poll[j] /\ poll[j] # Nothing
        BY <1>3, <2>13, <1>1 DEF TypeOK
      <3>2. PICK p : p = poll'[j] /\ PollWhole(p)
        BY <3>1, <2>2 DEF BufferWhole
      <3> QED BY <3>2, <1>3, <2>8, PollKept, NamedPoll
    <2> QED BY <2>9, <2>11, <2>12, <2>13 DEF BufferWhole
  <1>6. load # Nothing => LoadWhole'
    BY <1>1, <1>3, StillUnbroken DEF WholeInv, LoadWhole
  <1> QED BY <1>3, <1>5, <1>6 DEF WholeInv

\* Failures leave the buffer as it is.
LEMMA RestWhole ==
  ASSUME TailInv, OneStream,
         \/ LoadFails
         \/ \E k \in Polls : PollFails(k)
         \/ UNCHANGED vars
  PROVE  WholeInv'
  <1>1. TypeOK /\ WholeInv
    BY DEF TailInv
  <1>2. CASE LoadFails
    BY <1>2 DEF LoadFails, WholeInv, TailInv, RequestsInv
  <1>3. ASSUME UNCHANGED <<log, target, load, lines, cursor, from>>,
               \A k \in Polls : poll'[k] # Nothing => poll'[k] = poll[k]
        PROVE  WholeInv'
    <2>1. load # Nothing => LoadWhole'
      BY <1>1, <1>3, StillUnbroken DEF WholeInv, LoadWhole
    <2>2. ASSUME from > 0, Len(lines) < Cap PROVE BufferWhole'
      <3>1. BufferWhole
        BY <1>1, <2>2 DEF WholeInv
      <3>2. ASSUME NEW j \in Polls, poll'[j] # Nothing PROVE PollWhole(poll[j])'
        <4>1. PICK p : p = poll'[j] /\ PollWhole(p)
          BY <1>3, <3>1, <3>2 DEF BufferWhole
        <4> QED BY <4>1, <1>3, PollKept, NamedPoll
      <3> QED BY <3>1, <3>2, <1>3, BufferKept
    <2> QED BY <2>1, <2>2, <1>3 DEF WholeInv
  <1>4. ASSUME NEW k \in Polls, PollFails(k) PROVE WholeInv'
    BY <1>1, <1>3, <1>4 DEF PollFails, TypeOK
  <1>5. CASE UNCHANGED vars
    BY <1>3, <1>5 DEF vars
  <1> QED BY <1>2, <1>4, <1>5

\* Whatever answers, a load has covered nothing before it has ended.
LEMMA RequestsKept ==
  ASSUME TailAssumption, TypeOK, RequestsInv, [Next]_vars
  PROVE  RequestsInv'
  <1>1. ASSUME NEW c \in Container, NEW s \in Stream, Write(c, s) PROVE RequestsInv'
    BY <1>1 DEF Write, RequestsInv, Idle
  <1>2. ASSUME NEW c \in Container, NEW r \in Times \cup {Live}, Show(c, r) PROVE RequestsInv'
    BY <1>2 DEF Show, RequestsInv, Idle
  <1>3. CASE ServeLoad
    <2>1. load # Nothing
      BY <1>3 DEF ServeLoad, Nothing
    <2> QED BY <1>3, <2>1 DEF ServeLoad, RequestsInv, Idle
  <1>4. CASE Loaded
    BY <1>4 DEF Loaded, RequestsInv
  <1>5. CASE LoadFails
    BY <1>5 DEF LoadFails, RequestsInv
  <1>6. ASSUME NEW k \in Polls, ServePoll(k) PROVE RequestsInv'
    <2>1. poll[k] # Nothing /\ poll[k] \in Request /\ poll[k].left # <<>>
      BY <1>6 DEF ServePoll, TypeOK, Nothing
    <2>2. Read(poll[k]).tail = MaxTime /\ Read(poll[k]).until = MaxTime
      BY <2>1, ReadIs DEF RequestsInv
    <2> HIDE DEF Read
    <2> QED BY <1>6, <2>2 DEF ServePoll, RequestsInv, TypeOK
  <1>7. ASSUME NEW k \in Polls, Tick(k) PROVE RequestsInv'
    <2>1. PICK since : Poll(k, since)
      BY <1>7 DEF Tick
    <2>2. /\ poll' = [poll EXCEPT ![k] = Ask(since, MaxTime, MaxTime)]
          /\ UNCHANGED <<load, from>>
      BY <2>1 DEF Poll
    <2>3. Ask(since, MaxTime, MaxTime).tail = MaxTime /\ Ask(since, MaxTime, MaxTime).until = MaxTime
      BY DEF Ask
    <2> QED BY <2>2, <2>3 DEF RequestsInv, TypeOK
  <1>8. ASSUME NEW k \in Polls, Polled(k) \/ PollFails(k) PROVE RequestsInv'
    <2>1. poll' = [poll EXCEPT ![k] = Nothing] /\ UNCHANGED <<load, from>>
      BY <1>8 DEF Polled, PollFails
    <2> QED BY <2>1 DEF RequestsInv, TypeOK
  <1>9. CASE UNCHANGED vars
    BY <1>9 DEF vars, RequestsInv, Idle
  <1> QED BY <1>1, <1>2, <1>3, <1>4, <1>5, <1>6, <1>7, <1>8, <1>9 DEF Next

\* The first history load begins with nothing held.
\* The invariant holds at first
LEMMA TailInit == TailAssumption /\ Init => TailInv
  <1> SUFFICES ASSUME TailAssumption, Init PROVE TailInv
    OBVIOUS
  <1>1. load.since = 0 /\ load.got = {} /\ load.tail = LogsTail
    BY HistoryIsRequest DEF Init
  <1>2. Cardinality(load.got) = 0 /\ LogsTail \in Nat
    BY <1>1, FS_EmptySet DEF TailAssumption
  <1>3. LoadWhole
    BY <1>1, <1>2 DEF LoadWhole, Unbroken
  <1>4. from = 0 /\ poll = Idle
    BY DEF Init
  <1> QED BY <1>3, <1>4, InitTypes, IdleIs DEF TailInv, WholeInv, RequestsInv

\* every step keeps it
LEMMA TailStep == TailAssumption /\ TailInv /\ [Next]_vars => TailInv'
  <1> SUFFICES ASSUME TailAssumption, TailInv, [Next]_vars PROVE TailInv'
    OBVIOUS
  <1>1. TypeOK' /\ RequestsInv'
    BY TypesKept, RequestsKept DEF TailInv
  <1>2. ASSUME OneStream' PROVE WholeInv'
    <2>1. ASSUME NEW c \in Container, NEW r \in Times \cup {Live}, Show(c, r) PROVE WholeInv'
      BY <2>1, ShowWhole
    <2>2. ASSUME NEW c \in Container, NEW s \in Stream, Write(c, s) PROVE WholeInv'
      BY <1>2, <2>2, WriteWhole DEF Write, OneStream
    <2>3. CASE ServeLoad
      BY <1>2, <2>3, ServeLoadWhole DEF ServeLoad, OneStream
    <2>4. CASE Loaded
      BY <1>2, <2>4, LoadedWhole DEF Loaded, OneStream
    <2>5. ASSUME NEW k \in Polls, ServePoll(k) PROVE WholeInv'
      BY <1>2, <2>5, ServePollWhole DEF ServePoll, OneStream
    <2>6. ASSUME NEW k \in Polls, Tick(k) PROVE WholeInv'
      BY <1>2, <2>6, TickWhole DEF Tick, Poll, OneStream
    <2>7. ASSUME NEW k \in Polls, Polled(k) PROVE WholeInv'
      BY <1>2, <2>7, PolledWhole DEF Polled, OneStream
    <2>8. CASE LoadFails \/ (\E k \in Polls : PollFails(k)) \/ UNCHANGED vars
      BY <1>2, <2>8, RestWhole DEF LoadFails, PollFails, vars, OneStream
    <2> QED BY <2>1, <2>2, <2>3, <2>4, <2>5, <2>6, <2>7, <2>8 DEF Next
  <1>3. (OneStream => WholeInv)'
    BY <1>2
  <1> QED BY <1>1, <1>3 DEF TailInv

\* and it says that no line is skipped.
LEMMA WholeHolds == TailAssumption /\ TailInv => OneStreamIsWhole
  <1> SUFFICES ASSUME TailAssumption, TailInv, from > 0, OneStream, Len(lines) < Cap
               PROVE  NoLineSkipped /\ BufferChronological
    BY DEF OneStreamIsWhole, OneStream
  <1>1. TypeOK /\ BufferWhole
    BY DEF TailInv, OneStream, RequestsInv, WholeInv
  <1>2. ASSUME NEW t \in from..cursor - 1, log[t].by = target PROVE t \in ToSet(lines)
    <2>1. from \in Nat /\ cursor \in Nat
      BY <1>1 DEF TypeOK, TailAssumption
    <2>2. cursor - 1 \in ToSet(lines)
      BY <1>1, <1>2, <2>1 DEF BufferWhole
    <2>3. cursor - 1 \in 1..Now /\ Now \in Nat
      BY <1>1, <2>2, WrittenAre DEF BufferWhole, Unbroken
    <2>4. t \in Written
      BY <1>2, <2>1, <2>3 DEF Written
    <2> QED BY <1>1, <1>2, <2>1, <2>2, <2>4 DEF BufferWhole, Unbroken
  <1> QED BY <1>1, <1>2 DEF NoLineSkipped, BufferWhole

-----------------------------------------------------------------------------
\* The log of a container that writes to one stream is shown in order and
\* without gaps, as long as the buffer has room, once a load has answered with
\* no poll under way: whatever number of polls overlap, before the load's answer
\* and after it, fail or answer late, and whatever is picked in between
\* (use-docker-logs.ts:52-106, docker.ts:360-376, docker_hosts.py:276-314,
\* 892-937).  A poll under way when the load answers is outside of it: such
\* polls do break the order (BufferChronological).
THEOREM OneStreamStaysWhole ==
  ASSUME TailAssumption
  PROVE  Spec => []OneStreamIsWhole
  <1>1. Init => TailInv
    BY TailInit
  <1>2. TailInv /\ [Next]_vars => TailInv'
    BY TailStep
  <1>3. TailInv => OneStreamIsWhole
    BY WholeHolds
  <1> QED BY <1>1, <1>2, <1>3, PTL DEF Spec
=============================================================================
