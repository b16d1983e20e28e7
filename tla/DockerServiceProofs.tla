------------------------- MODULE DockerServiceProofs -------------------------
(***************************************************************************)
(* Proofs about DockerCalls for any number of tasks, hosts and permits: no *)
(* permit is lost or invented, the caps hold, no wakeup is lost; and about *)
(* DockerService: it keeps to the protocol of DockerCalls, and a cached    *)
(* list is outdated only if an action raced with its fetch.                *)
(***************************************************************************)
EXTENDS DockerService, TLAPS, FiniteSetTheorems, SequenceTheorems

\* The permits of s that nobody uses.
Out(s) == s.free + Cardinality(s.granted)

\* The tasks s knows of: those queueing and those handed a permit.
Known(s) == Served(s.queue, Len(s.queue)) \cup s.granted

\* Nobody is in a semaphore twice.
WellFormed(s) ==
  /\ \A i, j \in 1..Len(s.queue) : s.queue[i] = s.queue[j] => i = j
  /\ \A i \in 1..Len(s.queue) : s.queue[i] \notin s.granted

\* No wakeup is pending that nobody will deliver.
Prompt(s) == s.queue # <<>> => s.free = 0 \/ s.granted # {}

Sound(s, T) == s \in Semaphores(T) /\ WellFormed(s) /\ Prompt(s)

-----------------------------------------------------------------------------
(* The semaphore.                                                          *)

\* The first n waiters are n tasks.
LEMMA ServedCount ==
  ASSUME NEW T, NEW q \in Seq(T), NEW n \in 0..Len(q),
         \A i, j \in 1..Len(q) : q[i] = q[j] => i = j
  PROVE  IsFiniteSet(Served(q, n)) /\ Cardinality(Served(q, n)) = n
<1> DEFINE f == [i \in 1..n |-> q[i]]
<1>1. n \in Nat /\ 1..n \subseteq 1..Len(q)
  OBVIOUS
<1>2. f \in Bijection(1..n, Served(q, n))
  BY <1>1 DEF Bijection, Injection, Surjection, IsInjective, Served
<1>3. ExistsBijection(1..n, Served(q, n))
  BY <1>2 DEF ExistsBijection
<1>4. QED
  BY <1>1, <1>3, FS_CountingElements, FS_NatBijection

\* Serving n waiters moves them from the queue to the granted ones, one permit
\* each, and adds nobody.
LEMMA ServeFacts ==
  ASSUME NEW T, IsFiniteSet(T), NEW s \in Semaphores(T), WellFormed(s),
         NEW n \in 0..Len(s.queue), n <= s.free
  PROVE  /\ Serve(s, n) \in Semaphores(T)
         /\ WellFormed(Serve(s, n))
         /\ Known(Serve(s, n)) = Known(s)
         /\ Out(Serve(s, n)) = Out(s)
         /\ Len(Serve(s, n).queue) = Len(s.queue) - n
         /\ n > 0 => Serve(s, n).granted # {}
         /\ Serve(s, n).free = s.free - n
<1> DEFINE q == s.queue
           r == Serve(s, n)
<1>1. /\ q \in Seq(T) /\ s.free \in Nat /\ s.granted \in SUBSET T
      /\ Len(q) \in Nat /\ \A j \in 1..Len(q) : q[j] \in T
  BY LenProperties, ElementOfSeq DEF Semaphores
<1>2. /\ r.free = s.free - n
      /\ r.queue = SubSeq(q, n + 1, Len(q))
      /\ r.granted = s.granted \cup Served(q, n)
      /\ r = [free |-> r.free, queue |-> r.queue, granted |-> r.granted]
  BY DEF Serve
<1>3. /\ r.queue \in Seq(T)
      /\ Len(r.queue) = Len(q) - n
      /\ \A i \in 1..(Len(q) - n) : r.queue[i] = q[n + i]
  <2>1. \A i \in (n + 1)..Len(q) : q[i] \in T
    BY <1>1
  <2>2. /\ SubSeq(q, n + 1, Len(q)) \in Seq(T)
        /\ Len(SubSeq(q, n + 1, Len(q))) =
             IF n + 1 <= Len(q) THEN Len(q) - (n + 1) + 1 ELSE 0
        /\ \A i \in 1..(Len(q) - (n + 1) + 1) :
             SubSeq(q, n + 1, Len(q))[i] = q[n + 1 + i - 1]
    <3>1. n + 1 \in Int /\ Len(q) \in Int
      BY <1>1
    <3> HIDE DEF q
    <3>2. QED
      BY <2>1, <3>1, SubSeqProperties
  <2>3. QED
    BY <1>1, <1>2, <2>2
<1>4. Served(q, n) \subseteq T
  BY <1>1 DEF Served
<1>5. r \in Semaphores(T)
  <2>1. r.free \in Nat /\ r.granted \in SUBSET T
    BY <1>1, <1>2, <1>4
  <2>2. QED
    BY <1>3, <2>1 DEF Semaphores, Serve
<1>6. WellFormed(r)
  <2>1. \A i \in 1..Len(r.queue) : n + i \in 1..Len(q) /\ r.queue[i] = q[n + i]
    BY <1>1, <1>3
  <2>2. ASSUME NEW i \in 1..Len(r.queue), NEW j \in 1..Len(r.queue),
               r.queue[i] = r.queue[j]
        PROVE  i = j
    <3>1. n + i = n + j
      BY <2>1, <2>2 DEF WellFormed
    <3>2. QED
      BY <3>1, <1>1, <1>3
  <2>3. ASSUME NEW i \in 1..Len(r.queue)
        PROVE  r.queue[i] \notin r.granted
    <3>1. r.queue[i] \notin s.granted
      BY <2>1 DEF WellFormed
    <3>2. ASSUME NEW j \in 1..n PROVE q[j] # r.queue[i]
      <4>1. j \in 1..Len(q) /\ j # n + i
        BY <1>1, <1>3
      <4>2. QED
        BY <2>1, <4>1 DEF WellFormed
    <3>3. QED
      BY <1>2, <3>1, <3>2 DEF Served
  <2>4. QED
    BY <2>2, <2>3 DEF WellFormed
<1>7. Known(r) = Known(s)
  <2>1. \A i \in 1..Len(r.queue) : n + i \in 1..Len(q) /\ r.queue[i] = q[n + i]
    BY <1>1, <1>3
  <2>2. \A j \in 1..n : j \in 1..Len(q)
    BY <1>1
  <2>3. \A j \in 1..Len(q) : j \in 1..n \/ (j - n \in 1..Len(r.queue) /\ n + (j - n) = j)
    BY <1>1, <1>3
  <2>4. \A j \in 1..Len(q) : j \in 1..n \/ \E i \in 1..Len(r.queue) : q[j] = r.queue[i]
    BY <2>1, <2>3
  <2>5. Served(r.queue, Len(r.queue)) \cup Served(q, n) = Served(q, Len(q))
    <3>1. ASSUME NEW i \in 1..Len(r.queue) PROVE r.queue[i] \in Served(q, Len(q))
      BY <2>1 DEF Served
    <3>2. ASSUME NEW j \in 1..n PROVE q[j] \in Served(q, Len(q))
      BY <2>2 DEF Served
    <3>3. ASSUME NEW j \in 1..Len(q)
          PROVE  q[j] \in Served(r.queue, Len(r.queue)) \cup Served(q, n)
      BY <2>4 DEF Served
    <3> HIDE DEF r, q
    <3>4. QED
      BY <3>1, <3>2, <3>3 DEF Served
  <2>6. QED
    BY <1>2, <2>5 DEF Known
<1>8. Out(r) = Out(s)
  <2>1. IsFiniteSet(Served(q, n)) /\ Cardinality(Served(q, n)) = n
    BY <1>1, ServedCount DEF WellFormed
  <2>2. IsFiniteSet(s.granted) /\ Cardinality(s.granted) \in Nat
    BY <1>1, FS_Subset, FS_CardinalityType
  <2>3. s.granted \cap Served(q, n) = {}
    BY <1>1 DEF WellFormed, Served
  <2>4. Cardinality(r.granted) = Cardinality(s.granted) + n
    <3>1. Cardinality(s.granted \cap Served(q, n)) = 0
      BY <2>3, FS_EmptySet
    <3>2. Cardinality(s.granted \cup Served(q, n)) =
            Cardinality(s.granted) + n - Cardinality(s.granted \cap Served(q, n))
      BY <2>1, <2>2, FS_Union
    <3>3. QED
      BY <1>1, <1>2, <2>2, <3>1, <3>2
  <2>5. QED
    BY <1>1, <1>2, <2>2, <2>4 DEF Out
<1>9. n > 0 => r.granted # {}
  <2>1. n > 0 => 1 \in 1..n
    BY <1>1
  <2>2. n > 0 => q[1] \in Served(q, n)
    BY <2>1 DEF Served
  <2>3. QED
    BY <1>2, <2>2
<1>10. QED
  BY <1>2, <1>3, <1>5, <1>6, <1>7, <1>8, <1>9

LEMMA NewFacts ==
  ASSUME NEW T, NEW n \in Nat
  PROVE  /\ Sound(NewSemaphore(n), T)
         /\ Known(NewSemaphore(n)) = {}
         /\ Out(NewSemaphore(n)) = n
<1> DEFINE s == NewSemaphore(n)
<1>1. s.free = n /\ s.queue = <<>> /\ s.granted = {} /\ s \in Semaphores(T)
  BY DEF NewSemaphore, Semaphores
<1>2. Len(s.queue) = 0
  BY <1>1
<1>3. Known(s) = {} /\ WellFormed(s) /\ Prompt(s)
  BY <1>1, <1>2 DEF Known, Served, WellFormed, Prompt
<1>4. Out(s) = n
  BY <1>1, FS_EmptySet DEF Out
<1>5. QED
  BY <1>1, <1>3, <1>4 DEF Sound

\* An uncontended acquire uses up one permit.
LEMMA TakeFacts ==
  ASSUME NEW T, NEW s, Sound(s, T), IsFiniteSet(T), ~Locked(s)
  PROVE  /\ Sound(Take(s), T)
         /\ Known(Take(s)) = Known(s)
         /\ Out(Take(s)) = Out(s) - 1
<1>1. /\ s.free \in Nat /\ s.free # 0 /\ s.queue = <<>> /\ s.granted = {}
      /\ s \in Semaphores(T)
  BY DEF Sound, Semaphores, Locked
<1>2. /\ Take(s).free = s.free - 1 /\ Take(s).queue = s.queue
      /\ Take(s).granted = s.granted /\ Take(s) \in Semaphores(T)
  BY <1>1 DEF Take, Semaphores
<1>3. WellFormed(Take(s)) /\ Prompt(Take(s)) /\ Known(Take(s)) = Known(s)
  BY <1>1, <1>2 DEF Sound, WellFormed, Prompt, Known
<1>4. Cardinality(s.granted) = 0
  BY <1>1, FS_EmptySet
<1>5. Out(Take(s)) = Out(s) - 1
  BY <1>1, <1>2, <1>4 DEF Out
<1>6. QED
  BY <1>2, <1>3, <1>5 DEF Sound

\* A contended acquire queues behind everybody.
LEMMA WaitFacts ==
  ASSUME NEW T, NEW s, Sound(s, T), Locked(s), NEW t \in T, t \notin Known(s)
  PROVE  /\ Sound(Wait(s, t), T)
         /\ Known(Wait(s, t)) = Known(s) \cup {t}
         /\ Out(Wait(s, t)) = Out(s)
<1> DEFINE q == s.queue
           r == Wait(s, t)
<1>1. /\ q \in Seq(T) /\ s.free \in Nat /\ s.granted \in SUBSET T
      /\ Len(q) \in Nat /\ s \in Semaphores(T)
  BY LenProperties DEF Sound, Semaphores
<1>2. /\ r.free = s.free /\ r.granted = s.granted /\ r.queue = Append(q, t)
      /\ r \in Semaphores(T)
  BY <1>1 DEF Wait, Semaphores
<1>3. /\ Len(r.queue) = Len(q) + 1
      /\ \A i \in 1..Len(q) : r.queue[i] = q[i]
      /\ r.queue[Len(q) + 1] = t
      /\ r.queue # <<>>
  BY <1>1, <1>2
<1>4. (\A i \in 1..Len(q) : q[i] # t) /\ t \notin s.granted
  BY <1>1 DEF Known, Served
<1>5. \A i \in 1..Len(r.queue) : i \in 1..Len(q) \/ i = Len(q) + 1
  BY <1>1, <1>3
<1>6. WellFormed(r)
  <2>1. ASSUME NEW i \in 1..Len(r.queue), NEW j \in 1..Len(r.queue),
               r.queue[i] = r.queue[j]
        PROVE  i = j
    BY <1>3, <1>4, <1>5, <2>1 DEF Sound, WellFormed
  <2>2. ASSUME NEW i \in 1..Len(r.queue)
        PROVE  r.queue[i] \notin r.granted
    BY <1>2, <1>3, <1>4, <1>5, <2>2 DEF Sound, WellFormed
  <2>3. QED
    BY <2>1, <2>2 DEF WellFormed
<1>7. Known(r) = Known(s) \cup {t}
  BY <1>2, <1>3, <1>5 DEF Known, Served
<1>8. Prompt(r)
  BY <1>2 DEF Sound, Prompt, Locked
<1>9. Out(r) = Out(s)
  BY <1>2 DEF Out
<1>10. QED
  BY <1>2, <1>6, <1>7, <1>8, <1>9 DEF Sound

\* Giving a permit back adds one to the unused ones, and wakes nobody twice.
LEMMA ReleaseFacts ==
  ASSUME NEW T, NEW s, Sound(s, T), IsFiniteSet(T)
  PROVE  /\ Sound(Release(s), T)
         /\ Known(Release(s)) = Known(s)
         /\ Out(Release(s)) = Out(s) + 1
<1> DEFINE u == [s EXCEPT !.free = @ + 1]
           n == AtMost(1, Len(s.queue))
<1>1. /\ s.queue \in Seq(T) /\ s.free \in Nat /\ s.granted \in SUBSET T
      /\ Len(s.queue) \in Nat /\ s \in Semaphores(T)
  BY LenProperties DEF Sound, Semaphores
<1>2. /\ u.free = s.free + 1 /\ u.queue = s.queue /\ u.granted = s.granted
      /\ u \in Semaphores(T)
  BY <1>1 DEF Semaphores
<1>3. n \in 0..Len(u.queue) /\ n <= u.free /\ (n = 0 => Len(s.queue) = 0)
  BY <1>1, <1>2 DEF AtMost
<1>4. WellFormed(u)
  BY <1>2 DEF Sound, WellFormed
<1>5. Release(s) = Serve(u, n)
  BY DEF Release
<1> HIDE DEF u, n
<1>6. /\ Release(s) \in Semaphores(T) /\ WellFormed(Release(s))
      /\ Known(Release(s)) = Known(u) /\ Out(Release(s)) = Out(u)
      /\ Len(Release(s).queue) = Len(u.queue) - n
      /\ n > 0 => Release(s).granted # {}
  BY <1>2, <1>3, <1>4, <1>5, ServeFacts
<1>7. Prompt(Release(s))
  <2>1. CASE n = 0
    <3>1. Len(Release(s).queue) = 0 /\ Release(s).queue \in Seq(T)
      BY <1>2, <1>3, <1>6, <2>1 DEF Semaphores
    <3>2. QED
      BY <3>1, EmptySeq DEF Prompt
  <2>2. CASE n > 0
    BY <1>6, <2>2 DEF Prompt
  <2>3. QED
    BY <1>3, <2>1, <2>2
<1>8. Known(u) = Known(s)
  BY <1>2 DEF Known
<1>9. Cardinality(s.granted) \in Nat
  BY <1>1, FS_Subset, FS_CardinalityType
<1>10. Out(u) = Out(s) + 1
  BY <1>1, <1>2, <1>9 DEF Out
<1>11. QED
  BY <1>6, <1>7, <1>8, <1>10 DEF Sound

\* A woken task that runs again uses the permit it was handed.
LEMMA ResumeFacts ==
  ASSUME NEW T, NEW s, Sound(s, T), IsFiniteSet(T), NEW t \in s.granted
  PROVE  /\ Sound(Resume(s, t), T)
         /\ Known(Resume(s, t)) = Known(s) \ {t}
         /\ Out(Resume(s, t)) = Out(s) - 1
<1> DEFINE u == [s EXCEPT !.granted = @ \ {t}]
           n == AtMost(s.free, Len(s.queue))
<1>1. /\ s.queue \in Seq(T) /\ s.free \in Nat /\ s.granted \in SUBSET T
      /\ Len(s.queue) \in Nat /\ s \in Semaphores(T)
  BY LenProperties DEF Sound, Semaphores
<1>2. /\ u.free = s.free /\ u.queue = s.queue /\ u.granted = s.granted \ {t}
      /\ u \in Semaphores(T)
  BY <1>1 DEF Semaphores
<1>3. /\ n \in 0..Len(u.queue) /\ n <= u.free
      /\ n = u.free \/ n = Len(u.queue)
  BY <1>1, <1>2 DEF AtMost
<1>4. WellFormed(u)
  BY <1>2 DEF Sound, WellFormed
<1>5. Resume(s, t) = Serve(u, n)
  BY DEF Resume
<1> HIDE DEF u, n
<1>6. /\ Resume(s, t) \in Semaphores(T) /\ WellFormed(Resume(s, t))
      /\ Known(Resume(s, t)) = Known(u) /\ Out(Resume(s, t)) = Out(u)
      /\ Len(Resume(s, t).queue) = Len(u.queue) - n
      /\ Resume(s, t).free = u.free - n
  <2> DEFINE r == Serve(u, n)
  <2>1. /\ r \in Semaphores(T) /\ WellFormed(r)
        /\ Known(r) = Known(u) /\ Out(r) = Out(u)
        /\ Len(r.queue) = Len(u.queue) - n /\ r.free = u.free - n
    BY <1>2, <1>3, <1>4, ServeFacts
  <2>2. QED
    BY <1>5, <2>1
<1>7. Prompt(Resume(s, t))
  <2>1. CASE n = Len(u.queue)
    <3>1. Len(Resume(s, t).queue) = 0 /\ Resume(s, t).queue \in Seq(T)
      BY <1>1, <1>2, <1>6, <2>1 DEF Semaphores
    <3>2. QED
      BY <3>1, EmptySeq DEF Prompt
  <2>2. CASE n = u.free
    BY <1>1, <1>2, <1>6, <2>2 DEF Prompt
  <2>3. QED
    BY <1>3, <2>1, <2>2
<1>8. Known(u) = Known(s) \ {t}
  <2>1. \A i \in 1..Len(s.queue) : s.queue[i] # t
    BY DEF Sound, WellFormed
  <2>2. QED
    BY <1>2, <2>1 DEF Known, Served
<1>9. IsFiniteSet(s.granted) /\ Cardinality(s.granted) \in Nat
  BY <1>1, FS_Subset, FS_CardinalityType
<1>10. Cardinality(s.granted \ {t}) = Cardinality(s.granted) - 1
  BY <1>9, FS_RemoveElement
<1>11. Out(u) = Out(s) - 1
  BY <1>1, <1>2, <1>9, <1>10 DEF Out
<1>12. QED
  BY <1>6, <1>7, <1>8, <1>11 DEF Sound

-----------------------------------------------------------------------------
(* The inductive invariant: each semaphore is sound, knows just the tasks  *)
(* that queue for it, and its unused permits and its users make its        *)
(* capacity.                                                               *)

GlobalOK ==
  /\ Sound(global, Task)
  /\ Known(global) = {t \in Task : pc[t] = "globalQueue"}
  /\ Out(global) + Cardinality(Holders) = Global

HostOK(h) ==
  /\ Sound(hosts[h], Task)
  /\ Known(hosts[h]) = {t \in Task : pc[t] = "hostQueue" /\ host[t] = h}
  /\ Out(hosts[h]) + Cardinality(HoldersOf(h)) = PerHost

CallsInv == CallsTypeOK /\ GlobalOK /\ \A h \in Host : HostOK(h)

\* How the number of a semaphore's users changes when one task joins or leaves.
LEMMA UsersChange ==
  ASSUME NEW S \in SUBSET Task, NEW t
  PROVE  /\ IsFiniteSet(S) /\ Cardinality(S) \in Nat
         /\ t \notin S => Cardinality(S \cup {t}) = Cardinality(S) + 1
         /\ t \in S => Cardinality(S \ {t}) = Cardinality(S) - 1
<1>1. IsFiniteSet(S)
  BY CallsAssumption, FS_Subset
<1>2. QED
  BY <1>1, FS_CardinalityType, FS_AddElement, FS_RemoveElement

LEMMA OutIsNatural ==
  ASSUME NEW s, Sound(s, Task)
  PROVE  Out(s) \in Nat /\ Cardinality(s.granted) \in Nat /\ s.free \in Nat
<1>1. s.free \in Nat /\ s.granted \in SUBSET Task
  BY DEF Sound, Semaphores
<1>2. Cardinality(s.granted) \in Nat
  BY <1>1, UsersChange
<1>3. QED
  BY <1>1, <1>2 DEF Out

\* A task that comes with the global permit acquires or queues at its host.
LEMMA AcquireHostStep ==
  ASSUME CallsTypeOK, \A g \in Host : HostOK(g),
         NEW t \in Task, NEW h \in Host, pc[t] \in {"idle", "globalQueue"},
         host' \in [Task -> Host], host'[t] = h,
         \A u \in Task \ {t} : host'[u] = host[u],
         AcquireHost(t, h)
  PROVE  /\ pc' \in [Task -> Places] /\ pc'[t] \in {"hostQueue", "thread"}
         /\ \A u \in Task \ {t} : pc'[u] = pc[u]
         /\ hosts' \in [Host -> Semaphores(Task)]
         /\ \A g \in Host : HostOK(g)'
<1>1. /\ pc' \in [Task -> Places] /\ pc'[t] \in {"hostQueue", "thread"}
      /\ \A u \in Task \ {t} : pc'[u] = pc[u]
  BY DEF CallsTypeOK, AcquireHost, Places
<1>2. /\ Sound(hosts[h], Task) /\ t \notin Known(hosts[h])
      /\ t \notin HoldersOf(h) /\ HoldersOf(h) \in SUBSET Task
  BY DEF HostOK, HoldersOf, HoldsHost
<1>3. HostOK(h)' /\ hosts' \in [Host -> Semaphores(Task)]
  <2>1. CASE Locked(hosts[h])
    <3>1. /\ hosts' = [hosts EXCEPT ![h] = Wait(hosts[h], t)]
          /\ pc' = [pc EXCEPT ![t] = "hostQueue"]
      BY <2>1 DEF AcquireHost
    <3>2. /\ Sound(Wait(hosts[h], t), Task)
          /\ Known(Wait(hosts[h], t)) = Known(hosts[h]) \cup {t}
          /\ Out(Wait(hosts[h], t)) = Out(hosts[h])
      BY <1>2, <2>1, WaitFacts
    <3>3. hosts'[h] = Wait(hosts[h], t) /\ pc'[t] = "hostQueue"
      BY <3>1 DEF CallsTypeOK
    <3>4. HoldersOf(h)' = HoldersOf(h)
      BY <1>1, <1>2, <3>3 DEF HoldersOf, HoldsHost
    <3>5. Known(hosts[h])' = {u \in Task : pc[u] = "hostQueue" /\ host[u] = h}'
      <4>1. \A u : u \in Known(hosts[h]) <=> u \in Task /\ pc[u] = "hostQueue" /\ host[u] = h
        BY <1>2 DEF HostOK
      <4>2. \A u : u \in Known(hosts[h])' <=> u = t \/ u \in Known(hosts[h])
        BY <3>2, <3>3
      <4>3. QED
        BY <1>1, <3>3, <4>1, <4>2
    <3>6. Out(hosts[h])' + Cardinality(HoldersOf(h))' = PerHost
      BY <3>2, <3>3, <3>4 DEF HostOK
    <3>7. hosts' \in [Host -> Semaphores(Task)]
      BY <3>1, <3>2 DEF CallsTypeOK, Sound
    <3>8. QED
      BY <3>2, <3>3, <3>5, <3>6, <3>7 DEF HostOK
  <2>2. CASE ~Locked(hosts[h])
    <3>1. /\ hosts' = [hosts EXCEPT ![h] = Take(hosts[h])]
          /\ pc' = [pc EXCEPT ![t] = "thread"]
      BY <2>2 DEF AcquireHost
    <3>2. /\ Sound(Take(hosts[h]), Task)
          /\ Known(Take(hosts[h])) = Known(hosts[h])
          /\ Out(Take(hosts[h])) = Out(hosts[h]) - 1
      BY <1>2, <2>2, TakeFacts, CallsAssumption
    <3>3. hosts'[h] = Take(hosts[h]) /\ pc'[t] = "thread"
      BY <3>1 DEF CallsTypeOK
    <3>4. HoldersOf(h)' = HoldersOf(h) \cup {t}
      BY <1>1, <1>2, <3>3 DEF HoldersOf, HoldsHost
    <3>5. Known(hosts[h])' = {u \in Task : pc[u] = "hostQueue" /\ host[u] = h}'
      <4>1. \A u : u \in Known(hosts[h]) <=> u \in Task /\ pc[u] = "hostQueue" /\ host[u] = h
        BY <1>2 DEF HostOK
      <4>2. QED
        BY <1>1, <3>2, <3>3, <4>1
    <3>6. Out(hosts[h])' + Cardinality(HoldersOf(h))' = PerHost
      <4>1. Cardinality(HoldersOf(h))' = Cardinality(HoldersOf(h)) + 1
        BY <1>2, <3>4, UsersChange
      <4>2. Out(hosts[h]) \in Nat /\ Cardinality(HoldersOf(h)) \in Nat
        BY <1>2, OutIsNatural, UsersChange
      <4>3. Out(hosts[h]) + Cardinality(HoldersOf(h)) = PerHost
        BY DEF HostOK
      <4>4. QED
        BY <3>2, <3>3, <4>1, <4>2, <4>3
    <3>7. hosts' \in [Host -> Semaphores(Task)]
      BY <3>1, <3>2 DEF CallsTypeOK, Sound
    <3>8. QED
      BY <3>2, <3>3, <3>5, <3>6, <3>7 DEF HostOK
  <2>3. QED
    BY <2>1, <2>2
<1>4. ASSUME NEW g \in Host, g # h PROVE HostOK(g)'
  <2>1. hosts'[g] = hosts[g]
    BY <1>4 DEF CallsTypeOK, AcquireHost
  <2>2. HoldersOf(g)' = HoldersOf(g)
    BY <1>1, <1>4 DEF HoldersOf, HoldsHost
  <2>3. Known(hosts[g])' = {u \in Task : pc[u] = "hostQueue" /\ host[u] = g}'
    <3>1. \A u : u \in Known(hosts[g]) <=> u \in Task /\ pc[u] = "hostQueue" /\ host[u] = g
      BY DEF HostOK
    <3>2. QED
      BY <1>1, <1>4, <2>1, <3>1
  <2>4. QED
    BY <2>1, <2>2, <2>3 DEF HostOK
<1>5. QED
  BY <1>1, <1>3, <1>4

\* A host's semaphore that is left alone stays sound when no task enters or
\* leaves its set of users or its queue.
LEMMA HostUntouched ==
  ASSUME NEW g \in Host, HostOK(g), hosts'[g] = hosts[g],
         \A u \in Task :
           (host[u] = g /\ pc[u] = "hostQueue")
             <=> (pc'[u] = "hostQueue" /\ host'[u] = g),
         \A u \in Task :
           (host[u] = g /\ HoldsHost(u)) <=> (host'[u] = g /\ HoldsHost(u)')
  PROVE  HostOK(g)'
<1>1. HoldersOf(g)' = HoldersOf(g)
  BY DEF HoldersOf
<1>2. \A u : u \in Known(hosts[g]) <=> u \in Task /\ pc[u] = "hostQueue" /\ host[u] = g
  BY DEF HostOK
<1>3. Known(hosts[g])' = {u \in Task : pc[u] = "hostQueue" /\ host[u] = g}'
  BY <1>2
<1>4. QED
  BY <1>1, <1>3 DEF HostOK

LEMMA GlobalUntouched ==
  ASSUME GlobalOK, global' = global,
         \A u \in Task : pc[u] = "globalQueue" <=> pc'[u] = "globalQueue",
         \A u \in Task : HoldsGlobal(u) <=> HoldsGlobal(u)'
  PROVE  GlobalOK'
<1>1. Holders' = Holders
  BY DEF Holders
<1>2. \A u : u \in Known(global) <=> u \in Task /\ pc[u] = "globalQueue"
  BY DEF GlobalOK
<1>3. Known(global') = {u \in Task : pc'[u] = "globalQueue"}
  BY <1>2
<1>4. QED
  BY <1>1, <1>3 DEF GlobalOK

LEMMA InitInv ==
  ASSUME CallsInit
  PROVE  CallsInv
<1>1. Global \in Nat /\ PerHost \in Nat
  BY CallsAssumption
<1>2. Holders = {} /\ \A h \in Host : HoldersOf(h) = {}
  BY DEF CallsInit, Holders, HoldersOf, HoldsGlobal, HoldsHost
<1>q. \A t \in Task : pc[t] = "idle"
  BY DEF CallsInit
<1>3. /\ Sound(global, Task) /\ Known(global) = {} /\ Out(global) = Global
  BY <1>1, NewFacts DEF CallsInit
<1>4. GlobalOK
  BY <1>1, <1>2, <1>q, <1>3, FS_EmptySet DEF GlobalOK
<1>5. ASSUME NEW h \in Host PROVE HostOK(h)
  <2>1. hosts[h] = NewSemaphore(PerHost)
    BY DEF CallsInit
  <2>2. Sound(hosts[h], Task) /\ Known(hosts[h]) = {} /\ Out(hosts[h]) = PerHost
    BY <1>1, <2>1, NewFacts
  <2>3. QED
    BY <1>1, <1>2, <1>q, <2>2, FS_EmptySet DEF HostOK
<1>6. CallsTypeOK
  <2>1. AnyHost \in Host
    BY CallsAssumption DEF AnyHost
  <2>2. \A h \in Host : NewSemaphore(PerHost) \in Semaphores(Task)
    BY <1>1, NewFacts DEF Sound
  <2>3. QED
    BY <1>3, <2>1, <2>2 DEF CallsTypeOK, CallsInit, Sound, Places
<1>7. QED
  BY <1>4, <1>5, <1>6 DEF CallsInv

-----------------------------------------------------------------------------
(* Every step keeps the invariant.                                         *)

LEMMA EnterInv ==
  ASSUME CallsInv, NEW t \in Task, NEW h \in Host, Enter(t, h)
  PROVE  CallsInv'
<1>1. /\ CallsTypeOK /\ GlobalOK /\ \A g \in Host : HostOK(g)
      /\ pc[t] = "idle" /\ host' = [host EXCEPT ![t] = h]
  BY DEF CallsInv, Enter
<1>2. /\ host' \in [Task -> Host] /\ host'[t] = h
      /\ \A u \in Task \ {t} : host'[u] = host[u]
  BY <1>1 DEF CallsTypeOK
<1>3. /\ Sound(global, Task) /\ t \notin Known(global)
      /\ ~HoldsGlobal(t) /\ t \notin Holders
      /\ Holders \in SUBSET Task
  BY <1>1 DEF GlobalOK, Holders, HoldsGlobal
<1>4. CASE Locked(global)
  <2>1. /\ global' = Wait(global, t) /\ hosts' = hosts
        /\ pc' = [pc EXCEPT ![t] = "globalQueue"]
    BY <1>4 DEF Enter
  <2>2. /\ pc' \in [Task -> Places] /\ pc'[t] = "globalQueue"
        /\ \A u \in Task \ {t} : pc'[u] = pc[u]
    BY <1>1, <2>1 DEF CallsTypeOK, Places
  <2>3. /\ Sound(global', Task) /\ Out(global') = Out(global)
        /\ Known(global') = Known(global) \cup {t}
    BY <1>3, <1>4, <2>1, WaitFacts
  <2>4. GlobalOK'
    <3>1. Holders' = Holders
      BY <1>1, <1>3, <2>2 DEF Holders, HoldsGlobal
    <3>2. Known(global') = {u \in Task : pc'[u] = "globalQueue"}
      <4>1. \A u : u \in Known(global) <=> u \in Task /\ pc[u] = "globalQueue"
        BY <1>1, <1>3 DEF GlobalOK
      <4>2. QED
        BY <2>2, <2>3, <4>1
    <3>3. QED
      BY <1>1, <2>3, <3>1, <3>2 DEF GlobalOK
  <2>5. ASSUME NEW g \in Host PROVE HostOK(g)'
    <3>1. \A u \in Task : (host[u] = g /\ pc[u] = "hostQueue")
                             <=> (pc'[u] = "hostQueue" /\ host'[u] = g)
      BY <1>1, <1>2, <2>2
    <3>2. \A u \in Task :
            (host[u] = g /\ HoldsHost(u)) <=> (host'[u] = g /\ HoldsHost(u)')
      BY <1>1, <1>2, <2>2 DEF HoldsHost
    <3>3. QED
      BY <1>1, <2>1, <3>1, <3>2, HostUntouched
  <2>6. CallsTypeOK'
    BY <1>1, <1>2, <2>1, <2>2, <2>3 DEF CallsTypeOK, Sound
  <2>7. QED
    BY <2>4, <2>5, <2>6 DEF CallsInv
<1>5. CASE ~Locked(global)
  <2>1. global' = Take(global) /\ AcquireHost(t, h)
    BY <1>5 DEF Enter
  <2>2. /\ pc' \in [Task -> Places] /\ pc'[t] \in {"hostQueue", "thread"}
        /\ \A u \in Task \ {t} : pc'[u] = pc[u]
        /\ hosts' \in [Host -> Semaphores(Task)]
        /\ \A g \in Host : HostOK(g)'
    BY <1>1, <1>2, <2>1, AcquireHostStep
  <2>3. /\ Sound(global', Task) /\ Known(global') = Known(global)
        /\ Out(global') = Out(global) - 1
    BY <1>3, <1>5, <2>1, TakeFacts, CallsAssumption
  <2>4. GlobalOK'
    <3>1. Holders' = Holders \cup {t}
      BY <1>1, <1>3, <2>2 DEF Holders, HoldsGlobal
    <3>2. Cardinality(Holders') = Cardinality(Holders) + 1
      BY <1>3, <3>1, UsersChange
    <3>3. Out(global) \in Nat /\ Cardinality(Holders) \in Nat
      BY <1>3, OutIsNatural, UsersChange
    <3>4. Out(global') + Cardinality(Holders') = Global
      BY <1>1, <2>3, <3>2, <3>3 DEF GlobalOK
    <3>5. Known(global') = {u \in Task : pc'[u] = "globalQueue"}
      <4>1. \A u : u \in Known(global) <=> u \in Task /\ pc[u] = "globalQueue"
        BY <1>1, <1>3 DEF GlobalOK
      <4>2. QED
        BY <1>1, <2>2, <2>3, <4>1
    <3>6. QED
      BY <2>3, <3>4, <3>5 DEF GlobalOK
  <2>5. CallsTypeOK'
    BY <1>2, <2>2, <2>3 DEF CallsTypeOK, Sound
  <2>6. QED
    BY <2>2, <2>4, <2>5 DEF CallsInv
<1>6. QED
  BY <1>4, <1>5

LEMMA ResumeGlobalInv ==
  ASSUME CallsInv, NEW t \in Task, ResumeGlobal(t)
  PROVE  CallsInv'
<1>1. /\ CallsTypeOK /\ GlobalOK /\ \A g \in Host : HostOK(g)
      /\ t \in global.granted /\ global' = Resume(global, t)
      /\ host' = host /\ host[t] \in Host /\ AcquireHost(t, host[t])
  BY DEF CallsInv, CallsTypeOK, ResumeGlobal
<1>2. /\ Sound(global, Task) /\ pc[t] = "globalQueue"
      /\ t \notin Holders /\ Holders \in SUBSET Task
  BY <1>1 DEF GlobalOK, Known, Holders, HoldsGlobal
<1>3. /\ pc' \in [Task -> Places] /\ pc'[t] \in {"hostQueue", "thread"}
      /\ \A u \in Task \ {t} : pc'[u] = pc[u]
      /\ hosts' \in [Host -> Semaphores(Task)]
      /\ \A g \in Host : HostOK(g)'
  <2>1. /\ host' \in [Task -> Host] /\ host'[t] = host[t]
        /\ \A u \in Task \ {t} : host'[u] = host[u]
        /\ pc[t] \in {"idle", "globalQueue"}
    BY <1>1, <1>2 DEF CallsTypeOK
  <2>2. QED
    BY <1>1, <2>1, AcquireHostStep
<1>4. /\ Sound(global', Task) /\ Known(global') = Known(global) \ {t}
      /\ Out(global') = Out(global) - 1
  BY <1>1, <1>2, ResumeFacts, CallsAssumption
<1>5. GlobalOK'
  <2>1. Holders' = Holders \cup {t}
    BY <1>2, <1>3 DEF Holders, HoldsGlobal
  <2>2. Cardinality(Holders') = Cardinality(Holders) + 1
    BY <1>2, <2>1, UsersChange
  <2>3. Out(global) \in Nat /\ Cardinality(Holders) \in Nat
    BY <1>2, OutIsNatural, UsersChange
  <2>4. Out(global') + Cardinality(Holders') = Global
    BY <1>1, <1>4, <2>2, <2>3 DEF GlobalOK
  <2>5. Known(global') = {u \in Task : pc'[u] = "globalQueue"}
    <3>1. \A u : u \in Known(global) <=> u \in Task /\ pc[u] = "globalQueue"
      BY <1>1 DEF GlobalOK
    <3>2. QED
      BY <1>3, <1>4, <3>1
  <2>6. QED
    BY <1>4, <2>4, <2>5 DEF GlobalOK
<1>6. CallsTypeOK'
  BY <1>1, <1>3, <1>4 DEF CallsTypeOK, Sound
<1>7. QED
  BY <1>3, <1>5, <1>6 DEF CallsInv

LEMMA ResumeHostInv ==
  ASSUME CallsInv, NEW t \in Task, ResumeHost(t)
  PROVE  CallsInv'
<1>0. PICK h \in Host : h = host[t]
  BY DEF CallsInv, CallsTypeOK
<1>1. /\ CallsTypeOK /\ GlobalOK /\ \A g \in Host : HostOK(g)
      /\ t \in hosts[h].granted /\ h = host[t]
      /\ hosts' = [hosts EXCEPT ![h] = Resume(hosts[h], t)]
      /\ pc' = [pc EXCEPT ![t] = "thread"] /\ host' = host /\ global' = global
  BY <1>0 DEF CallsInv, CallsTypeOK, ResumeHost
<1>2. /\ Sound(hosts[h], Task) /\ pc[t] = "hostQueue"
      /\ t \notin HoldersOf(h) /\ HoldersOf(h) \in SUBSET Task
  BY <1>1 DEF HostOK, Known, HoldersOf, HoldsHost
<1>3. /\ pc' \in [Task -> Places] /\ pc'[t] = "thread"
      /\ \A u \in Task \ {t} : pc'[u] = pc[u]
  BY <1>1 DEF CallsTypeOK, Places
<1>4. /\ Sound(hosts'[h], Task) /\ Known(hosts'[h]) = Known(hosts[h]) \ {t}
      /\ Out(hosts'[h]) = Out(hosts[h]) - 1
  <2>1. hosts'[h] = Resume(hosts[h], t)
    BY <1>1 DEF CallsTypeOK
  <2>2. QED
    BY <1>1, <1>2, <2>1, ResumeFacts, CallsAssumption
<1>5. GlobalOK'
  <2>1. \A u \in Task : HoldsGlobal(u) <=> HoldsGlobal(u)'
    BY <1>2, <1>3 DEF HoldsGlobal
  <2>2. \A u \in Task : pc[u] = "globalQueue" <=> pc'[u] = "globalQueue"
    BY <1>2, <1>3
  <2>3. QED
    BY <1>1, <2>1, <2>2, GlobalUntouched
<1>6. HostOK(h)'
  <2>1. HoldersOf(h)' = HoldersOf(h) \cup {t}
    BY <1>1, <1>2, <1>3 DEF HoldersOf, HoldsHost
  <2>2. Cardinality(HoldersOf(h)') = Cardinality(HoldersOf(h)) + 1
    BY <1>2, <2>1, UsersChange
  <2>3. Out(hosts[h]) \in Nat /\ Cardinality(HoldersOf(h)) \in Nat
    BY <1>2, OutIsNatural, UsersChange
  <2>4. Out(hosts'[h]) + Cardinality(HoldersOf(h)') = PerHost
    <3>1. Out(hosts[h]) + Cardinality(HoldersOf(h)) = PerHost
      BY <1>1 DEF HostOK
    <3>2. QED
      BY <1>4, <2>2, <2>3, <3>1
  <2>5. Known(hosts'[h]) = {u \in Task : pc'[u] = "hostQueue" /\ host'[u] = h}
    <3>1. \A u : u \in Known(hosts[h]) <=> u \in Task /\ pc[u] = "hostQueue" /\ host[u] = h
      BY <1>1 DEF HostOK
    <3>2. QED
      BY <1>1, <1>3, <1>4, <3>1
  <2>6. host'[t] = h
    BY <1>1
  <2>7. QED
    BY <1>1, <1>4, <2>4, <2>5, <2>6 DEF HostOK, HoldersOf, HoldsHost
<1>7. ASSUME NEW g \in Host, g # h PROVE HostOK(g)'
  <2>1. hosts'[g] = hosts[g]
    BY <1>1, <1>7 DEF CallsTypeOK
  <2>2. \A u \in Task : (host[u] = g /\ pc[u] = "hostQueue")
                           <=> (pc'[u] = "hostQueue" /\ host'[u] = g)
    BY <1>1, <1>3, <1>7
  <2>3. \A u \in Task :
          (host[u] = g /\ HoldsHost(u)) <=> (host'[u] = g /\ HoldsHost(u)')
    BY <1>1, <1>3, <1>7 DEF HoldsHost
  <2>4. QED
    BY <1>1, <2>1, <2>2, <2>3, HostUntouched
<1>8. CallsTypeOK'
  <2>1. Resume(hosts[h], t) \in Semaphores(Task)
    BY <1>1, <1>2, ResumeFacts, CallsAssumption DEF Sound
  <2>2. QED
    BY <1>1, <1>3, <2>1 DEF CallsTypeOK
<1>9. QED
  BY <1>5, <1>6, <1>7, <1>8 DEF CallsInv

LEMMA LeaveInv ==
  ASSUME CallsInv, NEW t \in Task, Leave(t)
  PROVE  CallsInv'
<1>0. PICK h \in Host : h = host[t]
  BY DEF CallsInv, CallsTypeOK
<1>1. /\ CallsTypeOK /\ GlobalOK /\ \A g \in Host : HostOK(g)
      /\ h = host[t] /\ pc[t] = "answered"
      /\ hosts' = [hosts EXCEPT ![h] = Release(hosts[h])]
      /\ global' = Release(global)
      /\ pc' = [pc EXCEPT ![t] = "reply"] /\ host' = host
  BY <1>0 DEF CallsInv, CallsTypeOK, Leave
<1>2. /\ Sound(hosts[h], Task) /\ t \in HoldersOf(h)
      /\ HoldersOf(h) \in SUBSET Task
      /\ Sound(global, Task) /\ t \in Holders /\ Holders \in SUBSET Task
  BY <1>1 DEF HostOK, GlobalOK, HoldersOf, HoldsHost, Holders, HoldsGlobal
<1>3. /\ pc' \in [Task -> Places] /\ pc'[t] = "reply"
      /\ \A u \in Task \ {t} : pc'[u] = pc[u]
  BY <1>1 DEF CallsTypeOK, Places
<1>4. /\ Sound(hosts'[h], Task) /\ Known(hosts'[h]) = Known(hosts[h])
      /\ Out(hosts'[h]) = Out(hosts[h]) + 1
  <2>1. hosts'[h] = Release(hosts[h])
    BY <1>1 DEF CallsTypeOK
  <2>2. QED
    BY <1>2, <2>1, ReleaseFacts, CallsAssumption
<1>5. /\ Sound(global', Task) /\ Known(global') = Known(global)
      /\ Out(global') = Out(global) + 1
  BY <1>1, <1>2, ReleaseFacts, CallsAssumption
<1>6. GlobalOK'
  <2>1. Holders' = Holders \ {t}
    BY <1>3 DEF Holders, HoldsGlobal
  <2>2. Cardinality(Holders') = Cardinality(Holders) - 1
    BY <1>2, <2>1, UsersChange
  <2>3. Out(global) \in Nat /\ Cardinality(Holders) \in Nat
    BY <1>2, OutIsNatural, UsersChange
  <2>4. Out(global') + Cardinality(Holders') = Global
    BY <1>1, <1>5, <2>2, <2>3 DEF GlobalOK
  <2>5. Known(global') = {u \in Task : pc'[u] = "globalQueue"}
    <3>1. \A u : u \in Known(global) <=> u \in Task /\ pc[u] = "globalQueue"
      BY <1>1 DEF GlobalOK
    <3>2. QED
      BY <1>1, <1>3, <1>5, <3>1
  <2>6. QED
    BY <1>5, <2>4, <2>5 DEF GlobalOK
<1>7. HostOK(h)'
  <2>1. HoldersOf(h)' = HoldersOf(h) \ {t}
    BY <1>1, <1>3 DEF HoldersOf, HoldsHost
  <2>2. Cardinality(HoldersOf(h)') = Cardinality(HoldersOf(h)) - 1
    BY <1>2, <2>1, UsersChange
  <2>3. Out(hosts[h]) \in Nat /\ Cardinality(HoldersOf(h)) \in Nat
    BY <1>2, OutIsNatural, UsersChange
  <2>4. Out(hosts'[h]) + Cardinality(HoldersOf(h)') = PerHost
    <3>1. Out(hosts[h]) + Cardinality(HoldersOf(h)) = PerHost
      BY <1>1 DEF HostOK
    <3>2. QED
      BY <1>4, <2>2, <2>3, <3>1
  <2>5. Known(hosts'[h]) = {u \in Task : pc'[u] = "hostQueue" /\ host'[u] = h}
    <3>1. \A u : u \in Known(hosts[h]) <=> u \in Task /\ pc[u] = "hostQueue" /\ host[u] = h
      BY <1>1 DEF HostOK
    <3>2. QED
      BY <1>1, <1>3, <1>4, <3>1
  <2>6. host'[t] = h
    BY <1>1
  <2>7. QED
    BY <1>1, <1>4, <2>4, <2>5, <2>6 DEF HostOK, HoldersOf, HoldsHost
<1>8. ASSUME NEW g \in Host, g # h PROVE HostOK(g)'
  <2>1. hosts'[g] = hosts[g]
    BY <1>1, <1>8 DEF CallsTypeOK
  <2>2. \A u \in Task : (host[u] = g /\ pc[u] = "hostQueue")
                           <=> (pc'[u] = "hostQueue" /\ host'[u] = g)
    BY <1>1, <1>3, <1>8
  <2>3. \A u \in Task :
          (host[u] = g /\ HoldsHost(u)) <=> (host'[u] = g /\ HoldsHost(u)')
    BY <1>1, <1>3, <1>8 DEF HoldsHost
  <2>4. QED
    BY <1>1, <2>1, <2>2, <2>3, HostUntouched
<1>9. CallsTypeOK'
  <2>1. Release(hosts[h]) \in Semaphores(Task)
    BY <1>2, ReleaseFacts, CallsAssumption DEF Sound
  <2>2. QED
    BY <1>1, <1>3, <1>5, <2>1 DEF CallsTypeOK, Sound
<1>10. QED
  BY <1>6, <1>7, <1>8, <1>9 DEF CallsInv

\* Answer, NoCall and Done touch no semaphore and no queue.
LEMMA OtherStepsInv ==
  ASSUME CallsInv, NEW t \in Task,
         Answer(t) \/ Done(t) \/ \E h \in Host : NoCall(t, h)
  PROVE  CallsInv'
<1>1. /\ CallsTypeOK /\ GlobalOK /\ \A g \in Host : HostOK(g)
      /\ global' = global /\ hosts' = hosts
  BY DEF CallsInv, Answer, Done, NoCall
<1>2. /\ pc' \in [Task -> Places] /\ host' \in [Task -> Host]
      /\ \A u \in Task \ {t} : pc'[u] = pc[u] /\ host'[u] = host[u]
  <2>1. AnyHost \in Host
    BY CallsAssumption DEF AnyHost
  <2>2. QED
    BY <1>1, <2>1 DEF CallsTypeOK, Places, Answer, Done, NoCall
<1>3. /\ pc[t] \in {"thread", "idle", "reply"} /\ pc'[t] \in {"answered", "idle", "reply"}
      /\ HoldsGlobal(t) <=> HoldsGlobal(t)'
      /\ HoldsHost(t) <=> HoldsHost(t)'
      /\ HoldsHost(t) => host'[t] = host[t]
  BY <1>1 DEF CallsTypeOK, Answer, Done, NoCall, HoldsGlobal, HoldsHost
<1>4. GlobalOK'
  <2>1. \A u \in Task : HoldsGlobal(u) <=> HoldsGlobal(u)'
    BY <1>2, <1>3 DEF HoldsGlobal
  <2>2. \A u \in Task : pc[u] = "globalQueue" <=> pc'[u] = "globalQueue"
    BY <1>2, <1>3
  <2>3. QED
    BY <1>1, <2>1, <2>2, GlobalUntouched
<1>5. ASSUME NEW g \in Host PROVE HostOK(g)'
  <2>1. \A u \in Task : (host[u] = g /\ pc[u] = "hostQueue")
                           <=> (pc'[u] = "hostQueue" /\ host'[u] = g)
    BY <1>2, <1>3
  <2>2. \A u \in Task :
          (host[u] = g /\ HoldsHost(u)) <=> (host'[u] = g /\ HoldsHost(u)')
    BY <1>2, <1>3 DEF HoldsHost
  <2>3. QED
    BY <1>1, <2>1, <2>2, HostUntouched
<1>6. QED
  BY <1>1, <1>2, <1>4, <1>5 DEF CallsInv, CallsTypeOK

LEMMA StutterInv ==
  ASSUME CallsInv, UNCHANGED callVars
  PROVE  CallsInv'
<1>1. pc' = pc /\ host' = host /\ global' = global /\ hosts' = hosts
  BY DEF callVars
<1>2. CallsTypeOK'
  BY <1>1 DEF CallsInv, CallsTypeOK
<1>3. GlobalOK'
  BY <1>1 DEF CallsInv, GlobalOK, Holders, HoldsGlobal
<1>4. \A g \in Host : HostOK(g)'
  BY <1>1 DEF CallsInv, HostOK, HoldersOf, HoldsHost
<1>5. QED
  BY <1>2, <1>3, <1>4 DEF CallsInv

LEMMA NextInv ==
  ASSUME CallsInv, [CallsNext]_callVars
  PROVE  CallsInv'
<1>1. CASE UNCHANGED callVars
  BY <1>1, StutterInv
<1>2. ASSUME NEW t \in Task, NEW h \in Host, Enter(t, h) PROVE CallsInv'
  BY <1>2, EnterInv
<1>3. ASSUME NEW t \in Task, NEW h \in Host, NoCall(t, h) PROVE CallsInv'
  BY <1>3, OtherStepsInv
<1>4. ASSUME NEW t \in Task, ResumeGlobal(t) PROVE CallsInv'
  BY <1>4, ResumeGlobalInv
<1>5. ASSUME NEW t \in Task, ResumeHost(t) PROVE CallsInv'
  BY <1>5, ResumeHostInv
<1>6. ASSUME NEW t \in Task, Answer(t) \/ Done(t) PROVE CallsInv'
  BY <1>6, OtherStepsInv
<1>7. ASSUME NEW t \in Task, Leave(t) PROVE CallsInv'
  BY <1>7, LeaveInv
<1>8. QED
  BY <1>1, <1>2, <1>3, <1>4, <1>5, <1>6, <1>7 DEF CallsNext

\* The invariant holds in every state of every run.
THEOREM Invariance == CallsSafety => []CallsInv
<1>1. CallsInit => CallsInv
  BY InitInv
<1>2. CallsInv /\ [CallsNext]_callVars => CallsInv'
  BY NextInv
<1>3. QED
  BY <1>1, <1>2, PTL DEF CallsSafety

-----------------------------------------------------------------------------
(* What follows for every number of tasks, hosts and permits.              *)

\* The variables keep their types: no queue holds a stranger.
THEOREM TypeCorrect == CallsSafety => []CallsTypeOK
<1>1. CallsInv => CallsTypeOK
  BY DEF CallsInv
<1>2. QED
  BY <1>1, Invariance, PTL

\* DockerService._call never loses or invents a permit (1064-1073).
THEOREM PermitsAreConserved == CallsSafety => []PermitsConserved
<1>1. CallsInv => PermitsConserved
  BY DEF CallsInv, GlobalOK, HostOK, Out, PermitsConserved
<1>2. QED
  BY <1>1, Invariance, PTL

\* At most GLOBAL_CONCURRENCY calls are admitted, and at most
\* PER_HOST_CONCURRENCY threads work on one host.
THEOREM CapsAreKept == CallsSafety => []CapsHold
<1>1. ASSUME CallsInv PROVE CapsHold
  <2>1. Cardinality(Holders) <= Global
    <3>1. Holders \in SUBSET Task /\ Sound(global, Task)
      BY <1>1 DEF Holders, CallsInv, GlobalOK
    <3>2. Cardinality(Holders) \in Nat /\ Out(global) \in Nat
      BY <3>1, UsersChange, OutIsNatural
    <3>3. Out(global) + Cardinality(Holders) = Global
      BY <1>1 DEF CallsInv, GlobalOK
    <3>4. QED
      BY <3>2, <3>3
  <2>2. ASSUME NEW h \in Host PROVE Cardinality(HoldersOf(h)) <= PerHost
    <3>1. HoldersOf(h) \in SUBSET Task /\ Sound(hosts[h], Task)
      BY <1>1 DEF HoldersOf, CallsInv, HostOK
    <3>2. Cardinality(HoldersOf(h)) \in Nat /\ Out(hosts[h]) \in Nat
      BY <3>1, UsersChange, OutIsNatural
    <3>3. Out(hosts[h]) + Cardinality(HoldersOf(h)) = PerHost
      BY <1>1 DEF CallsInv, HostOK
    <3>4. QED
      BY <3>2, <3>3
  <2>3. QED
    BY <2>1, <2>2 DEF CapsHold
<1>2. QED
  BY <1>1, Invariance, PTL

\* Nobody queues for a permit that is lying about: whenever one is free and
\* somebody waits, a woken task is about to run and pass the rest on.
THEOREM WakeupsAreKept == CallsSafety => []NoLostWakeup
<1>1. CallsInv => NoLostWakeup
  BY DEF CallsInv, GlobalOK, HostOK, Sound, Prompt, NoLostWakeup
<1>2. QED
  BY <1>1, Invariance, PTL

\* While a task queues, one that it waits for runs, be it woken or in its thread:
\* the host's permits are in use by threads, the global ones by threads or by tasks
\* that queue for hosts whose permits are.
THEOREM CallsNeverDeadlock == CallsSafety => []SomeCallProceeds
<1>1. ASSUME CallsInv, NEW g \in Host, hosts[g].queue # <<>>
      PROVE  \E v \in Task : host[v] = g /\ Proceeds(v)
  <2>1. HostOK(g)
    BY <1>1 DEF CallsInv
  <2>2. CASE hosts[g].granted # {}
    <3>1. PICK v \in hosts[g].granted : TRUE
      BY <2>2
    <3>2. v \in Task /\ host[v] = g
      BY <2>1, <3>1 DEF HostOK, Known
    <3>3. QED
      BY <3>1, <3>2 DEF Proceeds
  <2>3. CASE hosts[g].granted = {}
    <3>1. hosts[g].free = 0 /\ Cardinality(hosts[g].granted) = 0
      BY <1>1, <2>1, <2>3, FS_EmptySet DEF HostOK, Sound, Prompt
    <3>2. HoldersOf(g) # {}
      BY <2>1, <3>1, FS_EmptySet, CallsAssumption DEF HostOK, Out
    <3>3. QED
      BY <3>2 DEF HoldersOf, Proceeds
  <2>4. QED
    BY <2>2, <2>3
<1>2. ASSUME CallsInv, global.queue # <<>> \/ \E g \in Host : hosts[g].queue # <<>>
      PROVE  \E v \in Task : Proceeds(v)
  <2>1. CASE \E g \in Host : hosts[g].queue # <<>>
    BY <1>1, <1>2, <2>1
  <2>2. CASE global.granted # {}
    <3>1. PICK v \in global.granted : TRUE
      BY <2>2
    <3>2. v \in Task
      BY <1>2, <3>1 DEF CallsInv, GlobalOK, Known
    <3>3. QED
      BY <3>1, <3>2 DEF Proceeds
  <2>3. CASE global.queue # <<>> /\ global.granted = {}
    <3>1. GlobalOK
      BY <1>2 DEF CallsInv
    <3>2. global.free = 0 /\ Cardinality(global.granted) = 0
      BY <2>3, <3>1, FS_EmptySet DEF GlobalOK, Sound, Prompt
    <3>3. Holders # {}
      BY <3>1, <3>2, FS_EmptySet, CallsAssumption DEF GlobalOK, Out
    <3>4. PICK v \in Task : HoldsGlobal(v)
      BY <3>3 DEF Holders
    <3>5. CASE HoldsHost(v)
      BY <3>5 DEF Proceeds
    <3>6. CASE pc[v] = "hostQueue"
      <4>1. PICK g \in Host : g = host[v]
        BY <1>2 DEF CallsInv, CallsTypeOK
      <4>2. v \in Known(hosts[g])
        BY <1>2, <3>6, <4>1 DEF CallsInv, HostOK
      <4>3. CASE v \in hosts[g].granted
        BY <4>1, <4>3 DEF Proceeds
      <4>4. CASE v \in Served(hosts[g].queue, Len(hosts[g].queue))
        <5>1. hosts[g].queue # <<>>
          <6>1. Len(<<>>) = 0
            OBVIOUS
          <6>2. QED
            BY <4>4, <6>1 DEF Served
        <5>2. QED
          BY <1>1, <1>2, <5>1
      <4>5. QED
        BY <4>2, <4>3, <4>4 DEF Known
    <3>7. QED
      BY <3>4, <3>5, <3>6 DEF HoldsGlobal, HoldsHost
  <2>4. QED
    BY <1>2, <2>1, <2>2, <2>3
<1>3. ASSUME CallsInv PROVE SomeCallProceeds
  <2>1. ASSUME NEW s, NEW t, t \in Known(s)
        PROVE  t \in Waiters(s) \cup s.granted /\ (t \in s.granted \/ s.queue # <<>>)
    <3>1. Len(<<>>) = 0
      OBVIOUS
    <3>2. QED
      BY <2>1, <3>1 DEF Known, Served, Waiters
  <2>2. ASSUME NEW t \in Task, pc[t] = "globalQueue"
        PROVE  t \in Waiters(global) \cup global.granted /\ \E v \in Task : Proceeds(v)
    <3>1. t \in Known(global)
      BY <1>3, <2>2 DEF CallsInv, GlobalOK
    <3>2. t \in global.granted => Proceeds(t)
      BY DEF Proceeds
    <3>3. QED
      BY <1>2, <1>3, <2>1, <3>1, <3>2
  <2>3. ASSUME NEW t \in Task, pc[t] = "hostQueue"
        PROVE  /\ t \in Waiters(hosts[host[t]]) \cup hosts[host[t]].granted
               /\ \E v \in Task : host[v] = host[t] /\ Proceeds(v)
    <3>1. PICK g \in Host : g = host[t]
      BY <1>3 DEF CallsInv, CallsTypeOK
    <3>2. t \in Known(hosts[g])
      BY <1>3, <2>3, <3>1 DEF CallsInv, HostOK
    <3>3. t \in hosts[g].granted => Proceeds(t)
      BY <3>1 DEF Proceeds
    <3>4. QED
      BY <1>1, <1>3, <2>1, <3>1, <3>2, <3>3
  <2>4. QED
    BY <2>2, <2>3 DEF SomeCallProceeds
<1>4. QED
  BY <1>3, Invariance, PTL

-----------------------------------------------------------------------------
(* Every step is a step of DockerCalls or leaves its variables alone.      *)

\* The service takes and gives back permits only as _call does.
LEMMA ServiceImplementsCalls == Spec => CallsSafety
<1>1. Init => CallsInit
  BY DEF Init
<1>2. [Next]_vars => [CallsNext]_callVars
  <2> SUFFICES ASSUME [Next]_vars PROVE [CallsNext]_callVars
    OBVIOUS
  <2>1. CASE UNCHANGED vars
    BY <2>1 DEF vars, callVars
  <2>2. ASSUME NEW t \in Task, NEW h \in Host,
               Enter(t, h) \/ NoCall(t, h) PROVE CallsNext
    BY <2>2 DEF CallsNext
  <2>3. ASSUME NEW t \in Task,
               \/ ResumeGlobal(t) \/ ResumeHost(t) \/ Answer(t)
               \/ Leave(t) \/ Done(t)
        PROVE  CallsNext
    BY <2>3 DEF CallsNext
  <2>4. ASSUME NEW t \in Task, NEW h \in Host, NEW v \in View,
               ListFromCache(t, h, v) \/ ListFetch(t, h, v) \/ ActBegin(t, h)
        PROVE  CallsNext
    BY <2>2, <2>4 DEF ListFromCache, ListFetch, ActBegin
  <2>5. ASSUME NEW t \in Task, NEW h \in Host, ActBegin(t, h) PROVE CallsNext
    BY <2>2, <2>5 DEF ActBegin
  <2>6. ASSUME NEW t \in Task,
               Acquire(t) \/ Daemon(t) \/ Finish(t) \/ Reply(t)
        PROVE  CallsNext
    BY <2>3, <2>6 DEF Acquire, Daemon, Finish, Reply
  <2>7. ASSUME NEW h \in Host, NEW v \in View, Expire(h, v)
        PROVE  UNCHANGED callVars
    BY <2>7 DEF Expire
  <2>8. QED
    BY <2>1, <2>4, <2>5, <2>6, <2>7 DEF Next
<1>3. QED
  BY <1>1, <1>2, PTL DEF Spec, CallsSafety

\* What the permits guarantee, they guarantee to the service.
THEOREM ServiceKeepsCaps ==
  Spec => [](PermitsConserved /\ CapsHold /\ NoLostWakeup /\ SomeCallProceeds)
  BY ServiceImplementsCalls, PermitsAreConserved, CapsAreKept, WakeupsAreKept, CallsNeverDeadlock,
     PTL

-----------------------------------------------------------------------------
(* The cache.                                                              *)

ServiceTypes ==
  /\ world \in [Host -> Nat]
  /\ cache \in [Host -> [View -> Versions]]
  /\ want \in [Task -> Wants]
  /\ got \in [Task -> Versions]
  /\ acted \in [Host -> Nat]
  /\ floor \in [Task -> Nat]
  /\ raced \in [Task -> BOOLEAN]
  /\ tainted \in [Host -> [View -> BOOLEAN]]

\* A call that has not been served has no result.
ResultsAfterAnswers ==
  \A t \in Task : pc[t] \in {"idle", "globalQueue", "hostQueue", "thread"}
                    => got[t] = NoEntry

\* What the service was told has really happened.
NothingFromTheFuture ==
  /\ \A h \in Host : acted[h] <= world[h]
  /\ \A t \in Task : pc[t] = "answered" /\ got[t] # NoEntry
                       => got[t] <= world[host[t]]

\* A list that no action raced with is as recent as the last action.
UnracedIsRecent ==
  \A t \in Task :
    pc[t] = "answered" /\ want[t] \in View /\ got[t] # NoEntry /\ ~raced[t]
      => got[t] >= acted[host[t]]

CacheInv ==
  /\ CallsTypeOK /\ ServiceTypes
  /\ ResultsAfterAnswers /\ NothingFromTheFuture /\ UnracedIsRecent
  /\ StaleOnlyIfRaced

\* Only t's place and host change when it enters, and it has not been served.
LEMMA EnterEffect ==
  ASSUME CallsTypeOK, NEW t \in Task, NEW h \in Host, Enter(t, h)
  PROVE  /\ pc[t] = "idle" /\ pc'[t] \in {"globalQueue", "hostQueue", "thread"}
         /\ \A u \in Task \ {t} : pc'[u] = pc[u] /\ host'[u] = host[u]
  BY DEF CallsTypeOK, Enter, AcquireHost

LEMMA NoCallEffect ==
  ASSUME CallsTypeOK, NEW t \in Task, NEW h \in Host, NoCall(t, h)
  PROVE  /\ pc[t] = "idle" /\ pc'[t] = "reply"
         /\ \A u \in Task \ {t} : pc'[u] = pc[u] /\ host'[u] = host[u]
  BY DEF CallsTypeOK, NoCall

\* A request that begins touches only what its own task remembers.
LEMMA BeginKeeps ==
  ASSUME CacheInv, CallsTypeOK', NEW t \in Task, NEW h \in Host, NEW w \in Wants,
         Begin(t, h, w), UNCHANGED <<world, cache, acted, tainted>>,
         got' \in [Task -> Versions],
         \A u \in Task \ {t} :
           pc'[u] = pc[u] /\ host'[u] = host[u] /\ got'[u] = got[u],
         \/ pc'[t] \in {"globalQueue", "hostQueue", "thread"} /\ got'[t] = NoEntry
         \/ pc'[t] = "reply"
  PROVE  CacheInv'
<1>1. /\ CallsTypeOK /\ ServiceTypes
      /\ ResultsAfterAnswers /\ NothingFromTheFuture /\ UnracedIsRecent
      /\ StaleOnlyIfRaced
  BY DEF CacheInv
<1>2. /\ want' = [want EXCEPT ![t] = w] /\ floor' = [floor EXCEPT ![t] = acted[h]]
      /\ raced' = [raced EXCEPT ![t] = FALSE]
  BY DEF Begin
<1>3. ServiceTypes'
  BY <1>1, <1>2 DEF ServiceTypes
<1>4. pc'[t] # "answered" /\ (pc'[t] = "reply" \/ got'[t] = NoEntry)
      /\ pc'[t] # "idle"
  OBVIOUS
<1>5. ResultsAfterAnswers'
  BY <1>1, <1>4 DEF ResultsAfterAnswers
<1>6. NothingFromTheFuture'
  BY <1>1, <1>4 DEF NothingFromTheFuture
<1>7. UnracedIsRecent'
  <2>1. \A u \in Task \ {t} : want'[u] = want[u] /\ raced'[u] = raced[u]
    BY <1>1, <1>2 DEF ServiceTypes
  <2>2. QED
    BY <1>1, <1>4, <2>1 DEF UnracedIsRecent
<1>8. StaleOnlyIfRaced'
  BY <1>1 DEF StaleOnlyIfRaced
<1>9. QED
  BY <1>3, <1>5, <1>6, <1>7, <1>8 DEF CacheInv

LEMMA EnterKeeps ==
  ASSUME CacheInv, CallsTypeOK', NEW t \in Task, NEW h \in Host, NEW w \in Wants,
         Begin(t, h, w), Enter(t, h),
         UNCHANGED <<world, cache, got, acted, tainted>>
  PROVE  CacheInv'
<1>1. CallsTypeOK /\ ServiceTypes /\ ResultsAfterAnswers
  BY DEF CacheInv
<1>2. /\ pc[t] = "idle" /\ pc'[t] \in {"globalQueue", "hostQueue", "thread"}
      /\ \A u \in Task \ {t} : pc'[u] = pc[u] /\ host'[u] = host[u]
  BY <1>1, EnterEffect
<1>3. got' \in [Task -> Versions] /\ got'[t] = NoEntry /\ got' = got
  BY <1>1, <1>2 DEF ServiceTypes, ResultsAfterAnswers
<1>4. QED
  BY <1>2, <1>3, BeginKeeps

LEMMA ActBeginKeeps ==
  ASSUME CacheInv, CallsTypeOK', NEW t \in Task, NEW h \in Host, ActBegin(t, h)
  PROVE  CacheInv'
  BY EnterKeeps DEF ActBegin, Wants

LEMMA RequestsKeep ==
  ASSUME CacheInv, CallsTypeOK', NEW t \in Task, NEW h \in Host, NEW v \in View,
         ListFromCache(t, h, v) \/ ListFetch(t, h, v)
  PROVE  CacheInv'
<1>1. CallsTypeOK /\ ServiceTypes /\ ResultsAfterAnswers
  BY DEF CacheInv
<1>2. v \in Wants
  BY DEF Wants
<1>3. CASE ListFromCache(t, h, v)
  <2>1. /\ Begin(t, h, v) /\ NoCall(t, h) /\ got' = [got EXCEPT ![t] = cache[h][v]]
        /\ UNCHANGED <<world, cache, acted, tainted>>
    BY <1>3 DEF ListFromCache
  <2>2. /\ got' \in [Task -> Versions]
        /\ \A u \in Task \ {t} : got'[u] = got[u]
    BY <1>1, <2>1 DEF ServiceTypes
  <2>3. /\ pc'[t] = "reply"
        /\ \A u \in Task \ {t} : pc'[u] = pc[u] /\ host'[u] = host[u]
    BY <1>1, <2>1, NoCallEffect
  <2>4. QED
    BY <1>2, <2>1, <2>2, <2>3, BeginKeeps
<1>4. CASE ListFetch(t, h, v)
  BY <1>2, <1>4, EnterKeeps DEF ListFetch
<1>5. QED
  BY <1>3, <1>4

LEMMA AcquireKeeps ==
  ASSUME CacheInv, CallsTypeOK', NEW t \in Task, Acquire(t), CallsInv
  PROVE  CacheInv'
<1>1. /\ CallsTypeOK /\ ServiceTypes
      /\ ResultsAfterAnswers /\ NothingFromTheFuture /\ UnracedIsRecent
      /\ StaleOnlyIfRaced /\ UNCHANGED serviceVars /\ host' = host
  BY DEF CacheInv, Acquire, ResumeGlobal, ResumeHost
<1>2. /\ pc[t] \in {"globalQueue", "hostQueue"}
      /\ pc'[t] \in {"hostQueue", "thread"}
      /\ \A u \in Task \ {t} : pc'[u] = pc[u]
  <2>1. CASE ResumeGlobal(t)
    <3>1. pc[t] = "globalQueue"
      BY <2>1 DEF CallsInv, GlobalOK, Known, ResumeGlobal
    <3>2. QED
      BY <1>1, <2>1, <3>1 DEF ResumeGlobal, AcquireHost, CallsTypeOK
  <2>2. CASE ResumeHost(t)
    <3>1. pc[t] = "hostQueue"
      BY <1>1, <2>2 DEF CallsInv, CallsTypeOK, HostOK, Known, ResumeHost
    <3>2. QED
      BY <1>1, <2>2, <3>1 DEF ResumeHost, CallsTypeOK
  <2>3. QED
    BY <2>1, <2>2 DEF Acquire
<1>3. /\ UNCHANGED <<world, cache, want, got, acted>>
      /\ UNCHANGED <<floor, raced, tainted>>
  BY <1>1 DEF serviceVars
<1>4. ServiceTypes'
  BY <1>1, <1>3 DEF ServiceTypes
<1>5. ResultsAfterAnswers'
  BY <1>1, <1>2, <1>3 DEF ResultsAfterAnswers
<1>6. NothingFromTheFuture'
  BY <1>1, <1>2, <1>3 DEF NothingFromTheFuture
<1>7. UnracedIsRecent'
  BY <1>1, <1>2, <1>3 DEF UnracedIsRecent
<1>8. StaleOnlyIfRaced'
  BY <1>1, <1>3 DEF StaleOnlyIfRaced
<1>9. QED
  BY <1>4, <1>5, <1>6, <1>7, <1>8 DEF CacheInv

LEMMA DaemonKeeps ==
  ASSUME CacheInv, CallsTypeOK', NEW t \in Task, Daemon(t)
  PROVE  CacheInv'
<1>1. /\ CallsTypeOK /\ ServiceTypes
      /\ ResultsAfterAnswers /\ NothingFromTheFuture /\ UnracedIsRecent
      /\ StaleOnlyIfRaced
  BY DEF CacheInv
<1>2. /\ pc[t] = "thread" /\ pc' = [pc EXCEPT ![t] = "answered"]
      /\ host' = host /\ UNCHANGED <<cache, want, acted, floor, raced, tainted>>
      /\ got[t] = NoEntry
  BY <1>1 DEF Daemon, Answer, ResultsAfterAnswers
<1>3. PICK h \in Host : h = host[t]
  BY <1>1 DEF CallsTypeOK
<1>4. /\ world' \in [Host -> Nat] /\ got' \in [Task -> Versions]
      /\ \A g \in Host : world'[g] >= world[g]
      /\ \A u \in Task \ {t} : got'[u] = got[u]
      /\ got'[t] # NoEntry => got'[t] = world'[h]
  <2>1. CASE got' = [got EXCEPT ![t] = world[h]] /\ world' = world
    BY <1>1, <2>1 DEF ServiceTypes, Versions
  <2>2. CASE got' = [got EXCEPT ![t] = world'[h]] /\ world' = [world EXCEPT ![h] = @ + 1]
    <3>1. /\ world' \in [Host -> Nat]
          /\ \A g \in Host : world'[g] >= world[g]
      BY <1>1, <2>2 DEF ServiceTypes
    <3>2. QED
      BY <1>1, <2>2, <3>1 DEF ServiceTypes, Versions
  <2>3. CASE got' = got /\ world' = [world EXCEPT ![h] = @ + 1]
    BY <1>1, <1>2, <2>3 DEF ServiceTypes
  <2>4. CASE got' = got /\ world' = world
    BY <1>1, <1>2, <2>4 DEF ServiceTypes
  <2>5. QED
    BY <1>3, <2>1, <2>2, <2>3, <2>4 DEF Daemon
<1>5. /\ pc'[t] = "answered" /\ \A u \in Task \ {t} : pc'[u] = pc[u]
  BY <1>1, <1>2 DEF CallsTypeOK
<1>6. ServiceTypes'
  BY <1>1, <1>2, <1>4 DEF ServiceTypes
<1>7. ResultsAfterAnswers'
  BY <1>1, <1>4, <1>5 DEF ResultsAfterAnswers
<1>8. NothingFromTheFuture'
  <2>1. ASSUME NEW g \in Host PROVE acted'[g] <= world'[g]
    <3>1. acted[g] \in Nat /\ world[g] \in Nat /\ world'[g] \in Nat
      BY <1>1, <1>4 DEF ServiceTypes
    <3>2. acted[g] <= world[g] /\ world'[g] >= world[g]
      BY <1>1, <1>4 DEF NothingFromTheFuture
    <3>3. QED
      BY <1>2, <3>1, <3>2
  <2>2. ASSUME NEW u \in Task, pc'[u] = "answered", got'[u] # NoEntry
        PROVE  got'[u] <= world'[host'[u]]
    <3>1. CASE u = t
      <4>1. world'[h] \in Nat /\ got'[t] = world'[h]
        BY <1>4, <2>2, <3>1
      <4>2. QED
        BY <1>2, <1>3, <3>1, <4>1
    <3>2. CASE u # t
      <4>1. /\ host[u] \in Host /\ got[u] \in Nat
            /\ world[host[u]] \in Nat /\ world'[host[u]] \in Nat
        BY <1>1, <1>4, <2>2, <3>2 DEF ServiceTypes, Versions, CallsTypeOK
      <4>2. got[u] <= world[host[u]] /\ world'[host[u]] >= world[host[u]]
        BY <1>1, <1>4, <1>5, <2>2, <3>2, <4>1 DEF NothingFromTheFuture
      <4>3. QED
        BY <1>2, <1>4, <3>2, <4>1, <4>2
    <3>3. QED
      BY <3>1, <3>2
  <2>3. QED
    BY <2>1, <2>2 DEF NothingFromTheFuture
<1>9. UnracedIsRecent'
  <2>1. ASSUME NEW u \in Task, pc'[u] = "answered", want'[u] \in View,
               got'[u] # NoEntry, ~raced'[u]
        PROVE  got'[u] >= acted'[host'[u]]
    <3>1. CASE u = t
      BY <1>2, <1>3, <1>4, <1>8, <2>1, <3>1, <1>6 DEF NothingFromTheFuture, ServiceTypes
    <3>2. CASE u # t
      BY <1>1, <1>2, <1>4, <1>5, <2>1, <3>2 DEF UnracedIsRecent
    <3>3. QED
      BY <3>1, <3>2
  <2>2. QED
    BY <2>1 DEF UnracedIsRecent
<1>10. StaleOnlyIfRaced'
  BY <1>1, <1>2 DEF StaleOnlyIfRaced
<1>11. QED
  BY <1>6, <1>7, <1>8, <1>9, <1>10 DEF CacheInv

LEMMA FinishKeeps ==
  ASSUME CacheInv, CallsTypeOK', NEW t \in Task, Finish(t)
  PROVE  CacheInv'
<1>1. /\ CallsTypeOK /\ ServiceTypes
      /\ ResultsAfterAnswers /\ NothingFromTheFuture /\ UnracedIsRecent
      /\ StaleOnlyIfRaced
  BY DEF CacheInv
<1>2. /\ pc[t] = "answered" /\ pc' = [pc EXCEPT ![t] = "reply"]
      /\ host' = host /\ UNCHANGED <<world, want, got, floor>>
  BY DEF Finish, Leave
<1>3. PICK h \in Host : h = host[t]
  BY <1>1 DEF CallsTypeOK
<1>4. pc'[t] = "reply" /\ \A u \in Task \ {t} : pc'[u] = pc[u]
  BY <1>1, <1>2 DEF CallsTypeOK
<1>5. ResultsAfterAnswers'
  BY <1>1, <1>2, <1>4 DEF ResultsAfterAnswers
<1>6. ASSUME UNCHANGED <<acted, raced>>
      PROVE  NothingFromTheFuture' /\ UnracedIsRecent'
  <2>1. NothingFromTheFuture'
    BY <1>1, <1>2, <1>4, <1>6 DEF NothingFromTheFuture
  <2>2. UnracedIsRecent'
    BY <1>1, <1>2, <1>4, <1>6 DEF UnracedIsRecent
  <2>3. QED
    BY <2>1, <2>2
<1>7. CASE /\ want[t] \in View /\ got[t] # NoEntry
           /\ cache' = [cache EXCEPT ![h][want[t]] = got[t]]
           /\ tainted' = [tainted EXCEPT ![h][want[t]] = raced[t]]
           /\ UNCHANGED <<acted, raced>>
  <2>1. ServiceTypes'
    BY <1>1, <1>2, <1>7 DEF ServiceTypes
  <2>2. StaleOnlyIfRaced'
    <3>1. ASSUME NEW g \in Host, NEW v \in View,
                 cache'[g][v] # NoEntry, ~tainted'[g][v]
          PROVE  cache'[g][v] >= acted'[g]
      <4>1. CASE g = h /\ v = want[t]
        <5>1. cache'[g][v] = got[t] /\ tainted'[g][v] = raced[t]
          BY <1>1, <1>7, <4>1 DEF ServiceTypes
        <5>2. QED
          BY <1>1, <1>2, <1>3, <1>7, <3>1, <4>1, <5>1 DEF UnracedIsRecent
      <4>2. CASE ~(g = h /\ v = want[t])
        <5>1. cache'[g][v] = cache[g][v] /\ tainted'[g][v] = tainted[g][v]
          BY <1>1, <1>7, <4>2 DEF ServiceTypes
        <5>2. QED
          BY <1>1, <1>7, <3>1, <5>1 DEF StaleOnlyIfRaced
      <4>3. QED
        BY <4>1, <4>2
    <3>2. QED
      BY <3>1 DEF StaleOnlyIfRaced
  <2>3. QED
    BY <1>5, <1>6, <1>7, <2>1, <2>2 DEF CacheInv
<1>8. CASE /\ want[t] = "act" /\ got[t] # NoEntry
           /\ cache' = [cache EXCEPT ![h] = [v \in View |-> NoEntry]]
           /\ tainted' = [tainted EXCEPT ![h] = [v \in View |-> FALSE]]
           /\ acted' = [acted EXCEPT ![h] = IF got[t] > @ THEN got[t] ELSE @]
           /\ raced' = [u \in Task |-> raced[u] \/ (InFlight(u) /\ host[u] = h)]
  <2>1. got[t] \in Nat /\ got[t] <= world[h]
    BY <1>1, <1>2, <1>3, <1>8 DEF ServiceTypes, Versions, NothingFromTheFuture
  <2>2. /\ acted' \in [Host -> Nat] /\ acted'[h] \in {acted[h], got[t]}
        /\ \A g \in Host \ {h} : acted'[g] = acted[g]
    BY <1>1, <1>8, <2>1 DEF ServiceTypes
  <2>3. ServiceTypes'
    <3>1. raced' \in [Task -> BOOLEAN]
      BY <1>8
    <3>2. NoEntry \in Versions
      BY DEF Versions
    <3>3. QED
      BY <1>1, <1>2, <1>8, <2>2, <3>1, <3>2 DEF ServiceTypes
  <2>4. NothingFromTheFuture'
    <3>1. \A g \in Host : acted'[g] <= world'[g]
      BY <1>1, <1>2, <2>1, <2>2 DEF NothingFromTheFuture
    <3>2. QED
      BY <1>1, <1>2, <1>4, <3>1 DEF NothingFromTheFuture
  <2>5. UnracedIsRecent'
    <3>1. ASSUME NEW u \in Task, pc'[u] = "answered", want'[u] \in View,
                 got'[u] # NoEntry, ~raced'[u]
          PROVE  got'[u] >= acted'[host'[u]]
      <4>1. u # t /\ pc[u] = "answered" /\ host[u] \in Host
        BY <1>1, <1>4, <3>1 DEF CallsTypeOK
      <4>2. ~raced[u] /\ host[u] # h
        BY <1>8, <3>1, <4>1 DEF InFlight
      <4>3. QED
        BY <1>1, <1>2, <2>2, <3>1, <4>1, <4>2 DEF UnracedIsRecent
    <3>2. QED
      BY <3>1 DEF UnracedIsRecent
  <2>6. StaleOnlyIfRaced'
    <3>1. ASSUME NEW g \in Host, NEW v \in View,
                 cache'[g][v] # NoEntry, ~tainted'[g][v]
          PROVE  cache'[g][v] >= acted'[g]
      <4>1. g # h
        BY <1>1, <1>8, <3>1 DEF ServiceTypes
      <4>2. cache'[g][v] = cache[g][v] /\ tainted'[g][v] = tainted[g][v]
        BY <1>1, <1>8, <4>1 DEF ServiceTypes
      <4>3. QED
        BY <1>1, <2>2, <3>1, <4>1, <4>2 DEF StaleOnlyIfRaced
    <3>2. QED
      BY <3>1 DEF StaleOnlyIfRaced
  <2>7. QED
    BY <1>5, <2>3, <2>4, <2>5, <2>6 DEF CacheInv
<1>9. CASE got[t] = NoEntry /\ UNCHANGED <<cache, tainted, acted, raced>>
  <2>1. ServiceTypes'
    BY <1>1, <1>2, <1>9 DEF ServiceTypes
  <2>2. StaleOnlyIfRaced'
    BY <1>1, <1>9 DEF StaleOnlyIfRaced
  <2>3. QED
    BY <1>5, <1>6, <1>9, <2>1, <2>2 DEF CacheInv
<1>10. QED
  BY <1>3, <1>7, <1>8, <1>9 DEF Finish

LEMMA ReplyKeeps ==
  ASSUME CacheInv, CallsTypeOK', NEW t \in Task, Reply(t)
  PROVE  CacheInv'
<1>1. /\ CallsTypeOK /\ ServiceTypes
      /\ ResultsAfterAnswers /\ NothingFromTheFuture /\ UnracedIsRecent
      /\ StaleOnlyIfRaced
  BY DEF CacheInv
<1>2. /\ pc' = [pc EXCEPT ![t] = "idle"] /\ host' = [host EXCEPT ![t] = AnyHost]
      /\ want' = [want EXCEPT ![t] = "act"] /\ got' = [got EXCEPT ![t] = NoEntry]
      /\ floor' = [floor EXCEPT ![t] = 0] /\ raced' = [raced EXCEPT ![t] = FALSE]
      /\ UNCHANGED <<world, cache, acted, tainted>>
  BY DEF Reply, Done
<1>3. /\ pc'[t] = "idle" /\ got'[t] = NoEntry
      /\ \A u \in Task \ {t} :
           /\ pc'[u] = pc[u] /\ host'[u] = host[u] /\ got'[u] = got[u]
           /\ want'[u] = want[u] /\ raced'[u] = raced[u]
  BY <1>1, <1>2 DEF CallsTypeOK, ServiceTypes
<1>4. ServiceTypes'
  <2>1. NoEntry \in Versions /\ "act" \in Wants /\ 0 \in Nat
    BY DEF Versions, Wants
  <2>2. QED
    BY <1>1, <1>2, <2>1 DEF ServiceTypes
<1>5. ResultsAfterAnswers'
  BY <1>1, <1>3 DEF ResultsAfterAnswers
<1>6. NothingFromTheFuture'
  BY <1>1, <1>2, <1>3 DEF NothingFromTheFuture
<1>7. UnracedIsRecent'
  BY <1>1, <1>2, <1>3 DEF UnracedIsRecent
<1>8. StaleOnlyIfRaced'
  BY <1>1, <1>2 DEF StaleOnlyIfRaced
<1>9. QED
  BY <1>4, <1>5, <1>6, <1>7, <1>8 DEF CacheInv

LEMMA ExpireKeeps ==
  ASSUME CacheInv, CallsTypeOK', NEW h \in Host, NEW v \in View, Expire(h, v)
  PROVE  CacheInv'
<1>1. /\ CallsTypeOK /\ ServiceTypes
      /\ ResultsAfterAnswers /\ NothingFromTheFuture /\ UnracedIsRecent
      /\ StaleOnlyIfRaced
  BY DEF CacheInv
<1>2. /\ cache' = [cache EXCEPT ![h][v] = NoEntry]
      /\ tainted' = [tainted EXCEPT ![h][v] = FALSE]
      /\ UNCHANGED <<pc, host, world, want, got, acted, floor, raced>>
  BY DEF Expire, callVars
<1>3. ServiceTypes'
  <2>1. NoEntry \in Versions
    BY DEF Versions
  <2>2. QED
    BY <1>1, <1>2, <2>1 DEF ServiceTypes
<1>4. ResultsAfterAnswers' /\ NothingFromTheFuture' /\ UnracedIsRecent'
  BY <1>1, <1>2 DEF ResultsAfterAnswers, NothingFromTheFuture, UnracedIsRecent
<1>5. StaleOnlyIfRaced'
  <2>1. ASSUME NEW g \in Host, NEW w \in View,
               cache'[g][w] # NoEntry, ~tainted'[g][w]
        PROVE  cache'[g][w] >= acted'[g]
    <3>1. ~(g = h /\ w = v)
      BY <1>1, <1>2, <2>1 DEF ServiceTypes
    <3>2. cache'[g][w] = cache[g][w] /\ tainted'[g][w] = tainted[g][w]
      BY <1>1, <1>2, <3>1 DEF ServiceTypes
    <3>3. QED
      BY <1>1, <1>2, <2>1, <3>2 DEF StaleOnlyIfRaced
  <2>2. QED
    BY <2>1 DEF StaleOnlyIfRaced
<1>6. QED
  BY <1>3, <1>4, <1>5 DEF CacheInv

\* The calls' invariant says where a woken task was queueing; with it, every
\* step keeps the cache's.
THEOREM CacheInvariance == Spec => []CacheInv
<1>1. Init => CacheInv
  <2> SUFFICES ASSUME Init PROVE CacheInv
    OBVIOUS
  <2>1. CallsTypeOK
    BY InitInv DEF Init, CallsInv
  <2>2. ServiceTypes
    BY DEF Init, ServiceTypes, Versions, Wants
  <2>3. ResultsAfterAnswers /\ NothingFromTheFuture /\ UnracedIsRecent
    BY DEF Init, ResultsAfterAnswers, NothingFromTheFuture, UnracedIsRecent
  <2>4. StaleOnlyIfRaced
    BY DEF Init, StaleOnlyIfRaced
  <2>5. QED
    BY <2>1, <2>2, <2>3, <2>4 DEF CacheInv
<1>2. CacheInv /\ CallsInv /\ CallsInv' /\ [Next]_vars => CacheInv'
  <2> SUFFICES ASSUME CacheInv, CallsInv, CallsInv', [Next]_vars
               PROVE  CacheInv'
    OBVIOUS
  <2>1. CallsTypeOK'
    BY DEF CallsInv
  <2>2. CASE UNCHANGED vars
    BY <2>1, <2>2 DEF vars, CacheInv, ServiceTypes, ResultsAfterAnswers,
                      NothingFromTheFuture, UnracedIsRecent, StaleOnlyIfRaced
  <2>3. ASSUME NEW t \in Task, NEW h \in Host, NEW v \in View,
               ListFromCache(t, h, v) \/ ListFetch(t, h, v)
        PROVE  CacheInv'
    BY <2>1, <2>3, RequestsKeep
  <2>4. ASSUME NEW t \in Task, NEW h \in Host, ActBegin(t, h)
        PROVE  CacheInv'
    BY <2>1, <2>4, ActBeginKeeps
  <2>5. ASSUME NEW t \in Task, Acquire(t) PROVE CacheInv'
    BY <2>1, <2>5, AcquireKeeps
  <2>6. ASSUME NEW t \in Task, Daemon(t) PROVE CacheInv'
    BY <2>1, <2>6, DaemonKeeps
  <2>7. ASSUME NEW t \in Task, Finish(t) PROVE CacheInv'
    BY <2>1, <2>7, FinishKeeps
  <2>8. ASSUME NEW t \in Task, Reply(t) PROVE CacheInv'
    BY <2>1, <2>8, ReplyKeeps
  <2>9. ASSUME NEW h \in Host, NEW v \in View, Expire(h, v) PROVE CacheInv'
    BY <2>1, <2>9, ExpireKeeps
  <2>10. QED
    BY <2>2, <2>3, <2>4, <2>5, <2>6, <2>7, <2>8, <2>9 DEF Next
<1>3. QED
  BY <1>1, <1>2, ServiceImplementsCalls, Invariance, PTL DEF Spec

\* The variables keep their types.
THEOREM ServiceTypeCorrect == Spec => []TypeOK
<1>1. CacheInv => TypeOK
  BY DEF CacheInv, ServiceTypes, TypeOK
<1>2. QED
  BY <1>1, CacheInvariance, PTL

\* A container list older than the last successful action was being fetched
\* while that action succeeded: the invalidation misses no other entry.
THEOREM StaleListsAreRaced == Spec => []StaleOnlyIfRaced
<1>1. CacheInv => StaleOnlyIfRaced
  BY DEF CacheInv
<1>2. QED
  BY <1>1, CacheInvariance, PTL
=============================================================================
