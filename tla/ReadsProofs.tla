----------------------------- MODULE ReadsProofs -----------------------------
(***************************************************************************)
(* What holds of the gateway's reads, for every number of users, requests, *)
(* polls, checks and lines: the saved filter sets are FilterBoard's, and   *)
(* each other part of GatewayReads keeps its invariant in the behaviours   *)
(* that are about it.                                                      *)
(***************************************************************************)
EXTENDS GatewayReads, Integers, FiniteSetTheorems, TLAPS

-----------------------------------------------------------------------------
(* Saved filter sets: FilterSets implements FilterBoard.                   *)

\* What the request in progress read.
Read == IF blind THEN Board!Empty ELSE file.sets

\* The list about to be written is what the request read with its one change,
\* and the file has not moved since: nothing awaits between the two (116-142).
StoreInv ==
  /\ TypeOK
  /\ temp = "none" => ~blind
  /\ temp # "none" => Board!Allowed(Read, pending)

LEMMA EmptyIsSlots == Board!Empty \in Board!Slots
  BY DEF Board!Empty, Board!Slots

LEMMA ReadIsSlots ==
  ASSUME TypeOK, NEW ok \in BOOLEAN
  PROVE  ReadAll(ok) \in Board!Slots
  BY EmptyIsSlots DEF TypeOK, ReadAll

LEMMA SetIsRecord ==
  ASSUME NEW u \in User, NEW shared \in BOOLEAN, NEW f \in Filters
  PROVE  Set(u, shared, f) \in Board!Record /\ Set(u, shared, f).owner = u
  BY DEF Set, Board!Record

\* A mutation that keeps to the rules leaves a list that may be written.
LEMMA MutationStarts ==
  ASSUME StoreInv, NEW ok \in BOOLEAN, NEW new,
         Mutate(ok, new), new \in Board!Slots, Board!Allowed(ReadAll(ok), new)
  PROVE  StoreInv'
  <1>1. TypeOK' BY DEF Mutate, StoreInv, TypeOK
  <1>2. Read' = ReadAll(ok) BY DEF Mutate, Read, ReadAll
  <1>3. Board!Allowed(Read, pending)' BY <1>2 DEF Mutate, Board!Allowed, Board!Created,
        Board!Updated, Board!Deleted, Board!Record
  <1> QED BY <1>1, <1>3 DEF StoreInv, Mutate

LEMMA CreateStarts ==
  ASSUME StoreInv, NEW u \in User, NEW id \in Id, NEW r \in Board!Record, r.owner = u,
         NEW ok \in BOOLEAN, Create(u, id, r, ok)
  PROVE  StoreInv'
  <1> DEFINE new == [ReadAll(ok) EXCEPT ![id] = r]
  <1>1. ReadAll(ok) \in Board!Slots BY ReadIsSlots DEF StoreInv
  <1>2. new \in Board!Slots BY <1>1 DEF Board!Slots
  <1>3. ReadAll(ok)[id] = NoSet BY DEF Create, ReadAll, Board!Empty
  <1>4. Board!Created(u, id, ReadAll(ok), new) BY <1>3 DEF Board!Created
  <1>5. Board!Allowed(ReadAll(ok), new) BY <1>4 DEF Board!Allowed
  <1>6. Mutate(ok, new) BY DEF Create
  <1> HIDE DEF new
  <1> QED BY <1>2, <1>5, <1>6, MutationStarts

LEMMA UpdateStarts ==
  ASSUME StoreInv, NEW u \in User, NEW id \in Id, NEW r \in Board!Record, r.owner = u,
         NEW ok \in BOOLEAN, Update(u, id, r, ok)
  PROVE  StoreInv'
  <1> DEFINE new == [ReadAll(ok) EXCEPT ![id] = r]
  <1>1. ReadAll(ok) \in Board!Slots BY ReadIsSlots DEF StoreInv
  <1>2. new \in Board!Slots BY <1>1 DEF Board!Slots
  <1>3. Board!Updated(u, id, ReadAll(ok), new) BY DEF Board!Updated, Update
  <1>4. Board!Allowed(ReadAll(ok), new) BY <1>3 DEF Board!Allowed
  <1>5. Mutate(ok, new) BY DEF Update
  <1> HIDE DEF new
  <1> QED BY <1>2, <1>4, <1>5, MutationStarts

LEMMA DeleteStarts ==
  ASSUME StoreInv, NEW u \in User, NEW id \in Id, NEW ok \in BOOLEAN, Delete(u, id, ok)
  PROVE  StoreInv'
  <1> DEFINE new == [ReadAll(ok) EXCEPT ![id] = NoSet]
  <1>1. ReadAll(ok) \in Board!Slots BY ReadIsSlots DEF StoreInv
  <1>2. new \in Board!Slots BY <1>1 DEF Board!Slots
  <1>3. Board!Deleted(u, id, ReadAll(ok), new) BY DEF Board!Deleted, Delete
  <1>4. Board!Allowed(ReadAll(ok), new) BY <1>3 DEF Board!Allowed
  <1>5. Mutate(ok, new) BY DEF Delete
  <1> HIDE DEF new
  <1> QED BY <1>2, <1>4, <1>5, MutationStarts

LEMMA WriteEnds ==
  ASSUME TypeOK, EndWrite, file' \in [whole : BOOLEAN, sets : Board!Slots],
         writable' \in BOOLEAN
  PROVE  StoreInv'
  BY EmptyIsSlots DEF EndWrite, StoreInv, TypeOK

LEMMA StoreInvInit ==
  ASSUME Init
  PROVE  StoreInv
  BY EmptyIsSlots DEF Init, StoreInv, TypeOK

LEMMA StoreInvStep ==
  ASSUME StoreInv, [Next]_vars
  PROVE  StoreInv'
  <1>1. ASSUME NEW u \in User, NEW id \in Id, NEW ok \in BOOLEAN, NEW shared \in BOOLEAN,
               NEW f \in Filters, Create(u, id, Set(u, shared, f), ok)
        PROVE  StoreInv'
        BY <1>1, SetIsRecord, CreateStarts
  <1>2. ASSUME NEW u \in User, NEW id \in Id, NEW ok \in BOOLEAN, NEW shared \in BOOLEAN,
               NEW f \in Filters, Update(u, id, Set(u, shared, f), ok)
        PROVE  StoreInv'
        BY <1>2, SetIsRecord, UpdateStarts
  <1>3. ASSUME NEW u \in User, NEW id \in Id, NEW ok \in BOOLEAN, Delete(u, id, ok)
        PROVE  StoreInv'
        BY <1>3, DeleteStarts
  <1>4. CASE Dump
    <2>1. TypeOK' BY <1>4 DEF Dump, StoreInv, TypeOK
    <2>2. Board!Allowed(Read, pending)'
          BY <1>4 DEF Dump, StoreInv, Read, Board!Allowed, Board!Created, Board!Updated,
             Board!Deleted, Board!Record
    <2> QED BY <1>4, <2>1, <2>2 DEF Dump, StoreInv
  <1>5. CASE Replace BY <1>5, WriteEnds DEF Replace, StoreInv, TypeOK
  <1>6. CASE WriteFails BY <1>6, WriteEnds DEF WriteFails, StoreInv, TypeOK
  <1>7. CASE Crash BY <1>7, WriteEnds DEF Crash, StoreInv, TypeOK
  <1>8. CASE UNCHANGED vars
    <2>1. TypeOK' BY <1>8 DEF vars, StoreInv, TypeOK
    <2>2. Read' = Read /\ pending' = pending BY <1>8 DEF vars, Read
    <2>3. Board!Allowed(Read, pending) => Board!Allowed(Read, pending)'
          BY <2>2 DEF Board!Allowed, Board!Created, Board!Updated, Board!Deleted, Board!Record
    <2> QED BY <1>8, <2>1, <2>3 DEF vars, StoreInv
  <1> QED BY <1>1, <1>2, <1>3, <1>4, <1>5, <1>6, <1>7, <1>8 DEF Next

LEMMA StoreIsInvariant == Spec => []StoreInv
  <1>1. Init => StoreInv BY StoreInvInit
  <1>2. StoreInv /\ [Next]_vars => StoreInv' BY StoreInvStep
  <1> QED BY <1>1, <1>2, PTL DEF Spec

-----------------------------------------------------------------------------
\* The file holds a list of well-formed sets at every moment (filter_sets.py).
THEOREM StoreTypeCorrect == Spec => []TypeOK
  <1>1. StoreInv => TypeOK BY DEF StoreInv
  <1> QED BY <1>1, StoreIsInvariant, PTL

LEMMA BoardInit ==
  ASSUME Init
  PROVE  Board!Init
  BY DEF Init, Board!Init

LEMMA BoardStep ==
  ASSUME StoreInv, [Next]_vars
  PROVE  [Board!Next]_<<file.sets, blind>>
  <1>1. ASSUME NEW u \in User, NEW id \in Id, NEW ok \in BOOLEAN, NEW new, Mutate(ok, new)
        PROVE  Board!Look
        BY <1>1 DEF Mutate, Board!Look
  <1>2. ASSUME NEW u \in User, NEW id \in Id, NEW ok \in BOOLEAN, NEW shared \in BOOLEAN,
               NEW f \in Filters, Create(u, id, Set(u, shared, f), ok)
        PROVE  Board!Look
        BY <1>2, <1>1 DEF Create
  <1>3. ASSUME NEW u \in User, NEW id \in Id, NEW ok \in BOOLEAN, NEW shared \in BOOLEAN,
               NEW f \in Filters, Update(u, id, Set(u, shared, f), ok)
        PROVE  Board!Look
        BY <1>3, <1>1 DEF Update
  <1>4. ASSUME NEW u \in User, NEW id \in Id, NEW ok \in BOOLEAN, Delete(u, id, ok)
        PROVE  Board!Look
        BY <1>4, <1>1 DEF Delete
  <1>5. CASE Dump BY <1>5 DEF Dump
  <1>6. CASE Replace
    <2>1. file.sets' = pending /\ blind' = FALSE /\ Board!Allowed(Read, pending) /\ blind \in BOOLEAN
          BY <1>6 DEF Replace, EndWrite, StoreInv, TypeOK
    <2>2. CASE blind
          BY <2>1, <2>2 DEF Read, Board!Next, Board!StartNew
    <2>3. CASE ~blind
          BY <2>1, <2>3 DEF Read, Board!Next, Board!Change
    <2> QED BY <2>1, <2>2, <2>3
  <1>7. CASE WriteFails BY <1>7 DEF WriteFails, EndWrite, Board!Next, Board!Look
  <1>8. CASE Crash BY <1>8 DEF Crash, EndWrite, Board!Next, Board!Look
  <1>9. CASE UNCHANGED vars BY <1>9 DEF vars
  <1> QED BY <1>2, <1>3, <1>4, <1>5, <1>6, <1>7, <1>8, <1>9 DEF Next, Board!Next

\* Reading, dumping and renaming, failing and dying come to what FilterBoard
\* allows: only owners change or remove a set, and no crash loses one
\* (filter_sets.py, docs/logs.md).
THEOREM StoreImplementsBoard == Spec => BoardSpec
  <1>1. Init => Board!Init BY BoardInit
  <1>2. StoreInv /\ [Next]_vars => [Board!Next]_<<file.sets, blind>> BY BoardStep
  <1> QED BY <1>1, <1>2, StoreIsInvariant, PTL DEF Spec, BoardSpec, Board!Spec

-----------------------------------------------------------------------------
(* Processor usage: DockerStats.                                           *)

LEMMA ReadingsAreRecords ==
  ASSUME NEW r \in Stats!Reading
  PROVE  /\ r.total \in 0..MaxTotal /\ r.system \in 0..MaxTotal /\ r.boot \in 0..MaxBoot
         /\ r # Stats!None
  BY DEF Stats!Reading, Stats!None

\* The answer from two readings of which the second follows the first.
LEMMA UsageOfTwo ==
  ASSUME Stats!StatsAssumption,
         NEW a \in Stats!Reading \cup {Stats!None}, NEW b \in Stats!Reading
  PROVE  /\ Stats!CpuPct(a, b) \in Stats!Usage
         /\ (a # Stats!None /\ (a.system < b.system => Stats!Follows(a, b)))
              => 0 <= Stats!CpuPct(a, b).num /\ Stats!CpuPct(a, b).num <= Stats!CpuPct(a, b).den
  <1>1. MaxTotal \in Nat BY DEF Stats!StatsAssumption
  <1>2. b.total \in Int /\ b.system \in Int
        BY <1>1, ReadingsAreRecords
  <1>3. a # Stats!None => a.total \in Int /\ a.system \in Int
        BY <1>1, ReadingsAreRecords
  <1>4. CASE a = Stats!None \/ b.total <= a.total \/ b.system <= a.system
    <2>1. Stats!CpuPct(a, b) = Stats!Zero BY <1>4 DEF Stats!CpuPct
    <2> QED BY <2>1 DEF Stats!Zero, Stats!Usage
  <1>5. CASE ~(a = Stats!None \/ b.total <= a.total \/ b.system <= a.system)
    <2>1. Stats!CpuPct(a, b) = [num |-> b.total - a.total, den |-> b.system - a.system]
          BY <1>5 DEF Stats!CpuPct
    <2>2. a.system < b.system /\ a.total < b.total
          BY <1>2, <1>3, <1>5
    <2> QED BY <1>2, <1>3, <1>5, <2>1, <2>2 DEF Stats!Follows, Stats!Usage
  <1> QED BY <1>4, <1>5

LEMMA StatsInit ==
  ASSUME Stats!StatsAssumption, Stats!Init
  PROVE  Stats!UsageInv
  <1>1. MaxTotal \in Nat /\ MaxBoot \in Nat BY DEF Stats!StatsAssumption
  <1>2. c1 = [total |-> 0, system |-> 0, boot |-> 0] /\ c1 \in Stats!Reading
        BY <1>1 DEF Stats!Init, Stats!Reading
  <1>3. Stats!Taken = {} BY DEF Stats!Init, Stats!Taken
  <1>4. Stats!TypeOK
        BY <1>2 DEF Stats!Init, Stats!TypeOK, Stats!Zero, Stats!Usage
  <1>5. Stats!UsageWithinHost BY DEF Stats!Init, Stats!UsageWithinHost
  <1> QED BY <1>2, <1>3, <1>4, <1>5 DEF Stats!UsageInv

\* Polling: a reading is taken, arrives or is lost; the counters stand still.
LEMMA PollsKeep ==
  ASSUME Stats!StatsAssumption, Stats!UsageInv, NEW p \in PollId,
         Stats!Ask(p) \/ Stats!Arrive(p) \/ Stats!Fail(p)
  PROVE  Stats!UsageInv'
  <1> DEFINE now == c1  prev == c2  kept == c3  poll == c4  shown == c5
  <1>1. Stats!TypeOK /\ UNCHANGED now /\ now \in Stats!Reading
        BY DEF Stats!UsageInv, Stats!TypeOK, Stats!Ask, Stats!Arrive, Stats!Fail
  <1>2. ASSUME Stats!Taken' \subseteq Stats!Taken \cup {now}
        PROVE  /\ now'.total <= now'.system
               /\ \A a \in Stats!Taken' :
                    /\ a.boot <= now'.boot
                    /\ a.boot = now'.boot => a.system <= now'.system /\ Stats!Follows(a, now')
                    /\ \A b \in Stats!Taken' :
                         a.boot = b.boot /\ a.system < b.system => Stats!Follows(a, b)
    <2>1. \A a \in Stats!Taken : a \in Stats!Reading
          BY <1>1 DEF Stats!Taken, Stats!TypeOK
    <2>2. \A a \in Stats!Reading : a.total \in Int /\ a.system \in Int /\ a.boot \in Int
          BY ReadingsAreRecords DEF Stats!StatsAssumption
    <2> QED BY <1>1, <1>2, <2>1, <2>2 DEF Stats!UsageInv, Stats!Follows
  <1>3. CASE Stats!Ask(p)
    <2>1. poll' = [poll EXCEPT ![p] = now] /\ UNCHANGED <<now, prev, kept, shown>>
          BY <1>3 DEF Stats!Ask
    <2>2. Stats!Taken' \subseteq Stats!Taken \cup {now}
          BY <1>1, <2>1 DEF Stats!Taken, Stats!TypeOK
    <2>3. Stats!TypeOK' BY <1>1, <2>1 DEF Stats!TypeOK
    <2>4. Stats!UsageWithinHost' BY <2>1 DEF Stats!UsageInv, Stats!UsageWithinHost
    <2> QED BY <1>2, <2>2, <2>3, <2>4 DEF Stats!UsageInv
  <1>4. CASE Stats!Arrive(p)
    <2>1. /\ poll[p] # Stats!None /\ poll' = [poll EXCEPT ![p] = Stats!None]
          /\ prev' = poll[p]
          /\ shown' = [base |-> prev, cur |-> poll[p], usage |-> Stats!CpuPct(prev, poll[p])]
          /\ kept' = Stats!CpuPct(prev, poll[p])
          BY <1>4 DEF Stats!Arrive
    <2>2. poll[p] \in Stats!Reading /\ prev \in Stats!Reading \cup {Stats!None}
          BY <1>1, <2>1 DEF Stats!TypeOK
    <2>3. Stats!Taken' \subseteq Stats!Taken
          BY <1>1, <2>1, <2>2 DEF Stats!Taken, Stats!TypeOK
    <2>4. Stats!CpuPct(prev, poll[p]) \in Stats!Usage BY <2>2, UsageOfTwo
    <2>5. Stats!TypeOK' BY <1>1, <2>1, <2>2, <2>4 DEF Stats!TypeOK
    <2>6. (prev # Stats!None /\ prev.boot = poll[p].boot)
            => (prev.system < poll[p].system => Stats!Follows(prev, poll[p]))
          BY <2>1, <2>2 DEF Stats!UsageInv, Stats!Taken
    <2>7. Stats!UsageWithinHost'
          BY <2>1, <2>2, <2>6, UsageOfTwo DEF Stats!UsageWithinHost
    <2> QED BY <1>2, <2>3, <2>5, <2>7 DEF Stats!UsageInv
  <1>5. CASE Stats!Fail(p)
    <2>1. poll' = [poll EXCEPT ![p] = Stats!None] /\ UNCHANGED <<now, prev, kept, shown>>
          BY <1>5 DEF Stats!Fail
    <2>2. Stats!Taken' \subseteq Stats!Taken
          BY <1>1, <2>1 DEF Stats!Taken, Stats!TypeOK
    <2>3. Stats!TypeOK' BY <1>1, <2>1 DEF Stats!TypeOK
    <2>4. Stats!UsageWithinHost' BY <2>1 DEF Stats!UsageInv, Stats!UsageWithinHost
    <2> QED BY <1>2, <2>2, <2>3, <2>4 DEF Stats!UsageInv
  <1> QED BY <1>3, <1>4, <1>5

\* A streaming read brings its own two readings; an answer expires.
LEMMA AnswersKeep ==
  ASSUME Stats!StatsAssumption, Stats!UsageInv, Stats!Stream \/ Stats!Expire
  PROVE  Stats!UsageInv'
  <1> DEFINE now == c1  prev == c2  kept == c3  poll == c4  shown == c5
  <1>1. Stats!TypeOK /\ now \in Stats!Reading /\ UNCHANGED <<now, prev, poll>>
        BY DEF Stats!UsageInv, Stats!TypeOK, Stats!Stream, Stats!Expire
  <1>2. ASSUME Stats!TypeOK', Stats!UsageWithinHost' PROVE Stats!UsageInv'
        BY <1>1, <1>2 DEF Stats!UsageInv, Stats!Taken, Stats!Follows
  <1>3. CASE Stats!Stream
    <2>1. PICK t \in {now.total - 1, now.total} \cap Nat :
            LET base == [total |-> t, system |-> now.system - 1, boot |-> now.boot]
            IN  shown' = [base |-> base, cur |-> now, usage |-> Stats!CpuPct(base, now)]
          BY <1>3 DEF Stats!Stream
    <2> DEFINE base == [total |-> t, system |-> now.system - 1, boot |-> now.boot]
    <2>2. now.total \in 0..MaxTotal /\ now.system \in 0..MaxTotal /\ now.system > 0
          /\ now.boot \in 0..MaxBoot /\ MaxTotal \in Nat
          BY <1>1, <1>3, ReadingsAreRecords DEF Stats!Stream, Stats!StatsAssumption
    <2>3. base \in Stats!Reading BY <2>2 DEF Stats!Reading
    <2>4. Stats!Follows(base, now) BY <2>2 DEF Stats!Follows
    <2> HIDE DEF base
    <2>5. shown' = [base |-> base, cur |-> now, usage |-> Stats!CpuPct(base, now)] /\ kept' = kept
          BY <1>3, <2>1 DEF Stats!Stream, base
    <2>6. Stats!CpuPct(base, now) \in Stats!Usage BY <1>1, <2>3, UsageOfTwo
    <2>7. Stats!TypeOK' BY <1>1, <2>3, <2>5, <2>6 DEF Stats!TypeOK
    <2>8. base # Stats!None BY <2>3, ReadingsAreRecords
    <2>9. Stats!UsageWithinHost'
          BY <1>1, <2>3, <2>4, <2>5, <2>8, UsageOfTwo DEF Stats!UsageWithinHost
    <2> QED BY <1>2, <2>7, <2>9
  <1>4. CASE Stats!Expire
    <2>1. kept' \in Stats!Usage \cup {Stats!None} /\ shown' = shown BY <1>4 DEF Stats!Expire
    <2> QED BY <1>1, <1>2, <2>1 DEF Stats!TypeOK, Stats!UsageInv, Stats!UsageWithinHost
  <1> QED BY <1>3, <1>4

\* The counters move: by work, at most as much as the host's; or back to zero.
LEMMA CountersKeep ==
  ASSUME Stats!StatsAssumption, Stats!UsageInv,
         Stats!Restart \/ Stats!Reboot \/ \E used \in 0..1 : Stats!Work(used)
  PROVE  Stats!UsageInv'
  <1> DEFINE now == c1  prev == c2  kept == c3  poll == c4  shown == c5
  <1>1. Stats!TypeOK /\ now \in Stats!Reading /\ UNCHANGED <<prev, kept, poll, shown>>
        BY DEF Stats!UsageInv, Stats!TypeOK, Stats!Restart, Stats!Reboot, Stats!Work
  <1>2. MaxTotal \in Nat /\ MaxBoot \in Nat BY DEF Stats!StatsAssumption
  <1>3. now.total \in 0..MaxTotal /\ now.system \in 0..MaxTotal /\ now.boot \in 0..MaxBoot
        /\ now.total <= now.system
        BY <1>1, ReadingsAreRecords DEF Stats!UsageInv
  <1>4. Stats!Taken' = Stats!Taken /\ Stats!UsageWithinHost'
        BY <1>1 DEF Stats!Taken, Stats!UsageInv, Stats!UsageWithinHost
  <1>5. ASSUME now' \in Stats!Reading, now'.total <= now'.system,
               \A a \in Stats!Taken :
                 /\ a.boot <= now'.boot
                 /\ a.boot = now'.boot => a.system <= now'.system /\ Stats!Follows(a, now')
        PROVE  Stats!UsageInv'
    <2>1. Stats!TypeOK' BY <1>1, <1>5 DEF Stats!TypeOK
    <2> QED BY <1>1, <1>4, <1>5, <2>1 DEF Stats!UsageInv, Stats!Follows
  <1>6. ASSUME NEW a \in Stats!Taken
        PROVE  /\ a.total \in 0..MaxTotal /\ a.system \in 0..MaxTotal /\ a.boot \in 0..MaxBoot
               /\ a.boot <= now.boot
               /\ a.boot = now.boot =>
                    a.system <= now.system /\ now.total - a.total <= now.system - a.system
    <2>1. a \in Stats!Reading BY <1>1 DEF Stats!Taken, Stats!TypeOK
    <2> QED BY <2>1, ReadingsAreRecords DEF Stats!UsageInv, Stats!Follows
  <1>7. CASE Stats!Restart
    <2>1. now' = [total |-> 0, system |-> now.system, boot |-> now.boot]
          BY <1>1, <1>7 DEF Stats!Restart, Stats!Reading
    <2>2. now' \in Stats!Reading BY <1>2, <1>3, <2>1 DEF Stats!Reading
    <2> QED BY <1>2, <1>3, <1>5, <1>6, <2>1, <2>2 DEF Stats!Follows
  <1>8. CASE Stats!Reboot
    <2>1. now' = [total |-> 0, system |-> 0, boot |-> now.boot + 1] /\ now.boot < MaxBoot
          BY <1>8 DEF Stats!Reboot
    <2>2. now' \in Stats!Reading BY <1>2, <1>3, <2>1 DEF Stats!Reading
    <2> QED BY <1>2, <1>3, <1>5, <1>6, <2>1, <2>2 DEF Stats!Follows
  <1>9. CASE \E used \in 0..1 : Stats!Work(used)
    <2>1. PICK used \in 0..1 :
            /\ now' = [total |-> now.total + used, system |-> now.system + 1, boot |-> now.boot]
            /\ now.system < MaxTotal
          BY <1>1, <1>9 DEF Stats!Work, Stats!Reading
    <2>2. now' \in Stats!Reading BY <1>2, <1>3, <2>1 DEF Stats!Reading
    <2> QED BY <1>2, <1>3, <1>5, <1>6, <2>1, <2>2 DEF Stats!Follows
  <1> QED BY <1>7, <1>8, <1>9

StatsPart == about = "stats" => Stats!UsageInv

LEMMA StatsHolds == ReadsInit => StatsPart
  BY ReadsAssumption, StatsInit DEF ReadsAssumption, ReadsInit, StatsPart

LEMMA StatsKept == StatsPart /\ [ReadsNext]_all => StatsPart'
  <1>1. Stats!StatsAssumption BY ReadsAssumption DEF ReadsAssumption
  <1> SUFFICES ASSUME StatsPart, [ReadsNext]_all, about' = "stats" PROVE Stats!UsageInv'
      BY DEF StatsPart
  <1>2. CASE about = "stats" /\ Stats!Next
        BY <1>1, <1>2, PollsKeep, AnswersKeep, CountersKeep DEF StatsPart, Stats!Next
  <1>3. CASE about = "stats" /\ UNCHANGED <<c1, c2, c3, c4, c5>>
        BY <1>3 DEF StatsPart, Stats!UsageInv, Stats!TypeOK, Stats!UsageWithinHost,
                    Stats!Taken, Stats!Follows
  <1> QED BY <1>2, <1>3 DEF ReadsNext, Rest, all

\* Whatever two samples it is taken from and however polls overlap, the usage
\* shown is between none and all of the host's (docker_stats.py:15-52).
THEOREM UsageStaysWithinHost == ReadsSpec => []StatsWithinHost
  <1>1. StatsPart => StatsWithinHost
        BY DEF StatsPart, StatsWithinHost, Stats!UsageInv
  <1> QED BY <1>1, StatsHolds, StatsKept, PTL DEF ReadsSpec

-----------------------------------------------------------------------------
(* Image updates: RegistryUpdates.                                         *)

\* What a request is while it waits for the registry.
Asking == [at : {"asking"}, local : Updates!Digests, age : 0..OneCall,
           said : Updates!Digests \cup {Updates!None}]

Requests ==
  {Updates!Idle}
    \cup [at : {"listed"}, local : Updates!Digests \cup {Updates!None}]
    \cup Asking
    \cup [at : {"shown"}, local : Updates!Digests \cup {Updates!None},
          remote : Updates!Digests \cup {Updates!None}]

LEMMA RequestFields ==
  ASSUME NEW q \in Requests
  PROVE  /\ q.at = "asking" <=> q \in Asking
         /\ q \in Asking => /\ q.local \in Updates!Digests /\ q.age \in 0..OneCall
                            /\ q.said \in Updates!Digests \cup {Updates!None}
         /\ q.at = "listed" => q.local \in Updates!Digests \cup {Updates!None}
  BY DEF Requests, Asking, Updates!Idle

LEMMA DigestsAreNumbers ==
  ASSUME Updates!UpdatesAssumption
  PROVE  /\ CacheTtl \in Nat /\ OneCall \in Nat /\ Updates!Forever = CacheTtl + OneCall + 1
         /\ Updates!None = 0 /\ Updates!Digests = 1..Digest /\ Digest \in Nat
  BY DEF Updates!UpdatesAssumption, Updates!Forever, Updates!None, Updates!Digests

LEMMA UpdatesInit ==
  ASSUME Updates!UpdatesAssumption, Updates!Init
  PROVE  Updates!UpdatesInv
  <1>1. 1 \in Updates!Digests /\ Digest \in Nat \ {0}
        BY DEF Updates!UpdatesAssumption, Updates!Digests
  <1>2. Updates!TypeOK
        BY <1>1, DigestsAreNumbers DEF Updates!Init, Updates!TypeOK, Updates!Absent
  <1>3. ~(c5.age <= CacheTtl)
        BY DigestsAreNumbers DEF Updates!Init, Updates!Absent
  <1>4. \A k \in Check : c6[k].at # "asking"
        BY DEF Updates!Init, Updates!Idle
  <1> QED BY <1>1, <1>2, <1>3, <1>4 DEF Updates!UpdatesInv, Updates!Init

\* A request moves on, and brings no answer that is older than its call.
LEMMA RequestMoves ==
  ASSUME Updates!UpdatesInv, NEW k \in Check, NEW q \in Requests,
         c6' = [c6 EXCEPT ![k] = q], UNCHANGED <<c1, c2, c3, c4, c5, c7>>,
         q.at = "asking" /\ q.said # Updates!None => c2[q.said] <= q.age
  PROVE  Updates!UpdatesInv'
  <1>1. c6 \in [Check -> Requests] BY DEF Updates!UpdatesInv, Updates!TypeOK, Requests, Asking
  <1>2. c6' \in [Check -> Requests] BY <1>1
  <1>3. Updates!TypeOK' BY <1>2 DEF Updates!UpdatesInv, Updates!TypeOK, Requests, Asking
  <1>4. \A j \in Check : c6'[j] = IF j = k THEN q ELSE c6[j] BY <1>1
  <1> QED BY <1>3, <1>4 DEF Updates!UpdatesInv

LEMMA ListKeeps ==
  ASSUME Updates!UpdatesAssumption, Updates!UpdatesInv, NEW k \in Check,
         Updates!List(k) \/ Updates!Done(k)
  PROVE  Updates!UpdatesInv'
  <1> DEFINE listed == [at |-> "listed", local |-> c3]
  <1>1. listed \in Requests /\ Updates!Idle \in Requests
        /\ listed.at # "asking" /\ Updates!Idle.at # "asking"
        BY DEF Updates!UpdatesInv, Updates!TypeOK, Requests, Updates!Idle
  <1> HIDE DEF listed
  <1>2. \/ c6' = [c6 EXCEPT ![k] = listed] \/ c6' = [c6 EXCEPT ![k] = Updates!Idle]
        BY DEF Updates!List, Updates!Done, listed
  <1>3. UNCHANGED <<c1, c2, c3, c4, c5, c7>> BY DEF Updates!List, Updates!Done
  <1> QED BY <1>1, <1>2, <1>3, RequestMoves

\* A digest that is shown from the cache is as recent as the cache says.
LEMMA CompareKeeps ==
  ASSUME Updates!UpdatesAssumption, Updates!UpdatesInv, NEW k \in Check, Updates!Compare(k)
  PROVE  Updates!UpdatesInv' /\ Updates!RecentDigest
  <1> DEFINE local == Updates!Local(k)
             shown(l, r) == [at |-> "shown", local |-> l, remote |-> r]
             asking == [at |-> "asking", local |-> local, age |-> 0, said |-> Updates!None]
  <1>1. c6 \in [Check -> Requests] BY DEF Updates!UpdatesInv, Updates!TypeOK, Requests, Asking
  <1>2. /\ local \in Updates!Digests \cup {Updates!None}
        /\ c5.digest \in Updates!Digests \cup {Updates!None} /\ c5.age \in Int
        /\ UNCHANGED <<c1, c2, c3, c4, c5, c7>>
        BY <1>1, RequestFields, DigestsAreNumbers
        DEF Updates!Compare, Updates!Local, Updates!UpdatesInv, Updates!TypeOK
  <1>3. PICK q \in Requests :
          /\ c6' = [c6 EXCEPT ![k] = q]
          /\ q.at = "asking" => q.said = Updates!None
          /\ q.at = "shown" /\ q.local # Updates!None =>
               q.remote = c5.digest /\ c5.age <= CacheTtl
    <2>1. CASE local = Updates!None
      <3>1. c6' = [c6 EXCEPT ![k] = shown(Updates!None, Updates!None)]
            BY <2>1 DEF Updates!Compare, Updates!Show
      <3>2. shown(Updates!None, Updates!None) \in Requests BY DEF Requests
      <3> QED BY <3>1, <3>2
    <2>2. CASE local # Updates!None /\ c5.age <= CacheTtl
      <3>1. c6' = [c6 EXCEPT ![k] = shown(local, c5.digest)]
            BY <2>2 DEF Updates!Compare, Updates!CheckOne, Updates!Show
      <3>2. shown(local, c5.digest) \in Requests BY <1>2 DEF Requests
      <3> QED BY <2>2, <3>1, <3>2
    <2>3. CASE local # Updates!None /\ ~(c5.age <= CacheTtl)
      <3>1. c6' = [c6 EXCEPT ![k] = asking]
            BY <2>3 DEF Updates!Compare, Updates!CheckOne
      <3>2. asking \in Requests BY <1>2, <2>3, DigestsAreNumbers DEF Requests, Asking
      <3> QED BY <3>1, <3>2
    <2> QED BY <2>1, <2>2, <2>3
  <1>4. Updates!UpdatesInv' BY <1>2, <1>3, RequestMoves
  <1>5. ASSUME NEW j \in Check, c6[j].at # "shown", c6'[j].at = "shown", c6'[j].local # Updates!None
        PROVE  IF Updates!Status(c6'[j].local, c6'[j].remote) = "unknown"
               THEN c7' <= CacheTtl ELSE c2[c6'[j].remote] <= CacheTtl + OneCall
    <2>1. j = k /\ c6'[j] = q BY <1>1, <1>3, <1>5
    <2>2. q.remote = c5.digest /\ c5.age <= CacheTtl BY <1>3, <1>5, <2>1
    <2>3. CASE c5.digest = Updates!None
      <3>1. Updates!Status(q.local, q.remote) = "unknown" BY <2>2, <2>3 DEF Updates!Status
      <3>2. c7 <= CacheTtl /\ c7' = c7
            BY <1>2, <2>2, <2>3, DigestsAreNumbers DEF Updates!UpdatesInv, Updates!TypeOK
      <3> QED BY <2>1, <3>1, <3>2
    <2>4. CASE c5.digest # Updates!None
      <3>1. Updates!Status(q.local, q.remote) # "unknown"
            BY <1>5, <2>1, <2>2, <2>4 DEF Updates!Status
      <3>2. c2[c5.digest] <= c5.age + OneCall /\ c2[c5.digest] \in Int
            BY <1>2, <2>2, <2>4, DigestsAreNumbers DEF Updates!UpdatesInv, Updates!TypeOK
      <3> QED BY <1>2, <2>1, <2>2, <3>1, <3>2, DigestsAreNumbers
    <2> QED BY <2>3, <2>4
  <1> QED BY <1>4, <1>5 DEF Updates!RecentDigest

LEMMA RegistryKeeps ==
  ASSUME Updates!UpdatesAssumption, Updates!UpdatesInv, NEW k \in Check, Updates!Registry(k)
  PROVE  Updates!UpdatesInv'
  <1>1. c6 \in [Check -> Requests] BY DEF Updates!UpdatesInv, Updates!TypeOK, Requests, Asking
  <1>2. c6[k] \in Asking BY <1>1, RequestFields DEF Updates!Registry
  <1> DEFINE q == [c6[k] EXCEPT !.said = c1]
  <1>3. q \in Asking /\ q.said = c1 /\ q.age \in 0..OneCall
        BY <1>2 DEF Asking, Updates!UpdatesInv, Updates!TypeOK
  <1>4. c6' = [c6 EXCEPT ![k] = q] BY DEF Updates!Registry
  <1> HIDE DEF q
  <1>5. q \in Requests BY <1>3 DEF Requests
  <1>6. c2[c1] = 0 BY DEF Updates!UpdatesInv
  <1>7. UNCHANGED <<c1, c2, c3, c4, c5, c7>> BY DEF Updates!Registry
  <1>8. c2[q.said] <= q.age BY <1>3, <1>6
  <1> QED BY <1>4, <1>5, <1>7, <1>8, RequestMoves

\* The registry's answer, or that there was none, is kept and shown.
LEMMA AnswerKeeps ==
  ASSUME Updates!UpdatesAssumption, Updates!UpdatesInv, NEW k \in Check,
         Updates!Answered(k) \/ Updates!Failed(k)
  PROVE  Updates!UpdatesInv' /\ Updates!RecentDigest
  <1>1. c6 \in [Check -> Requests] BY DEF Updates!UpdatesInv, Updates!TypeOK, Requests, Asking
  <1>2. /\ c6[k] \in Asking /\ c6[k].local \in Updates!Digests /\ c6[k].age \in 0..OneCall
        /\ UNCHANGED <<c1, c2, c3, c4>>
        BY <1>1, RequestFields DEF Updates!Answered, Updates!Failed
  <1>3. PICK d \in Updates!Digests \cup {Updates!None} :
          /\ c5' = [digest |-> d, age |-> 0]
          /\ c6' = [c6 EXCEPT ![k] = [at |-> "shown", local |-> c6[k].local, remote |-> d]]
          /\ d # Updates!None => c2[d] <= OneCall /\ c7' = c7
          /\ d = Updates!None => c7' = 0
    <2>1. CASE Updates!Answered(k)
      <3> DEFINE d == c6[k].said
      <3>1. d \in Updates!Digests /\ c2[d] <= c6[k].age
            BY <1>1, <1>2, <2>1, RequestFields DEF Updates!Answered, Updates!UpdatesInv
      <3>2. c2[d] \in Int BY <3>1, DigestsAreNumbers DEF Updates!UpdatesInv, Updates!TypeOK
      <3>3. c2[d] <= OneCall BY <1>2, <3>1, <3>2, DigestsAreNumbers
      <3>4. d # Updates!None BY <3>1, DigestsAreNumbers
      <3>5. /\ c5' = [digest |-> d, age |-> 0] /\ c7' = c7
            /\ c6' = [c6 EXCEPT ![k] = [at |-> "shown", local |-> c6[k].local, remote |-> d]]
            BY <2>1 DEF Updates!Answered, Updates!Keep, Updates!Show
      <3> HIDE DEF d
      <3> QED BY <3>1, <3>3, <3>4, <3>5
    <2>2. CASE Updates!Failed(k)
          BY <2>2 DEF Updates!Failed, Updates!Keep, Updates!Show
    <2> QED BY <2>1, <2>2
  <1> DEFINE q == [at |-> "shown", local |-> c6[k].local, remote |-> d]
  <1>4. q \in Requests /\ q.at = "shown" /\ q.remote = d /\ q.local # Updates!None
        BY <1>2, <1>3, DigestsAreNumbers DEF Requests
  <1>5. \A j \in Check : c6'[j] = IF j = k THEN q ELSE c6[j] BY <1>1, <1>3
  <1> HIDE DEF q
  <1>6. c6' \in [Check -> Requests] BY <1>1, <1>3, <1>4 DEF q
  <1>7. c5' \in [digest : Updates!Digests \cup {Updates!None}, age : 0..CacheTtl + 1]
        BY <1>3, DigestsAreNumbers
  <1>8. c7 \in 0..Updates!Forever /\ 0 \in 0..Updates!Forever
         BY DigestsAreNumbers DEF Updates!UpdatesInv, Updates!TypeOK
  <1>9. Updates!TypeOK'
        BY <1>2, <1>3, <1>6, <1>7, <1>8 DEF Updates!UpdatesInv, Updates!TypeOK, Requests, Asking
  <1>10. Updates!UpdatesInv'
        BY <1>2, <1>3, <1>4, <1>5, <1>9, DigestsAreNumbers DEF Updates!UpdatesInv
  <1>11. Updates!RecentDigest
    <2> SUFFICES ASSUME NEW j \in Check, c6[j].at # "shown", c6'[j].at = "shown"
                 PROVE  IF Updates!Status(c6'[j].local, c6'[j].remote) = "unknown"
                        THEN c7' <= CacheTtl ELSE c2[c6'[j].remote] <= CacheTtl + OneCall
        BY DEF Updates!RecentDigest
    <2>1. c6'[j] = q BY <1>5
    <2>2. CASE d = Updates!None
          BY <1>3, <1>4, <2>1, <2>2, DigestsAreNumbers DEF Updates!Status
    <2>3. CASE d # Updates!None
      <3>1. Updates!Status(q.local, q.remote) # "unknown" BY <1>4, <2>3 DEF Updates!Status
      <3>2. c2[d] \in Int BY <1>3, <2>3, DigestsAreNumbers DEF Updates!UpdatesInv, Updates!TypeOK
      <3> QED BY <1>3, <1>4, <2>1, <2>3, <3>1, <3>2, DigestsAreNumbers
    <2> QED BY <2>2, <2>3
  <1> QED BY <1>10, <1>11

\* The tag is pushed, the container recreated, an image removed.
LEMMA TagKeeps ==
  ASSUME Updates!UpdatesAssumption, Updates!UpdatesInv,
         Updates!Push \/ Updates!Recreate \/ Updates!Prune
  PROVE  Updates!UpdatesInv'
  <1>1. UNCHANGED <<c5, c6, c7>> BY DEF Updates!Push, Updates!Recreate, Updates!Prune
  <1>2. CASE Updates!Push
    <2>1. c1 \in 1..Digest /\ c1 < Digest /\ c1' = c1 + 1 /\ c2' = [c2 EXCEPT ![c1 + 1] = 0]
          /\ UNCHANGED <<c3, c4>>
          BY <1>2, DigestsAreNumbers DEF Updates!Push, Updates!UpdatesInv, Updates!TypeOK
    <2>2. c2 \in [Updates!Digests -> 0..Updates!Forever]
          BY DEF Updates!UpdatesInv, Updates!TypeOK
    <2>3. c1 + 1 \in Updates!Digests BY <2>1, DigestsAreNumbers
    <2>4. /\ c2' \in [Updates!Digests -> 0..Updates!Forever] /\ c2'[c1'] = 0
          /\ \A d \in Updates!Digests : c2'[d] <= c2[d] /\ c2[d] \in Int
          BY <2>1, <2>2, <2>3, DigestsAreNumbers
    <2>5. Updates!TypeOK' BY <1>1, <2>1, <2>2, <2>4, <2>3 DEF Updates!UpdatesInv, Updates!TypeOK
    <2>6. c5.digest \in Updates!Digests \cup {Updates!None} /\ c5.age \in Int
          BY DigestsAreNumbers DEF Updates!UpdatesInv, Updates!TypeOK
    <2>7. c5.age <= CacheTtl /\ c5.digest # Updates!None => c2'[c5.digest] <= c5.age + OneCall
          BY <2>4, <2>6, DigestsAreNumbers DEF Updates!UpdatesInv
    <2>8. ASSUME NEW k \in Check, c6[k].at = "asking", c6[k].said # Updates!None
          PROVE  c2'[c6[k].said] <= c6[k].age
      <3>1. c6[k] \in Requests BY DEF Updates!UpdatesInv, Updates!TypeOK, Requests, Asking
      <3>2. c6[k].said \in Updates!Digests /\ c6[k].age \in Int
            BY <2>8, <3>1, RequestFields, DigestsAreNumbers
      <3> QED BY <2>4, <2>8, <3>2 DEF Updates!UpdatesInv
    <2> QED BY <1>1, <2>4, <2>5, <2>6, <2>7, <2>8 DEF Updates!UpdatesInv
  <1>3. CASE Updates!Recreate \/ Updates!Prune
    <2>1. c3' \in Updates!Digests \cup {Updates!None} /\ c4' \subseteq Updates!Digests
          /\ UNCHANGED <<c1, c2>>
          BY <1>3 DEF Updates!Recreate, Updates!Prune, Updates!UpdatesInv, Updates!TypeOK
    <2> QED BY <1>1, <2>1 DEF Updates!UpdatesInv, Updates!TypeOK
  <1> QED BY <1>2, <1>3

\* Time passes for digests, answers and calls alike.
LEMMA TickKeeps ==
  ASSUME Updates!UpdatesAssumption, Updates!UpdatesInv, Updates!Tick
  PROVE  Updates!UpdatesInv'
  <1>1. /\ c1 \in Updates!Digests /\ c2 \in [Updates!Digests -> 0..Updates!Forever]
        /\ c5.digest \in Updates!Digests \cup {Updates!None} /\ c5.age \in 0..CacheTtl + 1
        /\ c5 \in [digest : Updates!Digests \cup {Updates!None}, age : 0..CacheTtl + 1]
        /\ c7 \in 0..Updates!Forever /\ c6 \in [Check -> Requests]
        BY DEF Updates!UpdatesInv, Updates!TypeOK, Requests, Asking
  <1>2. /\ c2' = [d \in Updates!Digests |-> IF d = c1 THEN 0 ELSE Updates!Older(c2[d])]
        /\ c5' = IF c5.age >= CacheTtl THEN Updates!Absent ELSE [c5 EXCEPT !.age = @ + 1]
        /\ c6' = [k \in Check |-> IF c6[k].at = "asking" THEN [c6[k] EXCEPT !.age = @ + 1] ELSE c6[k]]
        /\ c7' = Updates!Older(c7) /\ UNCHANGED <<c1, c3, c4>>
        BY DEF Updates!Tick
  <1>3. \A n \in 0..Updates!Forever : Updates!Older(n) \in 0..Updates!Forever /\ Updates!Older(n) <= n + 1
        BY DigestsAreNumbers DEF Updates!Older
  <1>4. \A d \in Updates!Digests : c2[d] \in 0..Updates!Forever BY <1>1
  <1>5. 0 \in 0..Updates!Forever BY DigestsAreNumbers
  <1>6. /\ c2' \in [Updates!Digests -> 0..Updates!Forever] /\ c2'[c1] = 0
        /\ \A d \in Updates!Digests : c2'[d] <= c2[d] + 1 /\ c2[d] \in 0..Updates!Forever
    <2>1. \A d \in Updates!Digests : c2'[d] = IF d = c1 THEN 0 ELSE Updates!Older(c2[d])
          BY <1>2
    <2>2. \A d \in Updates!Digests : c2'[d] \in 0..Updates!Forever
          BY <1>3, <1>4, <1>5, <2>1
    <2>3. ASSUME NEW d \in Updates!Digests PROVE c2'[d] <= c2[d] + 1
      <3>1. c2[d] \in Nat BY <1>4, DigestsAreNumbers
      <3>2. CASE d = c1
        <4>1. c2'[d] = 0 BY <2>1, <3>2
        <4> QED BY <3>1, <4>1
      <3>3. CASE d # c1 BY <1>3, <1>4, <2>1, <3>3
      <3> QED BY <3>2, <3>3
    <2> QED BY <1>1, <1>2, <1>4, <2>1, <2>2, <2>3
  <1>7. c7' \in 0..Updates!Forever /\ c7' <= c7 + 1 BY <1>1, <1>2, <1>3
  <1>8. /\ c5' \in [digest : Updates!Digests \cup {Updates!None}, age : 0..CacheTtl + 1]
        /\ c5'.age <= CacheTtl => IF c5'.digest = Updates!None THEN c7' <= c5'.age
                                  ELSE c2'[c5'.digest] <= c5'.age + OneCall
    <2>1. CASE c5.age >= CacheTtl BY <1>2, <2>1, DigestsAreNumbers DEF Updates!Absent
    <2>2. CASE ~(c5.age >= CacheTtl)
      <3>1. c5' = [c5 EXCEPT !.age = @ + 1] BY <1>2, <2>2
      <3>2. c5' \in [digest : Updates!Digests \cup {Updates!None}, age : 0..CacheTtl + 1]
            /\ c5'.digest = c5.digest /\ c5'.age = c5.age + 1
            BY <1>1, <2>2, <3>1, DigestsAreNumbers
      <3>3. c5.age <= CacheTtl BY <1>1, <2>2, DigestsAreNumbers
      <3>4. CASE c5.digest = Updates!None
            BY <1>1, <1>7, <3>2, <3>3, <3>4, DigestsAreNumbers DEF Updates!UpdatesInv
      <3>5. CASE c5.digest # Updates!None
        <4>1. c5.digest \in Updates!Digests /\ c2[c5.digest] <= c5.age + OneCall
              BY <1>1, <3>3, <3>5 DEF Updates!UpdatesInv
        <4>2. c2'[c5.digest] <= c2[c5.digest] + 1 /\ c2[c5.digest] \in Int /\ c2'[c5.digest] \in Int
              BY <1>6, <4>1, DigestsAreNumbers
        <4> QED BY <1>1, <3>2, <3>5, <4>1, <4>2, DigestsAreNumbers
      <3> QED BY <3>4, <3>5
    <2> QED BY <2>1, <2>2
  <1>9. ASSUME NEW k \in Check
        PROVE  /\ c6'[k] \in Requests
               /\ c6'[k].at = "asking" /\ c6'[k].said # Updates!None => c2'[c6'[k].said] <= c6'[k].age
    <2>1. CASE c6[k].at = "asking"
      <3>1. c6[k] \in Asking BY <1>1, <2>1, RequestFields
      <3>2. c6[k].age < OneCall BY <2>1 DEF Updates!Tick
      <3>3. c6'[k] = [c6[k] EXCEPT !.age = @ + 1] BY <1>2, <2>1
      <3>4. c6'[k] \in Asking /\ c6'[k].said = c6[k].said /\ c6'[k].age = c6[k].age + 1
            /\ c6[k].age \in Int /\ c6[k].said \in Updates!Digests \cup {Updates!None}
            BY <3>1, <3>2, <3>3, DigestsAreNumbers DEF Asking
      <3>5. c6[k].said # Updates!None => c2[c6[k].said] <= c6[k].age
            BY <2>1 DEF Updates!UpdatesInv
      <3>6. c6[k].said # Updates!None =>
              /\ c2'[c6[k].said] <= c2[c6[k].said] + 1
              /\ c2[c6[k].said] \in Int /\ c2'[c6[k].said] \in Int
            BY <1>6, <3>4, DigestsAreNumbers
      <3> QED BY <3>4, <3>5, <3>6 DEF Requests
    <2>2. CASE c6[k].at # "asking" BY <1>1, <1>2, <2>2
    <2> QED BY <2>1, <2>2
  <1>10. c6' \in [Check -> Requests] BY <1>2, <1>9
  <1>11. Updates!TypeOK'
         BY <1>1, <1>2, <1>6, <1>7, <1>8, <1>10 DEF Updates!UpdatesInv, Updates!TypeOK, Requests, Asking
  <1> QED BY <1>2, <1>6, <1>8, <1>9, <1>11 DEF Updates!UpdatesInv

UpdatesPart == about = "updates" => Updates!UpdatesInv

LEMMA UpdatesHold == ReadsInit => UpdatesPart
  BY ReadsAssumption, UpdatesInit DEF ReadsAssumption, ReadsInit, UpdatesPart

LEMMA UpdatesKept ==
  UpdatesPart /\ [ReadsNext]_all => UpdatesPart' /\ [about = "updates" => Updates!RecentDigest]_all
  <1>1. Updates!UpdatesAssumption BY ReadsAssumption DEF ReadsAssumption
  <1> SUFFICES ASSUME UpdatesPart, [ReadsNext]_all, about = "updates"
               PROVE  about' = about /\ Updates!UpdatesInv' /\ (Updates!RecentDigest \/ UNCHANGED all)
      BY DEF UpdatesPart, ReadsNext, Rest, all
  <1>2. CASE Updates!Next /\ Rest(c8)
    <2>1. ASSUME UNCHANGED c6 PROVE Updates!RecentDigest BY <2>1 DEF Updates!RecentDigest
    <2>2. ASSUME NEW k \in Check, Updates!List(k) \/ Updates!Registry(k) \/ Updates!Done(k)
          PROVE  Updates!RecentDigest
      <3>1. \A j \in Check : c6'[j].at = "shown" => c6[j].at = "shown"
        <4>1. c6 \in [Check -> Requests] BY DEF UpdatesPart, Updates!UpdatesInv, Updates!TypeOK, Requests, Asking
        <4>2. CASE Updates!List(k) BY <4>1, <4>2 DEF Updates!List
        <4>3. CASE Updates!Registry(k)
          <5>1. c6[k] \in Asking BY <4>1, <4>3, RequestFields DEF Updates!Registry
          <5> QED BY <4>1, <4>3, <5>1 DEF Updates!Registry, Asking
        <4>4. CASE Updates!Done(k) BY <4>1, <4>4 DEF Updates!Done, Updates!Idle
        <4> QED BY <2>2, <4>2, <4>3, <4>4
      <3> QED BY <3>1 DEF Updates!RecentDigest
    <2>3. ASSUME Updates!Tick PROVE Updates!RecentDigest
      <3>1. c6 \in [Check -> Requests] BY DEF UpdatesPart, Updates!UpdatesInv, Updates!TypeOK, Requests, Asking
      <3>2. ASSUME NEW j \in Check PROVE c6'[j].at = "shown" => c6[j].at = "shown"
        <4>1. CASE c6[j].at = "asking"
          <5>1. c6[j] \in Asking BY <3>1, <4>1, RequestFields
          <5>2. c6'[j] = [c6[j] EXCEPT !.age = @ + 1] BY <2>3, <4>1 DEF Updates!Tick
          <5> QED BY <5>1, <5>2 DEF Asking
        <4>2. CASE c6[j].at # "asking" BY <2>3, <4>2 DEF Updates!Tick
        <4> QED BY <4>1, <4>2
      <3> QED BY <3>2 DEF Updates!RecentDigest
    <2>4. Updates!Push \/ Updates!Recreate \/ Updates!Prune => UNCHANGED c6
          BY DEF Updates!Push, Updates!Recreate, Updates!Prune
    <2>5. Updates!UpdatesInv'
          BY <1>1, <1>2, ListKeeps, CompareKeeps, RegistryKeeps, AnswerKeeps, TagKeeps, TickKeeps
          DEF UpdatesPart, Updates!Next
    <2>6. Updates!RecentDigest
          BY <1>1, <1>2, <2>1, <2>2, <2>3, <2>4, CompareKeeps, AnswerKeeps DEF UpdatesPart, Updates!Next
    <2> QED BY <1>2, <2>5, <2>6 DEF Rest
  <1>3. CASE UNCHANGED all
        BY <1>3 DEF UpdatesPart, Updates!UpdatesInv, Updates!TypeOK, all
  <1> QED BY <1>2, <1>3 DEF ReadsNext

\* No digest is shown that the tag did not have within the time an answer is
\* kept and a call may take, and "unknown" means a recent failure
\* (docker_updates.py:143-219, docker_routes.py:329-400).
THEOREM UpdatesStayRecent == ReadsSpec => UpdatesAreRecent
  BY UpdatesHold, UpdatesKept, PTL DEF ReadsSpec, UpdatesAreRecent

-----------------------------------------------------------------------------
(* Sessions and rights: ZabbixAccess, of which ZabbixAccessProofs speaks.  *)

AccessFacts == INSTANCE ZabbixAccessProofs WITH
  Request <- RequestId, Ttl <- CacheTtl, Timeout <- OneCall,
  holds <- c1, since <- c2, cache <- c3, req <- c4

\* The two instances of ZabbixAccess are the same.
LEMMA SameAccess ==
  /\ Access!AccessAssumption => AccessFacts!AccessAssumption
  /\ Access!Init => AccessFacts!Init
  /\ Access!Next => AccessFacts!Next
  /\ AccessFacts!RecentWord => Access!RecentWord
  <1>1. Access!Needs = AccessFacts!Needs BY DEF Access!Needs, AccessFacts!Needs
  <1>2. Access!Right = AccessFacts!Right /\ Access!Lookup = AccessFacts!Lookup
        /\ Access!Fact = AccessFacts!Fact
        BY <1>1 DEF Access!Right, AccessFacts!Right, Access!Lookup, AccessFacts!Lookup,
                    Access!Fact, AccessFacts!Fact
  <1>3. /\ Access!Longest = AccessFacts!Longest
        /\ \A l : Access!TtlOf(l) = AccessFacts!TtlOf(l)
        /\ Access!Idle = AccessFacts!Idle
        BY DEF Access!Longest, AccessFacts!Longest, Access!TtlOf, AccessFacts!TtlOf,
               Access!Idle, AccessFacts!Idle
  <1>4. Access!Forever = AccessFacts!Forever /\ Access!Absent = AccessFacts!Absent
        BY <1>3 DEF Access!Forever, AccessFacts!Forever, Access!Absent, AccessFacts!Absent
  <1>5. Access!AccessAssumption => AccessFacts!AccessAssumption
        BY <1>1 DEF Access!AccessAssumption, AccessFacts!AccessAssumption
  <1>6. Access!Init => AccessFacts!Init
        BY <1>2, <1>3, <1>4 DEF Access!Init, AccessFacts!Init
  <1>7. \A known, l : Access!Kept(known, l) <=> AccessFacts!Kept(known, l)
        BY <1>3 DEF Access!Kept, AccessFacts!Kept
  <1>8. \A k, i : Access!Ask(k, i) = AccessFacts!Ask(k, i)
        BY DEF Access!Ask, AccessFacts!Ask
  <1>9. \A k, i, known : Access!From(k, i, known) = AccessFacts!From(k, i, known)
        BY <1>1, <1>7, <1>8 DEF Access!From, AccessFacts!From
  <1>10. \A r : (Access!Calling(r) <=> AccessFacts!Calling(r)) /\ Access!Of(r) = AccessFacts!Of(r)
        BY <1>1 DEF Access!Calling, AccessFacts!Calling, Access!Of, AccessFacts!Of
  <1>11. \A l, yes : Access!Stored(l, yes) = AccessFacts!Stored(l, yes)
        BY <1>2 DEF Access!Stored, AccessFacts!Stored
  <1>12. \A r, k : Access!Begin(r, k) => AccessFacts!Begin(r, k)
        BY <1>3, <1>9 DEF Access!Begin, AccessFacts!Begin
  <1>13. \A r : Access!Decide(r) => AccessFacts!Decide(r)
        BY <1>2, <1>10 DEF Access!Decide, AccessFacts!Decide, Access!Verdict, AccessFacts!Verdict
  <1>14. \A r : Access!AskRole(r) => AccessFacts!AskRole(r)
        BY <1>8, <1>10 DEF Access!AskRole, AccessFacts!AskRole
  <1>15. \A r : Access!Granted(r) => AccessFacts!Granted(r)
        BY <1>9, <1>10, <1>11 DEF Access!Granted, AccessFacts!Granted
  <1>16. \A r : Access!Lacking(r) => AccessFacts!Lacking(r)
        BY <1>10, <1>11 DEF Access!Lacking, AccessFacts!Lacking
  <1>17. \A r : Access!Fails(r) => AccessFacts!Fails(r)
        BY <1>8, <1>10, <1>11 DEF Access!Fails, AccessFacts!Fails
  <1>18. \A r : Access!Close(r) => AccessFacts!Close(r)
        BY <1>3 DEF Access!Close, AccessFacts!Close
  <1>19. \A f : (Access!Lose(f) => AccessFacts!Lose(f)) /\ (Access!Gain(f) => AccessFacts!Gain(f))
        BY <1>2 DEF Access!Lose, AccessFacts!Lose, Access!Gain, AccessFacts!Gain
  <1>20. \A l : Access!Evict(l) => AccessFacts!Evict(l)
        BY <1>4, <1>7 DEF Access!Evict, AccessFacts!Evict
  <1>21. Access!Tick => AccessFacts!Tick
        BY <1>2, <1>3, <1>4, <1>10 DEF Access!Tick, AccessFacts!Tick
  <1>22. Access!Next => AccessFacts!Next
    <2>1. ASSUME NEW r \in RequestId, NEW k \in Route, Access!Begin(r, k)
          PROVE  AccessFacts!Next
          BY <2>1, <1>12 DEF AccessFacts!Next
    <2>2. ASSUME NEW r \in RequestId, Access!Decide(r) \/ Access!AskRole(r)
          PROVE  AccessFacts!Next
          BY <2>2, <1>13, <1>14 DEF AccessFacts!Next
    <2>3. ASSUME NEW r \in RequestId, Access!Granted(r) \/ Access!Lacking(r)
          PROVE  AccessFacts!Next
          BY <2>3, <1>15, <1>16 DEF AccessFacts!Next
    <2>4. ASSUME NEW r \in RequestId, Access!Fails(r) \/ Access!Close(r)
          PROVE  AccessFacts!Next
          BY <2>4, <1>17, <1>18 DEF AccessFacts!Next
    <2>5. ASSUME NEW f \in Access!Fact, Access!Lose(f) \/ Access!Gain(f)
          PROVE  AccessFacts!Next
      <3>1. f \in AccessFacts!Fact /\ (AccessFacts!Lose(f) \/ AccessFacts!Gain(f))
            BY <2>5, <1>2, <1>19
      <3> QED BY <3>1 DEF AccessFacts!Next
    <2>6. ASSUME NEW l \in Access!Lookup, Access!Evict(l)
          PROVE  AccessFacts!Next
          BY <2>6, <1>2, <1>20 DEF AccessFacts!Next
    <2>7. ASSUME Access!Tick PROVE AccessFacts!Next
          BY <2>7, <1>21 DEF AccessFacts!Next
    <2> QED BY <2>1, <2>2, <2>3, <2>4, <2>5, <2>6, <2>7 DEF Access!Next
  <1>23. \A k : AccessFacts!RecentFor(k) => Access!RecentFor(k)
        BY <1>1, <1>2, <1>3 DEF AccessFacts!RecentFor, Access!RecentFor
  <1>24. AccessFacts!RecentWord => Access!RecentWord
        BY <1>23 DEF AccessFacts!RecentWord, Access!RecentWord
  <1> QED BY <1>5, <1>6, <1>22, <1>24

AccessPart == about = "access" => AccessFacts!AccessInv

\* A route does its work only while its session and its right are at most the TTL
\* of its last lookup and a call's timeout in the past (zabbix.py:121-265,
\* docker_routes.py:104-295).
THEOREM AccessStaysRecent == ReadsSpec => AccessIsRecent
  <1>1. AccessFacts!AccessAssumption BY ReadsAssumption, SameAccess DEF ReadsAssumption
  <1>2. ReadsInit => AccessPart
        BY <1>1, SameAccess, AccessFacts!AccessInit DEF ReadsInit, AccessPart
  <1>3. AccessPart /\ [ReadsNext]_all => AccessPart' /\ [about = "access" => Access!RecentWord]_all
    <2> SUFFICES ASSUME AccessPart, [ReadsNext]_all, about = "access"
                 PROVE  about' = about /\ AccessFacts!AccessInv' /\ (Access!RecentWord \/ UNCHANGED all)
        BY DEF AccessPart, ReadsNext, Rest, all
    <2>1. [AccessFacts!Next]_(AccessFacts!vars)
          BY SameAccess DEF ReadsNext, Rest, all, AccessFacts!vars
    <2>2. AccessFacts!AccessInv' BY <1>1, <2>1, AccessFacts!AccessStep DEF AccessPart
    <2>3. CASE Access!Next /\ Rest(<<c5, c6, c7, c8>>)
      <3>1. [AccessFacts!RecentWord]_(AccessFacts!vars)
            BY <1>1, <2>1, AccessFacts!ServedStep DEF AccessPart
      <3>2. AccessFacts!RecentWord
            BY <3>1 DEF AccessFacts!RecentWord, AccessFacts!vars
      <3> QED BY <2>2, <2>3, <3>2, SameAccess DEF Rest
    <2>4. CASE UNCHANGED all BY <2>2, <2>4 DEF all
    <2> QED BY <2>3, <2>4 DEF ReadsNext
  <1> QED BY <1>2, <1>3, PTL DEF ReadsSpec, AccessIsRecent

-----------------------------------------------------------------------------
(* A container's log: LogTail, of which LogTailProofs speaks.              *)

TailFacts == INSTANCE LogTailProofs WITH
  Writes <- Containers, MaxTime <- MaxLines, Cap <- Buffer,
  log <- c1, target <- c2, range <- c3, load <- c4, poll <- c5, lines <- c6,
  cursor <- c7, from <- c8

\* The two instances of LogTail are the same.
LEMMA SameTail ==
  /\ Logs!TailAssumption => TailFacts!TailAssumption
  /\ Logs!Init => TailFacts!Init
  /\ Logs!Next => TailFacts!Next
  /\ TailFacts!TypeOK => Logs!TypeOK
  /\ TailFacts!OneStreamIsWhole => Logs!OneStreamIsWhole
  <1>1. /\ Logs!Container = TailFacts!Container /\ Logs!Stream = TailFacts!Stream
        /\ Logs!Times = TailFacts!Times /\ Logs!Live = TailFacts!Live /\ Logs!Now = TailFacts!Now
        /\ Logs!Nothing = TailFacts!Nothing
    BY DEF Logs!Container, TailFacts!Container, Logs!Stream, TailFacts!Stream, Logs!Times,
           TailFacts!Times, Logs!Live, TailFacts!Live, Logs!Now, TailFacts!Now,
           Logs!Nothing, TailFacts!Nothing
  <1>2. Logs!Request = TailFacts!Request /\ Logs!Idle = TailFacts!Idle
    BY <1>1 DEF Logs!Request, TailFacts!Request, Logs!Idle, TailFacts!Idle
  <1>3. Logs!TailAssumption => TailFacts!TailAssumption
    BY <1>1 DEF Logs!TailAssumption, TailFacts!TailAssumption
  <1>4. TailFacts!TypeOK => Logs!TypeOK
    BY <1>1, <1>2 DEF Logs!TypeOK, TailFacts!TypeOK
  <1>5. Logs!Init => TailFacts!Init
    BY <1>1, <1>2 DEF Logs!Init, TailFacts!Init, Logs!History, TailFacts!History,
                      Logs!Ask, TailFacts!Ask
  <1>6. \A S : Logs!Cardinality(S) = TailFacts!Cardinality(S)
    BY DEF Logs!Cardinality, TailFacts!Cardinality, Logs!IsFiniteSet, TailFacts!IsFiniteSet
  <1>7. \A S : Logs!Max(S) = TailFacts!Max(S) /\ Logs!Min(S) = TailFacts!Min(S)
    BY DEF Logs!Max, TailFacts!Max, Logs!Min, TailFacts!Min
  <1>8. TailFacts!OneStreamIsWhole => Logs!OneStreamIsWhole
    <2>1. TailFacts!ToSet(c6) = Logs!ToSet(c6)
      BY DEF Logs!ToSet, TailFacts!ToSet
    <2>2. TailFacts!NoLineSkipped <=> Logs!NoLineSkipped
      BY <2>1 DEF Logs!NoLineSkipped, TailFacts!NoLineSkipped
    <2>3. TailFacts!BufferChronological <=> Logs!BufferChronological
      BY DEF Logs!BufferChronological, TailFacts!BufferChronological
    <2>4. TailFacts!OneStream <=> Logs!OneStream
      BY <1>6 DEF Logs!OneStream, TailFacts!OneStream
    <2> QED BY <2>2, <2>3, <2>4 DEF Logs!OneStreamIsWhole, TailFacts!OneStreamIsWhole
  <1>9. \A c, s : Logs!Write(c, s) => TailFacts!Write(c, s)
    BY <1>1 DEF Logs!Write, TailFacts!Write
  <1>10. \A c, r : Logs!Show(c, r) => TailFacts!Show(c, r)
    BY <1>1, <1>2 DEF Logs!Show, TailFacts!Show, Logs!History, TailFacts!History, Logs!Ask, TailFacts!Ask
  <1>11. \A s : Logs!On(s) = TailFacts!On(s)
    BY <1>1 DEF Logs!On, TailFacts!On
  <1>12. \A T, n : Logs!NewestOf(T, n) = TailFacts!NewestOf(T, n)
    BY <1>6 DEF Logs!NewestOf, TailFacts!NewestOf
  <1>13. \A q : Logs!Read(q) = TailFacts!Read(q)
    BY <1>11, <1>12 DEF Logs!Read, TailFacts!Read
  <1>14. \A T : Logs!Sorted(T) = TailFacts!Sorted(T) /\ Logs!CursorOf(T) = TailFacts!CursorOf(T)
    <2>1. \A T : Logs!Sorted(T) = TailFacts!Sorted(T)
      BY DEF Logs!Sorted, TailFacts!Sorted, Logs!Cardinality, TailFacts!Cardinality,
             Logs!IsFiniteSet, TailFacts!IsFiniteSet
    <2>2. \A T : Logs!CursorOf(T) = TailFacts!CursorOf(T)
      BY <1>7 DEF Logs!CursorOf, TailFacts!CursorOf
    <2> QED BY <2>1, <2>2
  <1>15. \A T : Logs!Merged(T) = TailFacts!Merged(T)
    BY <1>14 DEF Logs!Merged, TailFacts!Merged, Logs!ToSet, TailFacts!ToSet
  <1>16. Logs!ServeLoad => TailFacts!ServeLoad
    BY <1>13 DEF Logs!ServeLoad, TailFacts!ServeLoad
  <1>17. Logs!Loaded => TailFacts!Loaded
    BY <1>1, <1>2, <1>11, <1>12, <1>14, <1>6, <1>7 DEF Logs!Loaded, TailFacts!Loaded
  <1>18. Logs!LoadFails => TailFacts!LoadFails
    BY <1>1 DEF Logs!LoadFails, TailFacts!LoadFails
  <1>19. \A k : Logs!ServePoll(k) => TailFacts!ServePoll(k)
    BY <1>13 DEF Logs!ServePoll, TailFacts!ServePoll
  <1>20. \A k : Logs!Tick(k) => TailFacts!Tick(k)
    BY <1>1 DEF Logs!Tick, TailFacts!Tick, Logs!Poll, TailFacts!Poll, Logs!Ask, TailFacts!Ask
  <1>21. \A k : Logs!Polled(k) => TailFacts!Polled(k)
    BY <1>1, <1>14, <1>15 DEF Logs!Polled, TailFacts!Polled
  <1>22. \A k : Logs!PollFails(k) => TailFacts!PollFails(k)
    BY <1>1 DEF Logs!PollFails, TailFacts!PollFails
  <1>23. Logs!Next => TailFacts!Next
    BY <1>1, <1>9, <1>10, <1>16, <1>17, <1>18, <1>19, <1>20, <1>21, <1>22
       DEF Logs!Next, TailFacts!Next
  <1> QED BY <1>3, <1>4, <1>5, <1>8, <1>23

TailPart == about = "tail" => TailFacts!TailInv

LEMMA TailHolds == ReadsInit => TailPart
  BY ReadsAssumption, SameTail, TailFacts!TailInit DEF ReadsAssumption, ReadsInit, TailPart

LEMMA TailKept == TailPart /\ [ReadsNext]_all => TailPart'
  <1> SUFFICES ASSUME TailFacts!TailInv, [ReadsNext]_all, about = "tail"
               PROVE  about' = about /\ TailFacts!TailInv'
    BY DEF TailPart, ReadsNext, Rest, all
  <1>1. [TailFacts!Next]_(TailFacts!vars) /\ about' = about
    BY SameTail DEF ReadsNext, Rest, all, TailFacts!vars
  <1>2. TailFacts!TailAssumption
    BY ReadsAssumption, SameTail DEF ReadsAssumption
  <1> QED BY <1>1, <1>2, TailFacts!TailStep

\* The log of a container that writes to one stream is shown in order and
\* without gaps while the buffer has room, once a load has answered with no poll
\* under way, however many polls overlapped with it before
\* (use-docker-logs.ts:52-106, docker_hosts.py:276-314, 892-937).
THEOREM TailStaysWhole == ReadsSpec => []TailIsWhole
  <1>1. TailPart => TailIsWhole
    <2>1. TailFacts!TailAssumption
      BY ReadsAssumption, SameTail DEF ReadsAssumption
    <2> QED BY <2>1, SameTail, TailFacts!WholeHolds DEF TailPart, TailIsWhole
  <1> QED BY <1>1, TailHolds, TailKept, PTL DEF ReadsSpec

-----------------------------------------------------------------------------
(* The search: GraylogSearch.  What it sorts is a set with its order, in   *)
(* which the n-th has n - 1 before it; what a merge keeps and what a page  *)
(* cuts are facts about these ranks.                                       *)

\* How many of a set come before one of them, in a strict order of the set.
RankOf(S, R, x) == Cardinality({y \in S : <<y, x>> \in R})

Strict(S, R) ==
  /\ \A x \in S : <<x, x>> \notin R
  /\ \A x, y, z \in S : <<x, y>> \in R /\ <<y, z>> \in R => <<x, z>> \in R
Total(S, R) == \A x, y \in S : x = y \/ <<x, y>> \in R \/ <<y, x>> \in R

\* What comes later has more before it.
LEMMA RanksRise ==
  ASSUME NEW S, IsFiniteSet(S), NEW R, Strict(S, R), NEW x \in S
  PROVE  /\ RankOf(S, R, x) \in 0..Cardinality(S) - 1
         /\ \A y \in S : <<x, y>> \in R => RankOf(S, R, x) < RankOf(S, R, y)
  <1> DEFINE Under(z) == {y \in S : <<y, z>> \in R}
  <1>1. \A z \in S : IsFiniteSet(Under(z)) /\ Cardinality(Under(z)) \in Nat
    BY FS_Subset, FS_CardinalityType
  <1>2. Cardinality(S) \in Nat
    BY FS_CardinalityType
  <1>3. Cardinality(Under(x)) < Cardinality(S)
    <2>1. Under(x) \in SUBSET S /\ x \notin Under(x)
      BY DEF Strict
    <2> HIDE DEF Under
    <2> QED BY <2>1, <1>1, <1>2, FS_Subset
  <1>4. ASSUME NEW y \in S, <<x, y>> \in R PROVE Cardinality(Under(x)) < Cardinality(Under(y))
    <2>1. Under(x) \in SUBSET Under(y) /\ x \notin Under(x) /\ x \in Under(y)
      BY <1>4 DEF Strict
    <2> HIDE DEF Under
    <2> QED BY <2>1, <1>1, FS_Subset
  <1> QED BY <1>1, <1>2, <1>3, <1>4 DEF RankOf

\* Every rank is taken, by one.
LEMMA EveryRank ==
  ASSUME NEW S, IsFiniteSet(S), NEW R, Strict(S, R), Total(S, R)
  PROVE  /\ \A i \in 0..Cardinality(S) - 1 : \E x \in S : RankOf(S, R, x) = i
         /\ \A x, y \in S : RankOf(S, R, x) = RankOf(S, R, y) => x = y
         /\ \A x, y \in S : <<x, y>> \in R <=> RankOf(S, R, x) < RankOf(S, R, y)
  <1> DEFINE n == Cardinality(S)
             rank == [x \in S |-> RankOf(S, R, x)]
  <1>1. n \in Nat
    BY FS_CardinalityType
  <1>2. IsFiniteSet(0..n - 1) /\ Cardinality(0..n - 1) = n
    BY <1>1, FS_Interval
  <1>3. rank \in [S -> 0..n - 1]
    BY RanksRise
  <1>4. ASSUME NEW x \in S, NEW y \in S
        PROVE  /\ RankOf(S, R, x) = RankOf(S, R, y) => x = y
               /\ <<x, y>> \in R <=> RankOf(S, R, x) < RankOf(S, R, y)
    <2>1. /\ RankOf(S, R, x) \in Int /\ RankOf(S, R, y) \in Int
          /\ <<x, y>> \in R => RankOf(S, R, x) < RankOf(S, R, y)
          /\ <<y, x>> \in R => RankOf(S, R, y) < RankOf(S, R, x)
      BY <1>1, RanksRise
    <2> QED BY <2>1 DEF Total
  <1>5. rank \in Injection(S, 0..n - 1)
    BY <1>3, <1>4 DEF Injection, IsInjective
  <1>6. rank \in Surjection(S, 0..n - 1)
    <2> HIDE DEF rank
    <2> QED BY <1>5, <1>2, FS_Injection
  <1>7. ASSUME NEW i \in 0..n - 1 PROVE \E x \in S : RankOf(S, R, x) = i
    <2>1. \E x \in S : rank[x] = i
      <3> HIDE DEF rank, n
      <3> QED BY <1>6 DEF Surjection
    <2> QED BY <2>1
  <1> QED BY <1>4, <1>7

\* One has nothing before it.
LEMMA OneIsFirst ==
  ASSUME NEW S, IsFiniteSet(S), S # {}, NEW R, Strict(S, R), Total(S, R)
  PROVE  \E x \in S : \A y \in S : <<y, x>> \notin R
  <1>1. 0 \in 0..Cardinality(S) - 1
    <2>1. Cardinality(S) \in Nat \ {0}
      BY FS_CardinalityType, FS_EmptySet
    <2> QED BY <2>1
  <1>2. PICK x \in S : RankOf(S, R, x) = 0
    BY <1>1, EveryRank
  <1>3. IsFiniteSet({y \in S : <<y, x>> \in R})
    BY FS_Subset
  <1>4. {y \in S : <<y, x>> \in R} = {}
    BY <1>2, <1>3, FS_EmptySet DEF RankOf
  <1> QED BY <1>4

\* A set of some of the first numbers has a least.
LEMMA OneIsLeast ==
  ASSUME NEW n \in Nat, NEW B \in SUBSET (0..n), B # {}
  PROVE  \E x \in B : \A y \in B : x <= y
  <1> DEFINE up == {p \in B \X B : p[1] < p[2]}
  <1>1. \A x, y \in B : <<x, y>> \in up <=> x < y
    BY Zenon
  <1>2. IsFiniteSet(B)
    <2>1. IsFiniteSet(0..n)
      <3>1. 0 \in Int /\ n \in Int
        OBVIOUS
      <3> QED BY <3>1, FS_Interval
    <2> QED BY <2>1, FS_Subset
  <1> HIDE DEF up
  <1>3. B \subseteq Int
    OBVIOUS
  <1>4. Strict(B, up) /\ Total(B, up)
    BY <1>1, <1>3 DEF Strict, Total
  <1>5. PICK x \in B : \A y \in B : <<y, x>> \notin up
    BY <1>2, <1>4, OneIsFirst
  <1>6. ASSUME NEW y \in B PROVE x <= y
    <2>1. ~(y < x) /\ x \in Int /\ y \in Int
      BY <1>1, <1>3, <1>5
    <2> QED BY <2>1
  <1> QED BY <1>6


\* The instance counts as this module does.
LEMMA SearchCounts == \A S : Search!Cardinality(S) = Cardinality(S)
  BY DEF Search!Cardinality, Search!IsFiniteSet, Cardinality, IsFiniteSet

\* What a merge is of: messages, each in a place of its own.
Sent(S) ==
  /\ IsFiniteSet(S)
  /\ \A m \in S : m.ts \in Int /\ m.srv \in Int /\ m.at \in Int
  /\ \A m, n \in S : m.srv = n.srv /\ m.at = n.at => m = n

Order(S) == {p \in S \X S : Search!Before(p[1], p[2])}

LEMMA SomeAreSent ==
  ASSUME NEW S, Sent(S), NEW T \in SUBSET S PROVE Sent(T)
  BY FS_Subset DEF Sent

\* The order of a merge is one, by time.
LEMMA MergeIsOrdered ==
  ASSUME NEW S, Sent(S)
  PROVE  /\ \A m, n \in S : <<m, n>> \in Order(S) <=> Search!Before(m, n)
         /\ Strict(S, Order(S)) /\ Total(S, Order(S))
         /\ \A m, n \in S : Search!Before(m, n) => m.ts >= n.ts /\ m # n /\ ~Search!Before(n, m)
         /\ \A m, n, k \in S : Search!Before(m, n) /\ Search!Before(n, k) => Search!Before(m, k)
         /\ \A m, n \in S : m = n \/ Search!Before(m, n) \/ Search!Before(n, m)
  <1>1. \A m, n \in S : <<m, n>> \in Order(S) <=> Search!Before(m, n)
    BY DEF Order
  <1>2. \A m, n \in S : Search!Before(m, n) => m.ts >= n.ts /\ m # n /\ ~Search!Before(n, m)
    BY DEF Sent, Search!Before
  <1>3. \A m, n, k \in S : Search!Before(m, n) /\ Search!Before(n, k) => Search!Before(m, k)
    BY DEF Sent, Search!Before
  <1>4. ASSUME NEW m \in S, NEW n \in S PROVE m = n \/ Search!Before(m, n) \/ Search!Before(n, m)
    BY DEF Sent, Search!Before
  <1>5. Strict(S, Order(S)) /\ Total(S, Order(S))
    BY <1>1, <1>2, <1>3, <1>4 DEF Strict, Total
  <1> QED BY <1>1, <1>2, <1>3, <1>4, <1>5

\* A row has a first and a last.
LEMMA RowsHaveEnds ==
  ASSUME NEW S, Sent(S), NEW r \in SUBSET S, r # {}
  PROVE  /\ Search!First(r) \in r /\ \A m \in r : m = Search!First(r) \/ Search!Before(Search!First(r), m)
         /\ Search!Last(r) \in r /\ \A m \in r : m = Search!Last(r) \/ Search!Before(m, Search!Last(r))
         /\ \A m \in r : (\A n \in r : n = m \/ Search!Before(m, n)) => m = Search!First(r)
  <1>1. Sent(r)
    BY SomeAreSent
  <1>2. PICK a \in r : \A m \in r : <<m, a>> \notin Order(r)
    BY <1>1, MergeIsOrdered, OneIsFirst DEF Sent
  <1>3. \A m \in r \ {a} : Search!Before(a, m)
    BY <1>1, <1>2, MergeIsOrdered
  <1>4. Search!First(r) \in r /\ \A m \in r \ {Search!First(r)} : Search!Before(Search!First(r), m)
    BY <1>3 DEF Search!First
  <1> DEFINE back == {p \in r \X r : <<p[2], p[1]>> \in Order(r)}
  <1>5. \A m, n \in r : <<m, n>> \in back <=> <<n, m>> \in Order(r)
    OBVIOUS
  <1> HIDE DEF back
  <1>6. Strict(r, back) /\ Total(r, back)
    <2>1. Strict(r, Order(r)) /\ Total(r, Order(r))
      BY <1>1, MergeIsOrdered
    <2>2. Strict(r, back)
      BY <1>5, <2>1 DEF Strict
    <2>3. Total(r, back)
      BY <1>5, <2>1 DEF Total
    <2> QED BY <2>2, <2>3
  <1>7. PICK z \in r : \A m \in r : <<m, z>> \notin back
    BY <1>1, <1>6, OneIsFirst DEF Sent
  <1>8. \A m \in r \ {z} : Search!Before(m, z)
    BY <1>1, <1>5, <1>7, MergeIsOrdered
  <1>9. Search!Last(r) \in r /\ \A m \in r \ {Search!Last(r)} : Search!Before(m, Search!Last(r))
    BY <1>8 DEF Search!Last
  <1>10. \A m \in r : (\A n \in r : n = m \/ Search!Before(m, n)) => m = Search!First(r)
    BY <1>1, <1>4, MergeIsOrdered
  <1> QED BY <1>4, <1>9, <1>10

\* The rows of a merge of S: each is of one line, within the window, and with
\* one message of a server at most; together they are S.
Groups(R, S) ==
  /\ \A r \in R : r \in SUBSET S /\ r # {}
  /\ \A m \in S : \E r \in R : m \in r
  /\ \A r, q \in R : \A m \in r : m \in q => r = q
  /\ \A r \in R : \A m, n \in r :
       m.line = n.line /\ m.ts - n.ts <= Window /\ (m.srv = n.srv => m = n)

\* No two of them could be one.
Apart(R) ==
  \A r, q \in R :
    r # q /\ Search!First(r).line = Search!First(q).line
          /\ Search!First(r).ts - Search!First(q).ts \in 0..Window
      => \E m \in r, n \in q : m.srv = n.srv

LEMMA WindowIsNat == Window \in Nat /\ Limit \in Nat \ {0} /\ Len(Servers) \in Nat
  BY ReadsAssumption DEF Search!SearchAssumption

\* Rows begin and end with messages of theirs, which are of no other row.
LEMMA RowsBegin ==
  ASSUME NEW S, Sent(S), NEW R, Groups(R, S), NEW r \in R
  PROVE  /\ Search!First(r) \in r /\ \A m \in r : m = Search!First(r) \/ Search!Before(Search!First(r), m)
         /\ Search!Last(r) \in r /\ \A m \in r : m = Search!Last(r) \/ Search!Before(m, Search!Last(r))
         /\ Search!First(r) \in S /\ Search!Last(r) \in S
         /\ \A q \in R : Search!First(q) = Search!First(r) => q = r
  <1>1. ASSUME NEW q \in R
        PROVE  q \in SUBSET S /\ q # {} /\ Search!First(q) \in q
    <2>1. q \in SUBSET S /\ q # {}
      BY DEF Groups
    <2> QED BY <2>1, RowsHaveEnds
  <1>2. \A q \in R : Search!First(q) = Search!First(r) => q = r
    BY <1>1 DEF Groups
  <1>3. r \in SUBSET S /\ r # {}
    BY <1>1
  <1> QED BY <1>2, <1>3, RowsHaveEnds

\* One of some rows was begun first.
LEMMA OneWasBegunFirst ==
  ASSUME NEW S, Sent(S), NEW R, Groups(R, S), NEW Q \in SUBSET R, Q # {}
  PROVE  \E r \in Q : \A q \in Q \ {r} : Search!Before(Search!First(r), Search!First(q))
  <1> DEFINE A == {Search!First(r) : r \in Q}
  <1>1. A \in SUBSET S /\ A # {}
    BY RowsBegin
  <1>2. Sent(A)
    BY <1>1, SomeAreSent
  <1>3. PICK a \in A : \A b \in A : <<b, a>> \notin Order(A)
    <2> HIDE DEF A
    <2> QED BY <1>1, <1>2, MergeIsOrdered, OneIsFirst DEF Sent
  <1>4. PICK r \in Q : a = Search!First(r)
    BY <1>3
  <1>5. ASSUME NEW q \in Q \ {r} PROVE Search!Before(Search!First(r), Search!First(q))
    <2>1. Search!First(q) \in A /\ Search!First(q) # Search!First(r)
      BY RowsBegin
    <2> QED BY <2>1, <1>2, <1>3, <1>4, MergeIsOrdered
  <1> QED BY <1>5

\* A message that comes after all others keeps the rows as they should be.
LEMMA JoinKeeps ==
  ASSUME NEW S, Sent(S), NEW T \in SUBSET S, NEW m \in S, m \notin T,
         \A n \in T : Search!Before(n, m),
         NEW R, Groups(R, T), Apart(R)
  PROVE  Groups(Search!Join(R, m), T \cup {m}) /\ Apart(Search!Join(R, m))
  <1>4. \A r \in R : r \in SUBSET T /\ r # {}
    BY DEF Groups
  <1> DEFINE J     == Search!Join(R, m)
             fits  == {r \in R : /\ Search!First(r).line = m.line /\ \A c \in r : c.srv # m.srv
                                 /\ Search!First(r).ts - m.ts <= Window}
             match == CHOOSE r \in fits : \A q \in fits \ {r} : Search!Before(Search!First(r), Search!First(q))
  <1>0. Sent(T) /\ Sent(T \cup {m}) /\ T \cup {m} \in SUBSET S
    BY SomeAreSent
  <1>1. \A r \in R : /\ Search!First(r) \in r
                     /\ \A n \in r : n = Search!First(r) \/ Search!Before(Search!First(r), n)
    BY <1>0, RowsBegin
  <1>2. \A r \in R : \A n \in r : n \in T /\ n \in S /\ n.ts \in Int /\ n.ts >= m.ts
    BY MergeIsOrdered DEF Groups, Sent
  <1>3. m.ts \in Int /\ Window \in Nat
    BY WindowIsNat DEF Sent
  <1>5. CASE fits = {}
    <2>1. J = R \cup {{m}}
      BY <1>5 DEF Search!Join
    <2>2. Search!First({m}) = m
      BY <1>0, RowsHaveEnds
    <2>3. Groups(R \cup {{m}}, T \cup {m})
      <3>1. \A r \in R \cup {{m}} : r \in SUBSET (T \cup {m}) /\ r # {}
        BY <1>4
      <3>4. \A n \in T \cup {m} : \E r \in R \cup {{m}} : n \in r
        BY DEF Groups
      <3>2. ASSUME NEW r \in R \cup {{m}}, NEW q \in R \cup {{m}}, NEW n \in r, n \in q PROVE r = q
        <4>1. CASE r \in R /\ q \in R
          BY <4>1, <3>2 DEF Groups
        <4>2. CASE n = m
          <5>1. \A a \in R : m \notin a
            BY <1>4
          <5> QED BY <4>2, <5>1, <3>2
        <4>3. CASE n # m
          BY <4>1, <4>3, <3>2
        <4> QED BY <4>2, <4>3
      <3>3. ASSUME NEW r \in R \cup {{m}}, NEW a \in r, NEW b \in r
            PROVE  a.line = b.line /\ a.ts - b.ts <= Window /\ (a.srv = b.srv => a = b)
        <4>1. CASE r \in R
          BY <4>1 DEF Groups
        <4>2. CASE r = {m}
          BY <4>2, <1>3
        <4> QED BY <4>1, <4>2
      <3> QED BY <3>1, <3>2, <3>3, <3>4 DEF Groups
    <2>4. Apart(R \cup {{m}})
      <3>1. ASSUME NEW r \in R, Search!First(r).line = m.line, Search!First(r).ts - m.ts <= Window
            PROVE  \E c \in r : c.srv = m.srv
        BY <3>1, <1>5
      <3>2. ASSUME NEW r \in R \cup {{m}}, NEW q \in R \cup {{m}}, r # q,
                   Search!First(r).line = Search!First(q).line,
                   Search!First(r).ts - Search!First(q).ts \in 0..Window
            PROVE  \E a \in r, b \in q : a.srv = b.srv
        <4>1. CASE r \in R /\ q \in R
          BY <4>1, <3>2 DEF Apart
        <4>2. CASE r \in R /\ q = {m}
          <5>1. Search!First(r).line = m.line /\ Search!First(r).ts - m.ts <= Window
            BY <4>2, <3>2, <2>2, <1>1, <1>2, <1>3
          <5> QED BY <5>1, <4>2, <3>1
        <4>3. CASE r = {m} /\ q \in R
          <5>1. Search!First(q).line = m.line
            BY <4>3, <3>2, <2>2
          <5>2. Search!First(q).ts \in Int /\ Search!First(q).ts >= m.ts
            BY <4>3, <1>1, <1>2
          <5>3. m.ts - Search!First(q).ts \in 0..Window
            BY <4>3, <3>2, <2>2
          <5>4. Search!First(q).ts - m.ts <= Window
            BY <5>2, <5>3, <1>3
          <5> QED BY <5>1, <5>4, <4>3, <3>1
        <4> QED BY <4>1, <4>2, <4>3, <3>2
      <3> QED BY <3>2 DEF Apart
    <2> QED BY <2>1, <2>3, <2>4
  <1>6. CASE fits # {}
    <2>1. fits \in SUBSET R
      OBVIOUS
    <2>2. \E r \in fits : \A q \in fits \ {r} : Search!Before(Search!First(r), Search!First(q))
      <3> HIDE DEF fits
      <3> QED BY <1>0, <1>6, <2>1, OneWasBegunFirst
    <2>3. match \in fits
      BY <2>2
    <2> DEFINE row == match \cup {m}
               G   == (R \ {match}) \cup {row}
    <2>4. J = G
      BY <1>6 DEF Search!Join
    <2>5. /\ match \in R /\ Search!First(match).line = m.line
          /\ \A c \in match : c.srv # m.srv
          /\ Search!First(match).ts - m.ts <= Window
      BY <2>3
    <2> HIDE DEF match, fits, J
    <2>6. Search!First(row) = Search!First(match)
      <3>1. row \in SUBSET (T \cup {m}) /\ row # {}
        BY <1>4, <2>5
      <3>2. Search!First(match) \in row
        BY <1>1, <2>5
      <3>3. \A n \in row : n = Search!First(match) \/ Search!Before(Search!First(match), n)
        BY <1>1, <1>4, <2>5
      <3> HIDE DEF row
      <3> QED BY <3>1, <3>2, <3>3, <1>0, RowsHaveEnds
    <2>7. \A c \in match : c.line = m.line /\ c.ts - m.ts <= Window /\ m.ts - c.ts <= Window
      <3>1. ASSUME NEW c \in match PROVE c.line = m.line /\ c.ts - m.ts <= Window /\ m.ts - c.ts <= Window
        <4>1. c.line = Search!First(match).line
          BY <1>1, <2>5 DEF Groups
        <4>2. Search!First(match).ts >= c.ts
          BY <1>1, <1>2, <2>5, MergeIsOrdered
        <4>3. c.ts \in Int /\ c.ts >= m.ts /\ Search!First(match).ts \in Int
          BY <1>1, <1>2, <2>5
        <4> QED BY <4>1, <4>2, <4>3, <1>3, <2>5
      <3> QED BY <3>1
    <2>8. Groups(G, T \cup {m})
      <3>1. \A r \in G : r \in SUBSET (T \cup {m}) /\ r # {}
        BY <1>4, <2>5
      <3>2. ASSUME NEW n \in T \cup {m} PROVE \E r \in G : n \in r
        <4>1. CASE n = m
          BY <4>1
        <4>2. CASE n \in T
          <5>1. PICK r \in R : n \in r
            BY <4>2 DEF Groups
          <5>2. (IF r = match THEN row ELSE r) \in G /\ n \in (IF r = match THEN row ELSE r)
            BY <5>1
          <5> HIDE DEF G
          <5> QED BY <5>2
        <4> QED BY <4>1, <4>2
      <3>3. ASSUME NEW r \in G, NEW q \in G, NEW n \in r, n \in q PROVE r = q
        <4>1. CASE r = row /\ q = row
          BY <4>1
        <4>2. CASE r \in R \ {match} /\ q \in R \ {match}
          BY <4>2, <3>3 DEF Groups
        <4>3. ASSUME NEW a \in R \ {match}, n \in a, n \in row PROVE FALSE
          <5>1. n \in T
            BY <4>3, <1>4
          <5>2. n \in match
            BY <5>1, <4>3
          <5> QED BY <5>2, <4>3, <2>5 DEF Groups
        <4> QED BY <4>1, <4>2, <4>3, <3>3
      <3>4. ASSUME NEW r \in G, NEW a \in r, NEW b \in r
            PROVE  a.line = b.line /\ a.ts - b.ts <= Window /\ (a.srv = b.srv => a = b)
        <4>1. CASE r \in R
          BY <4>1 DEF Groups
        <4>2. CASE r = row
          <5>1. CASE a = m /\ b = m
            BY <5>1, <1>3
          <5>2. CASE a \in match /\ b = m
            BY <5>2, <2>5, <2>7
          <5>3. CASE a = m /\ b \in match
            BY <5>3, <2>5, <2>7
          <5>4. CASE a \in match /\ b \in match
            BY <5>4, <2>5 DEF Groups
          <5> QED BY <4>2, <5>1, <5>2, <5>3, <5>4
        <4> QED BY <4>1, <4>2
      <3> HIDE DEF G
      <3> QED BY <3>1, <3>2, <3>3, <3>4 DEF Groups
    <2>9. Apart(G)
      <3>1. ASSUME NEW r \in G, NEW q \in G, r # q,
                   Search!First(r).line = Search!First(q).line,
                   Search!First(r).ts - Search!First(q).ts \in 0..Window
            PROVE  \E a \in r, b \in q : a.srv = b.srv
        <4> DEFINE old(x) == IF x = row THEN match ELSE x
        <4>1. \A x \in G : old(x) \in R /\ old(x) \subseteq x /\ Search!First(old(x)) = Search!First(x)
          BY <2>5, <2>6
        <4>2. old(r) # old(q)
          BY <3>1
        <4> HIDE DEF old
        <4>3. \E a \in old(r), b \in old(q) : a.srv = b.srv
          BY <3>1, <4>1, <4>2 DEF Apart
        <4> QED BY <4>1, <4>3
      <3> HIDE DEF G
      <3> QED BY <3>1 DEF Apart
    <2> HIDE DEF G
    <2> QED BY <2>4, <2>8, <2>9 DEF J
  <1> QED BY <1>5, <1>6

\* The n-th of a merge has n - 1 messages before it.
LEMMA NthIsNth ==
  ASSUME NEW S, Sent(S), NEW n \in 1..Cardinality(S)
  PROVE  Search!Nth(S, n) \in S /\ RankOf(S, Order(S), Search!Nth(S, n)) = n - 1
  <1>1. \A m \in S : Search!Cardinality({k \in S : Search!Before(k, m)}) = RankOf(S, Order(S), m)
    <2>1. ASSUME NEW m \in S PROVE {k \in S : Search!Before(k, m)} = {k \in S : <<k, m>> \in Order(S)}
      BY MergeIsOrdered
    <2> QED BY <2>1, SearchCounts DEF RankOf
  <1>2. Cardinality(S) \in Nat
    BY FS_CardinalityType DEF Sent
  <1>3. n - 1 \in 0..Cardinality(S) - 1
    BY <1>2
  <1>4. \E m \in S : RankOf(S, Order(S), m) = n - 1
    BY <1>3, MergeIsOrdered, EveryRank DEF Sent
  <1>5. \E m \in S : Search!Cardinality({k \in S : Search!Before(k, m)}) = n - 1
    BY <1>1, <1>4
  <1>6. Search!Nth(S, n) \in S /\ Search!Cardinality({k \in S : Search!Before(k, Search!Nth(S, n))}) = n - 1
    BY <1>5 DEF Search!Nth
  <1> QED BY <1>1, <1>6

\* The rows after each of the first k messages.
Steps(f, S, k) ==
  f = [n \in 0..k |-> IF n = 0 THEN {} ELSE Search!Join(f[n - 1], Search!Nth(S, n))]

LEMMA StepsExist ==
  ASSUME NEW S, NEW c \in Nat
  PROVE  \E f : Steps(f, S, c)
  <1> DEFINE Bad == {k \in 0..c : ~\E f : Steps(f, S, k)}
  <1>1. ASSUME Bad # {} PROVE FALSE
    <2>1. PICK x \in Bad : \A y \in Bad : x <= y
      <3>1. Bad \in SUBSET (0..c)
        OBVIOUS
      <3> HIDE DEF Bad
      <3> QED BY <1>1, <3>1, OneIsLeast
    <2>2. CASE x = 0
      <3>1. Steps([n \in 0..0 |-> {}], S, 0)
        BY DEF Steps
      <3> QED BY <2>2, <3>1
    <2>3. CASE x # 0
      <3>1. x \in 1..c /\ x - 1 \in 0..c
        BY <2>3
      <3>2. x - 1 \notin Bad
        BY <2>1, <3>1
      <3>3. PICK f : Steps(f, S, x - 1)
        BY <3>1, <3>2
      <3> DEFINE g == [n \in 0..x |-> IF n < x THEN f[n] ELSE Search!Join(f[x - 1], Search!Nth(S, x))]
      <3>4. \A n \in 0..x - 1 : f[n] = IF n = 0 THEN {} ELSE Search!Join(f[n - 1], Search!Nth(S, n))
        BY <3>3 DEF Steps
      <3>5. ASSUME NEW n \in 0..x
            PROVE  g[n] = IF n = 0 THEN {} ELSE Search!Join(g[n - 1], Search!Nth(S, n))
        <4>1. CASE n = 0
          BY <4>1, <3>1, <3>4
        <4>2. CASE n # 0 /\ n < x
          <5>1. n \in 0..x - 1 /\ n - 1 \in 0..x /\ n - 1 < x
            BY <4>2, <3>1
          <5>2. g[n] = f[n] /\ g[n - 1] = f[n - 1]
            BY <5>1, <4>2
          <5> HIDE DEF g
          <5> QED BY <5>1, <5>2, <4>2, <3>4
        <4>3. CASE n = x
          <5>1. n - 1 \in 0..x /\ n - 1 < x /\ n # 0
            BY <4>3, <3>1
          <5>2. g[n] = Search!Join(f[x - 1], Search!Nth(S, x)) /\ g[n - 1] = f[x - 1]
            BY <5>1, <4>3
          <5> HIDE DEF g
          <5> QED BY <5>1, <5>2, <4>3
        <4> QED BY <4>1, <4>2, <4>3, <3>1
      <3>6. Steps(g, S, x)
        <4>1. g = [n \in 0..x |-> g[n]]
          OBVIOUS
        <4> HIDE DEF g
        <4> QED BY <4>1, <3>5 DEF Steps
      <3> QED BY <3>6
    <2> QED BY <2>2, <2>3
  <1>2. c \in 0..c
    OBVIOUS
  <1> QED BY <1>1, <1>2

\* Every step leaves rows of the messages it has taken.
LEMMA StepsKeep ==
  ASSUME NEW S, Sent(S), NEW f, Steps(f, S, Cardinality(S))
  PROVE  Groups(f[Cardinality(S)], S) /\ Apart(f[Cardinality(S)])
  <1> DEFINE c        == Cardinality(S)
             rank(m)  == RankOf(S, Order(S), m)
             Under(k) == {m \in S : rank(m) < k}
             Good(k)  == Groups(f[k], Under(k)) /\ Apart(f[k])
             Bad      == {k \in 0..c : ~Good(k)}
  <1>1. c \in Nat /\ IsFiniteSet(S)
    BY FS_CardinalityType DEF Sent
  <1>2. \A m \in S : rank(m) \in 0..c - 1
    BY <1>1, MergeIsOrdered, RanksRise
  <1>3. \A n \in 0..c : f[n] = IF n = 0 THEN {} ELSE Search!Join(f[n - 1], Search!Nth(S, n))
    BY DEF Steps
  <1>4. ASSUME Bad # {} PROVE FALSE
    <2>1. PICK x \in Bad : \A y \in Bad : x <= y
      <3>1. Bad \in SUBSET (0..c)
        OBVIOUS
      <3> HIDE DEF Bad
      <3> QED BY <1>1, <1>4, <3>1, OneIsLeast
    <2>2. CASE x = 0
      <3>1. f[0] = {}
        BY <1>1, <1>3
      <3>2. Under(0) = {}
        <4> HIDE DEF rank
        <4> QED BY <1>1, <1>2
      <3>3. Groups({}, {}) /\ Apart({})
        BY DEF Groups, Apart
      <3> QED BY <2>1, <2>2, <3>1, <3>2, <3>3
    <2>3. CASE x # 0
      <3> DEFINE m == Search!Nth(S, x)
      <3>1. x \in 1..c /\ x - 1 \in 0..c
        BY <1>1, <2>1, <2>3
      <3>2. Good(x - 1)
        <4> HIDE DEF Good
        <4> QED BY <2>1, <3>1
      <3>3. m \in S /\ rank(m) = x - 1
        BY <3>1, NthIsNth
      <3> HIDE DEF m
      <3>4. Under(x - 1) \in SUBSET S /\ m \notin Under(x - 1)
        <4> HIDE DEF rank
        <4> QED BY <3>1, <3>3
      <3>5. \A n \in Under(x - 1) : Search!Before(n, m)
        <4>1. \A n \in S : rank(n) < rank(m) => Search!Before(n, m)
          BY <1>1, <3>3, MergeIsOrdered, EveryRank
        <4> HIDE DEF rank
        <4> QED BY <4>1, <3>3
      <3>6. Under(x) = Under(x - 1) \cup {m}
        <4>1. \A n \in S : rank(n) = rank(m) => n = m
          BY <1>1, <3>3, MergeIsOrdered, EveryRank
        <4>2. ASSUME NEW n \in S PROVE rank(n) < x <=> (rank(n) < x - 1 \/ n = m)
          <5>1. rank(n) \in Int /\ rank(m) = x - 1 /\ x \in Int
            BY <1>1, <1>2, <3>1, <3>3
          <5>2. n # m => rank(n) # rank(m)
            BY <4>1
          <5>3. n = m => rank(n) = rank(m)
            OBVIOUS
          <5> HIDE DEF rank
          <5> QED BY <5>1, <5>2, <5>3
        <4> HIDE DEF rank
        <4> QED BY <4>2, <3>3
      <3>7. f[x] = Search!Join(f[x - 1], m)
        BY <1>1, <1>3, <3>1 DEF m
      <3>8. Groups(Search!Join(f[x - 1], m), Under(x - 1) \cup {m}) /\ Apart(Search!Join(f[x - 1], m))
        <4> HIDE DEF Under
        <4> QED BY <3>2, <3>3, <3>4, <3>5, JoinKeeps
      <3>9. Good(x)
        <4> HIDE DEF Under
        <4> QED BY <3>6, <3>7, <3>8
      <3> QED BY <2>1, <3>9
    <2> QED BY <2>2, <2>3
  <1>5. Good(c)
    <2> HIDE DEF Good
    <2> QED BY <1>1, <1>4
  <1>6. Under(c) = S
    <2> HIDE DEF rank
    <2> QED BY <1>1, <1>2
  <1> QED
    <2> HIDE DEF Under
    <2> QED BY <1>5, <1>6

LEMMA DedupedIsSound ==
  ASSUME NEW S, Sent(S)
  PROVE  Groups(Search!Deduped(S), S) /\ Apart(Search!Deduped(S))
  <1> DEFINE c == Cardinality(S)
             f == CHOOSE f : Steps(f, S, c)
  <1>1. Search!Deduped(S) = f[c]
    BY SearchCounts DEF Search!Deduped, Steps
  <1>2. c \in Nat
    BY FS_CardinalityType DEF Sent
  <1>3. Steps(f, S, c)
    <2> HIDE DEF c
    <2> QED BY <1>2, StepsExist
  <1> HIDE DEF f
  <1> QED BY <1>1, <1>3, StepsKeep

Heights(R) == {p \in R \X R : Search!Above(p[1], p[2])}

\* Rows have an order, the later time below.
LEMMA RowsAreOrdered ==
  ASSUME NEW S, Sent(S), NEW R, Groups(R, S)
  PROVE  /\ IsFiniteSet(R) /\ Strict(R, Heights(R)) /\ Total(R, Heights(R))
         /\ \A r, q \in R : <<r, q>> \in Heights(R) <=> Search!Above(r, q)
  <1>1. IsFiniteSet(R)
    <2>1. R \in SUBSET SUBSET S
      BY DEF Groups
    <2>2. IsFiniteSet(SUBSET S)
      BY FS_SUBSET DEF Sent
    <2> QED BY <2>1, <2>2, FS_Subset
  <1>2. \A r, q \in R : <<r, q>> \in Heights(R) <=> Search!Above(r, q)
    BY DEF Heights
  <1>3. \A r \in R : Search!First(r) \in S /\ Search!Last(r) \in S /\ Search!Last(r).ts \in Int
    BY RowsBegin DEF Sent
  <1>4. \A r, q \in R : Search!First(r) = Search!First(q) => r = q
    BY RowsBegin
  <1>5. ASSUME NEW r \in R PROVE ~Search!Above(r, r)
    BY <1>3, MergeIsOrdered DEF Search!Above
  <1>6. ASSUME NEW r \in R, NEW q \in R, NEW t \in R, Search!Above(r, q), Search!Above(q, t)
        PROVE  Search!Above(r, t)
    <2>1. \/ Search!Last(r).ts > Search!Last(q).ts
          \/ Search!Last(r).ts = Search!Last(q).ts /\ Search!Before(Search!First(r), Search!First(q))
      BY <1>6 DEF Search!Above
    <2>2. \/ Search!Last(q).ts > Search!Last(t).ts
          \/ Search!Last(q).ts = Search!Last(t).ts /\ Search!Before(Search!First(q), Search!First(t))
      BY <1>6 DEF Search!Above
    <2>3. Search!Before(Search!First(r), Search!First(q)) /\ Search!Before(Search!First(q), Search!First(t))
            => Search!Before(Search!First(r), Search!First(t))
      BY <1>3, MergeIsOrdered
    <2>4. Search!Last(r).ts \in Int /\ Search!Last(q).ts \in Int /\ Search!Last(t).ts \in Int
      BY <1>3
    <2> QED BY <2>1, <2>2, <2>3, <2>4 DEF Search!Above
  <1>7. ASSUME NEW r \in R, NEW q \in R, r # q PROVE Search!Above(r, q) \/ Search!Above(q, r)
    <2>1. Search!Before(Search!First(r), Search!First(q)) \/ Search!Before(Search!First(q), Search!First(r))
      BY <1>3, <1>4, <1>7, MergeIsOrdered
    <2>2. Search!Last(r).ts \in Int /\ Search!Last(q).ts \in Int
      BY <1>3
    <2> QED BY <2>1, <2>2 DEF Search!Above
  <1>8. Strict(R, Heights(R))
    BY <1>2, <1>5, <1>6 DEF Strict
  <1>9. Total(R, Heights(R))
    BY <1>2, <1>7 DEF Total
  <1> QED BY <1>1, <1>2, <1>8, <1>9

\* The cut takes the rows by the number of rows above them.
LEMMA CutIsRanked ==
  ASSUME NEW S, Sent(S), NEW R, Groups(R, S)
  PROVE  \A r : r \in Search!Cut(R, 0) <=> r \in R /\ RankOf(R, Heights(R), r) \in 0..Limit - 1
  <1>1. ASSUME NEW r \in R
        PROVE  Search!Cardinality({q \in R : Search!Above(q, r)}) = RankOf(R, Heights(R), r)
    <2>1. {q \in R : Search!Above(q, r)} = {q \in R : <<q, r>> \in Heights(R)}
      BY RowsAreOrdered
    <2> QED BY <2>1, SearchCounts DEF RankOf
  <1>2. 0 + Limit - 1 = Limit - 1
    BY WindowIsNat
  <1> QED BY <1>1, <1>2 DEF Search!Cut

\* The first page takes what is above the rows it takes.
LEMMA CutIsTop ==
  ASSUME NEW S, Sent(S), NEW R, Groups(R, S),
         NEW r \in Search!Cut(R, 0), NEW q \in R, Search!Above(q, r)
  PROVE  q \in Search!Cut(R, 0)
  <1>1. r \in R /\ RankOf(R, Heights(R), r) \in 0..Limit - 1
    BY CutIsRanked
  <1>2. RankOf(R, Heights(R), q) < RankOf(R, Heights(R), r)
    BY <1>1, RowsAreOrdered, RanksRise
  <1>3. RankOf(R, Heights(R), q) \in 0..Cardinality(R) - 1
    BY RowsAreOrdered, RanksRise
  <1>4. Cardinality(R) \in Nat
    BY RowsAreOrdered, FS_CardinalityType
  <1>5. RankOf(R, Heights(R), q) \in 0..Limit - 1
    BY <1>1, <1>2, <1>3, <1>4, WindowIsNat
  <1> QED BY <1>5, CutIsRanked

\* A page that is not full has all.
LEMMA ShortCutIsAll ==
  ASSUME NEW S, Sent(S), NEW R, Groups(R, S), Cardinality(Search!Cut(R, 0)) < Limit
  PROVE  Search!Cut(R, 0) = R
  <1> DEFINE C       == Search!Cut(R, 0)
             rank    == [r \in C |-> RankOf(R, Heights(R), r)]
  <1>1. IsFiniteSet(R) /\ Cardinality(R) \in Nat /\ Limit \in Nat \ {0}
    BY RowsAreOrdered, FS_CardinalityType, WindowIsNat
  <1>2. C \in SUBSET R /\ \A r \in C : RankOf(R, Heights(R), r) \in 0..Limit - 1
    BY CutIsRanked
  <1>3. IsFiniteSet(C) /\ Cardinality(C) \in Nat
    <2> HIDE DEF C
    <2> QED BY <1>1, <1>2, FS_Subset, FS_CardinalityType
  <1>4. ASSUME NEW r \in R, r \notin C PROVE FALSE
    <2>1. RankOf(R, Heights(R), r) \in 0..Cardinality(R) - 1 /\ RankOf(R, Heights(R), r) \notin 0..Limit - 1
      BY <1>4, CutIsRanked, RowsAreOrdered, RanksRise
    <2>2. Limit <= Cardinality(R)
      BY <2>1, <1>1
    <2>3. ASSUME NEW i \in 0..Limit - 1 PROVE \E q \in C : rank[q] = i
      <3>1. i \in 0..Cardinality(R) - 1
        BY <2>2, <1>1
      <3>2. PICK q \in R : RankOf(R, Heights(R), q) = i
        BY <3>1, RowsAreOrdered, EveryRank
      <3>3. q \in C
        BY <3>2, CutIsRanked
      <3> HIDE DEF C
      <3> QED BY <3>2, <3>3
    <2>4. rank \in [C -> 0..Limit - 1]
      BY <1>2
    <2>5. rank \in Surjection(C, 0..Limit - 1)
      <3> HIDE DEF rank, C
      <3> QED BY <2>3, <2>4 DEF Surjection
    <2>6. Cardinality(0..Limit - 1) <= Cardinality(C)
      <3> HIDE DEF rank, C
      <3> QED BY <2>5, <1>3, FS_Surjection
    <2>7. Cardinality(0..Limit - 1) = Limit
      <3>1. 0 \in Int /\ Limit - 1 \in Int /\ 0 <= Limit - 1 /\ Limit - 1 - 0 + 1 = Limit
        BY <1>1
      <3> QED BY <3>1, FS_Interval
    <2> QED BY <2>6, <2>7, <1>1, <1>3
  <1> QED BY <1>2, <1>4

\* Messages of one server are in as many rows.
LEMMA RowsOfOneServer ==
  ASSUME NEW S, Sent(S), NEW R, Groups(R, S), NEW A \in SUBSET S,
         \A a, b \in A : a.srv = b.srv,
         NEW Q, IsFiniteSet(Q), \A a \in A, q \in R : a \in q => q \in Q
  PROVE  Cardinality(A) <= Cardinality(Q)
  <1> DEFINE row == [a \in A |-> CHOOSE q \in R : a \in q]
  <1>1. ASSUME NEW a \in A PROVE row[a] \in R /\ a \in row[a] /\ row[a] \in Q
    <2>1. \E q \in R : a \in q
      BY DEF Groups
    <2> QED BY <2>1
  <1>2. row \in [A -> Q]
    BY <1>1
  <1>3. ASSUME NEW a \in A, NEW b \in A, row[a] = row[b] PROVE a = b
    <2> HIDE DEF row
    <2> QED BY <1>1, <1>3 DEF Groups
  <1>4. row \in Injection(A, Q)
    <2> HIDE DEF row
    <2> QED BY <1>2, <1>3 DEF Injection, IsInjective
  <1> QED
    <2> HIDE DEF row
    <2> QED BY <1>4, FS_Injection

\* A page's worth of one server's messages fills a page, and they are not all
\* above a row of it.
LEMMA OneServerFillsPage ==
  ASSUME NEW S, Sent(S), NEW R, Groups(R, S), NEW A \in SUBSET S,
         \A a, b \in A : a.srv = b.srv, Cardinality(A) >= Limit
  PROVE  /\ ~(Cardinality(Search!Cut(R, 0)) < Limit)
         /\ \A r \in Search!Cut(R, 0) : \E a \in A, q \in R : a \in q /\ ~Search!Above(q, r)
  <1>1. IsFiniteSet(R) /\ Cardinality(R) \in Nat /\ Limit \in Nat \ {0}
    BY RowsAreOrdered, FS_CardinalityType, WindowIsNat
  <1>2. IsFiniteSet(A) /\ Cardinality(A) \in Nat
    BY FS_Subset, FS_CardinalityType DEF Sent
  <1>3. ASSUME Cardinality(Search!Cut(R, 0)) < Limit PROVE FALSE
    <2>1. Search!Cut(R, 0) = R
      BY <1>3, ShortCutIsAll
    <2>2. Cardinality(A) <= Cardinality(R)
      BY <1>1, RowsOfOneServer
    <2> QED BY <2>1, <2>2, <1>1, <1>2, <1>3
  <1>4. ASSUME NEW r \in Search!Cut(R, 0), \A a \in A, q \in R : a \in q => Search!Above(q, r)
        PROVE  FALSE
    <2> DEFINE Q == {q \in R : <<q, r>> \in Heights(R)}
    <2>1. r \in R /\ Cardinality(Q) \in 0..Limit - 1
      <3>1. r \in R /\ RankOf(R, Heights(R), r) \in 0..Limit - 1
        BY CutIsRanked
      <3> QED BY <3>1 DEF RankOf
    <2>2. IsFiniteSet(Q)
      BY <1>1, FS_Subset
    <2>3. \A a \in A, q \in R : a \in q => q \in Q
      BY <1>4, <2>1, RowsAreOrdered
    <2>4. Cardinality(A) <= Cardinality(Q)
      <3> HIDE DEF Q
      <3> QED BY <2>2, <2>3, RowsOfOneServer
    <2> HIDE DEF Q
    <2> QED BY <2>1, <2>4, <1>1, <1>2
  <1> QED BY <1>3, <1>4

\* What the servers hold, newest first.
LogsTyped == c1 \in [1..Len(Servers) -> Search!Logs]

LEMMA LogsAreSorted ==
  ASSUME LogsTyped
  PROVE  /\ DOMAIN c1 = 1..Len(Servers)
         /\ \A s \in DOMAIN c1 :
              /\ Len(c1[s]) \in 0..MaxLog /\ DOMAIN c1[s] = 1..Len(c1[s])
              /\ \A i \in DOMAIN c1[s] : c1[s][i].ts \in Nat
              /\ \A i, j \in DOMAIN c1[s] : i <= j => c1[s][i].ts >= c1[s][j].ts
  <1>1. DOMAIN c1 = 1..Len(Servers)
    BY DEF LogsTyped
  <1>2. ASSUME NEW s \in DOMAIN c1
        PROVE  /\ Len(c1[s]) \in 0..MaxLog /\ DOMAIN c1[s] = 1..Len(c1[s])
               /\ \A i \in DOMAIN c1[s] : c1[s][i].ts \in Nat
               /\ \A i, j \in DOMAIN c1[s] : i <= j => c1[s][i].ts >= c1[s][j].ts
    <2>1. c1[s] \in Search!Logs
      BY DEF LogsTyped
    <2>2. PICK n \in 0..MaxLog : c1[s] \in [1..n -> Search!Message]
      BY <2>1 DEF Search!Logs
    <2>3. DOMAIN c1[s] = 1..n /\ Len(c1[s]) = n
      BY <2>2
    <2>4. \A i \in DOMAIN c1[s] : c1[s][i] \in Search!Message
      BY <2>2
    <2>5. \A i \in DOMAIN c1[s] : c1[s][i].ts \in Nat
      BY <2>4 DEF Search!Message
    <2>6. \A i, j \in DOMAIN c1[s] : i <= j => c1[s][i].ts >= c1[s][j].ts
      BY <2>1 DEF Search!Logs, Search!Newest
    <2> QED BY <2>3, <2>5, <2>6
  <1> QED BY <1>1, <1>2

\* The gateway gets from each server that answers its messages from the offset.
LEMMA FetchIsSent ==
  ASSUME LogsTyped, NEW down, NEW limit \in Nat, NEW offset \in Nat
  PROVE  /\ Sent(Search!Fetch(down, limit, offset))
         /\ \A m \in Search!Fetch(down, limit, offset) :
              /\ m.srv \in DOMAIN c1 \ down /\ m.at \in DOMAIN c1[m.srv]
              /\ offset < m.at /\ m.at <= offset + limit /\ m.ts = c1[m.srv][m.at].ts
         /\ \A s \in DOMAIN c1 \ down : \A i \in DOMAIN c1[s] :
              offset < i /\ i <= offset + limit => Search!Stored(s, i) \in Search!Fetch(down, limit, offset)
  <1> DEFINE F == Search!Fetch(down, limit, offset)
  <1>1. ASSUME NEW m \in F
        PROVE  \E s \in DOMAIN c1 \ down : \E i \in DOMAIN c1[s] :
                 offset < i /\ i <= offset + limit /\ m = Search!Stored(s, i)
    BY DEF Search!Fetch, Search!Answer
  <1>2. ASSUME NEW s \in DOMAIN c1 \ down, NEW i \in DOMAIN c1[s], offset < i, i <= offset + limit
        PROVE  Search!Stored(s, i) \in F
    BY <1>2 DEF Search!Fetch, Search!Answer
  <1>3. \A s, i : /\ Search!Stored(s, i).ts = c1[s][i].ts
                  /\ Search!Stored(s, i).srv = s /\ Search!Stored(s, i).at = i
    BY DEF Search!Stored
  <1> HIDE DEF F
  <1>4. ASSUME NEW m \in F
        PROVE  /\ m.srv \in DOMAIN c1 \ down /\ m.at \in DOMAIN c1[m.srv]
               /\ offset < m.at /\ m.at <= offset + limit /\ m.ts = c1[m.srv][m.at].ts
               /\ m = Search!Stored(m.srv, m.at)
    BY <1>1, <1>3
  <1>5. MaxLog \in Nat /\ Len(Servers) \in Nat
    BY WindowIsNat, ReadsAssumption DEF Search!SearchAssumption
  <1>6. \A m \in F : m.srv \in 1..Len(Servers) /\ m.at \in 1..MaxLog /\ m.ts \in Int
    <2>1. ASSUME NEW m \in F PROVE m.srv \in 1..Len(Servers) /\ m.at \in 1..MaxLog /\ m.ts \in Int
      <3>1. m.srv \in DOMAIN c1
        BY <1>4
      <3>2. Len(c1[m.srv]) \in 0..MaxLog /\ m.at \in 1..Len(c1[m.srv]) /\ c1[m.srv][m.at].ts \in Nat
        BY <1>4, <3>1, LogsAreSorted
      <3>3. m.at \in 1..MaxLog
        BY <3>2, <1>5
      <3> QED BY <3>1, <3>2, <3>3, <1>4, LogsAreSorted
    <2> QED BY <2>1
  <1>7. \A m, n \in F : m.srv = n.srv /\ m.at = n.at => m = n
    BY <1>4
  <1>8. IsFiniteSet(F)
    <2> DEFINE place == [m \in F |-> <<m.srv, m.at>>]
               P     == (1..Len(Servers)) \X (1..MaxLog)
    <2>1. IsFiniteSet(P)
      <3>1. IsFiniteSet(1..Len(Servers)) /\ IsFiniteSet(1..MaxLog)
        <4>1. 1 \in Int /\ Len(Servers) \in Int /\ MaxLog \in Int
          BY <1>5
        <4> QED BY <4>1, FS_Interval
      <3> QED BY <3>1, FS_Product
    <2>2. place \in [F -> P]
      BY <1>6
    <2>3. \A m, n \in F : place[m] = place[n] => m = n
      BY <1>7
    <2>4. place \in Injection(F, P)
      <3> HIDE DEF place, P
      <3> QED BY <2>2, <2>3 DEF Injection, IsInjective
    <2> HIDE DEF place, P
    <2> QED BY <2>1, <2>4, FS_Injection
  <1>9. Sent(F)
    <2>1. \A m \in F : m.ts \in Int /\ m.srv \in Int /\ m.at \in Int
      BY <1>6
    <2> QED BY <2>1, <1>7, <1>8 DEF Sent
  <1> QED BY <1>2, <1>4, <1>9 DEF F

\* It is some of what they hold.
LEMMA FetchIsHeld ==
  ASSUME LogsTyped, NEW down, NEW limit \in Nat, NEW offset \in Nat
  PROVE  Search!Fetch(down, limit, offset) \subseteq Search!Fetch(down, MaxLog, 0)
  <1>1. MaxLog \in Nat
    BY ReadsAssumption DEF Search!SearchAssumption
  <1>2. ASSUME NEW m \in Search!Fetch(down, limit, offset)
        PROVE  \E s \in DOMAIN c1 \ down : \E i \in DOMAIN c1[s] : m = Search!Stored(s, i)
    BY DEF Search!Fetch, Search!Answer
  <1>3. ASSUME NEW s \in DOMAIN c1 \ down, NEW i \in DOMAIN c1[s]
        PROVE  Search!Stored(s, i) \in Search!Fetch(down, MaxLog, 0)
    <2>1. 0 < i /\ i <= 0 + MaxLog
      BY <1>1, LogsAreSorted
    <2> QED BY <1>1, <2>1, FetchIsSent
  <1> QED BY <1>2, <1>3

\* A page's worth of messages of a server, one after the other.
Run(S, s, o) == \A i \in o + 1..o + Limit : Search!Stored(s, i) \in S

\* They are as many.
LEMMA RunIsLong ==
  ASSUME NEW S, Sent(S), NEW s, NEW o \in Nat, Run(S, s, o)
  PROVE  \E A \in SUBSET S :
           /\ Cardinality(A) >= Limit /\ \A a, b \in A : a.srv = b.srv
           /\ \A a \in A : \E i \in o + 1..o + Limit : a = Search!Stored(s, i)
  <1> DEFINE A    == {Search!Stored(s, i) : i \in o + 1..o + Limit}
             nth  == [a \in A |-> a.at]
  <1>1. \A i : Search!Stored(s, i).srv = s /\ Search!Stored(s, i).at = i
    BY DEF Search!Stored
  <1>2. A \in SUBSET S
    BY DEF Run
  <1>3. \A a \in A : \E i \in o + 1..o + Limit : a = Search!Stored(s, i)
    OBVIOUS
  <1>4. \A a, b \in A : a.srv = b.srv
    BY <1>1
  <1>5. nth \in Surjection(A, o + 1..o + Limit)
    <2>1. nth \in [A -> o + 1..o + Limit]
      BY <1>1
    <2>2. ASSUME NEW i \in o + 1..o + Limit PROVE \E a \in A : nth[a] = i
      <3>1. Search!Stored(s, i) \in A
        OBVIOUS
      <3> QED BY <3>1, <1>1
    <2> HIDE DEF nth, A
    <2> QED BY <2>1, <2>2 DEF Surjection
  <1> HIDE DEF nth, A
  <1>6. IsFiniteSet(A) /\ Cardinality(A) \in Nat
    BY <1>2, FS_Subset, FS_CardinalityType DEF Sent
  <1>7. Cardinality(o + 1..o + Limit) <= Cardinality(A)
    BY <1>5, <1>6, FS_Surjection
  <1>8. Cardinality(o + 1..o + Limit) = Limit
    <2>1. /\ o + 1 \in Int /\ o + Limit \in Int /\ ~(o + 1 > o + Limit)
          /\ (o + Limit) - (o + 1) + 1 = Limit
      BY WindowIsNat
    <2> QED BY <2>1, FS_Interval
  <1>9. Cardinality(A) >= Limit
    BY <1>6, <1>7, <1>8, WindowIsNat
  <1> QED BY <1>2, <1>3, <1>4, <1>9

\* What is newer than a row of the first page by more than the window is on it,
\* and so is everything if the page is not full.
LEMMA CutHasNewest ==
  ASSUME NEW S, Sent(S), NEW R, Groups(R, S), NEW m \in S,
         \/ Cardinality(Search!Cut(R, 0)) < Limit
         \/ \E r \in Search!Cut(R, 0) : m.ts > Search!Last(r).ts + Window
  PROVE  \E r \in Search!Cut(R, 0) : m \in r
  <1>1. PICK q \in R : m \in q
    BY DEF Groups
  <1>2. CASE Cardinality(Search!Cut(R, 0)) < Limit
    BY <1>1, <1>2, ShortCutIsAll
  <1>3. CASE \E r \in Search!Cut(R, 0) : m.ts > Search!Last(r).ts + Window
    <2>1. PICK r \in Search!Cut(R, 0) : m.ts > Search!Last(r).ts + Window
      BY <1>3
    <2>2. Search!Above(q, r)
      <3>1. Search!Last(q) \in q /\ Search!Last(q) \in S
        BY RowsBegin
      <3>2. m.ts - Search!Last(q).ts <= Window
        BY <1>1, <3>1 DEF Groups
      <3>3. r \in R
        BY CutIsRanked
      <3>4. Search!Last(r) \in S
        BY <3>3, RowsBegin
      <3>5. m.ts \in Int /\ Search!Last(q).ts \in Int /\ Search!Last(r).ts \in Int
        BY <3>1, <3>4 DEF Sent
      <3> QED BY <2>1, <3>2, <3>5, WindowIsNat DEF Search!Above
    <2> QED BY <1>1, <2>2, CutIsTop
  <1> QED BY <1>2, <1>3

\* What a page misses because a server's messages fill it is not so new.
LEMMA CutMissesOld ==
  ASSUME NEW S, Sent(S), NEW R, Groups(R, S), NEW s, NEW o \in Nat, NEW t \in Int,
         \A i \in o + 1..o + Limit : Search!Stored(s, i) \in S /\ Search!Stored(s, i).ts >= t,
         NEW w \in Nat, \A r \in R : \A m, n \in r : m.ts - n.ts <= w
  PROVE  /\ ~(Cardinality(Search!Cut(R, 0)) < Limit)
         /\ \A r \in Search!Cut(R, 0) : ~(t > Search!Last(r).ts + w)
  <1>0. Run(S, s, o)
    BY DEF Run
  <1>1. PICK A \in SUBSET S :
           /\ Cardinality(A) >= Limit /\ \A a, b \in A : a.srv = b.srv
           /\ \A a \in A : \E i \in o + 1..o + Limit : a = Search!Stored(s, i)
    BY <1>0, RunIsLong
  <1>2. /\ ~(Cardinality(Search!Cut(R, 0)) < Limit)
        /\ \A r \in Search!Cut(R, 0) : \E a \in A, q \in R : a \in q /\ ~Search!Above(q, r)
    BY <1>1, OneServerFillsPage
  <1>3. ASSUME NEW r \in Search!Cut(R, 0), t > Search!Last(r).ts + w PROVE FALSE
    <2>1. PICK a \in A, q \in R : a \in q /\ ~Search!Above(q, r)
      BY <1>2
    <2>2. a.ts >= t /\ a \in S
      BY <1>1
    <2>3. r \in R
      BY CutIsRanked
    <2>4. Search!Last(q) \in q /\ Search!Last(q) \in S /\ Search!Last(r) \in S
      BY <2>3, RowsBegin
    <2>5. a.ts - Search!Last(q).ts <= w
      BY <2>1, <2>4
    <2>6. a.ts \in Int /\ Search!Last(q).ts \in Int /\ Search!Last(r).ts \in Int
      BY <2>2, <2>4 DEF Sent
    <2>7. Search!Last(q).ts > Search!Last(r).ts
      BY <1>3, <2>2, <2>5, <2>6
    <2> QED BY <2>1, <2>7 DEF Search!Above
  <1> QED BY <1>2, <1>3

\* The rows of messages that are not merged.
LEMMA RowsAreGroups ==
  ASSUME NEW S, Sent(S)
  PROVE  /\ Groups(Search!Rows(S), S)
         /\ \A r \in Search!Rows(S) : \A m, n \in r : m.ts - n.ts <= 0
         /\ (\A m, n \in S : m.srv = n.srv) => Apart(Search!Rows(S))
  <1>1. \A r \in Search!Rows(S) : \E m \in S : r = {m}
    BY DEF Search!Rows
  <1>2. \A m \in S : {m} \in Search!Rows(S)
    BY DEF Search!Rows
  <1>3. \A r \in Search!Rows(S) : \A m, n \in r : m = n /\ m \in S /\ m.ts - n.ts = 0
    BY <1>1 DEF Sent
  <1>4. Groups(Search!Rows(S), S)
    <2>1. \A r \in Search!Rows(S) : r \in SUBSET S /\ r # {}
      BY <1>1
    <2>2. \A m \in S : \E r \in Search!Rows(S) : m \in r
      BY <1>2
    <2>3. \A r, q \in Search!Rows(S) : \A m \in r : m \in q => r = q
      BY <1>1
    <2>4. \A r \in Search!Rows(S) : \A m, n \in r :
            m.line = n.line /\ m.ts - n.ts <= Window /\ (m.srv = n.srv => m = n)
      BY <1>3, WindowIsNat
    <2> QED BY <2>1, <2>2, <2>3, <2>4 DEF Groups
  <1>5. ASSUME \A m, n \in S : m.srv = n.srv PROVE Apart(Search!Rows(S))
    BY <1>1, <1>5 DEF Apart
  <1> QED BY <1>3, <1>4, <1>5

\* What the last round gives is what the answers cover, enough of it or all
\* there is, or at the cap all that was fetched.
LEMMA MergedIsOf ==
  ASSUME NEW down, NEW need, NEW l \in Search!Final(down, need)
  PROVE  /\ l \in 1..MaxFetch
         /\ \/ /\ \/ Search!Cutoffs(down, l) = {}
                  \/ Cardinality(Search!Merged(down, need, l)) >= need
               /\ Search!Merged(down, need, l) =
                    Search!Deduped(Search!Covered(Search!Fetch(down, l, 0), Search!Cutoffs(down, l)))
            \/ l = MaxFetch /\ Search!Merged(down, need, l) = Search!Deduped(Search!Fetch(down, l, 0))
  <1>1. l \in 1..MaxFetch /\ (l = MaxFetch \/ Search!Enough(down, need, l))
    BY DEF Search!Final, Search!Tried
  <1>2. CASE Search!Enough(down, need, l)
    <2>1. Search!Merged(down, need, l) =
            Search!Deduped(Search!Covered(Search!Fetch(down, l, 0), Search!Cutoffs(down, l)))
      BY <1>2 DEF Search!Merged
    <2>2. \/ Search!Cutoffs(down, l) = {}
          \/ Cardinality(Search!Merged(down, need, l)) >= need
      BY <1>2, <2>1, SearchCounts DEF Search!Enough
    <2> QED BY <1>1, <2>1, <2>2
  <1>3. CASE ~Search!Enough(down, need, l)
    BY <1>1, <1>3 DEF Search!Merged
  <1> QED BY <1>2, <1>3

\* What the answers cover is some of what was fetched.
LEMMA CoveredIsSent ==
  ASSUME NEW S, Sent(S), NEW C
  PROVE  /\ Sent(Search!Covered(S, C))
         /\ \A m : m \in Search!Covered(S, C) <=> m \in S /\ \A c \in C : m.ts >= c + Window
  <1>1. \A m : m \in Search!Covered(S, C) <=> m \in S /\ \A c \in C : m.ts >= c + Window
    BY DEF Search!Covered
  <1>2. Search!Covered(S, C) \in SUBSET S
    BY <1>1
  <1> QED BY <1>1, <1>2, SomeAreSent

\* A page shows some rows of a merge.
LEMMA PageIsOfRows ==
  ASSUME LogsTyped, NEW down, NEW p \in Nat \ {0}, NEW P \in Search!Pages(p, down)
  PROVE  \E S, R : /\ Sent(S) /\ Groups(R, S) /\ P \subseteq R
                   /\ S \subseteq Search!Fetch(down, MaxLog, 0)
                   /\ c2 => Apart(R)
  <1> DEFINE offset == (p - 1) * Limit
  <1>0. \A R, o : Search!Cut(R, o) \subseteq R
    BY DEF Search!Cut
  <1>1. offset \in Nat
    BY WindowIsNat
  <1>2. CASE c2 /\ Len(Servers) > 1
    <2> DEFINE M(l) == Search!Merged(down, offset + Limit, l)
    <2>1. PICK l \in Search!Final(down, offset + Limit) : P = Search!Cut(M(l), offset)
      BY <1>2 DEF Search!Pages
    <2>2. /\ l \in 1..MaxFetch
          /\ \/ M(l) = Search!Deduped(Search!Covered(Search!Fetch(down, l, 0), Search!Cutoffs(down, l)))
             \/ M(l) = Search!Deduped(Search!Fetch(down, l, 0))
      BY MergedIsOf
    <2> HIDE DEF M
    <2>3. /\ Sent(Search!Fetch(down, l, 0))
          /\ Search!Fetch(down, l, 0) \subseteq Search!Fetch(down, MaxLog, 0)
      <3>1. l \in Nat /\ 0 \in Nat
        BY <2>2
      <3> QED BY <3>1, FetchIsSent, FetchIsHeld
    <2>4. \E S : /\ Sent(S) /\ M(l) = Search!Deduped(S)
                 /\ S \subseteq Search!Fetch(down, MaxLog, 0)
      BY <2>2, <2>3, CoveredIsSent
    <2> QED BY <2>1, <2>4, <1>0, DedupedIsSound
  <1>3. CASE ~(c2 /\ Len(Servers) > 1)
    <2> DEFINE F == Search!Fetch(down, Limit, offset)
    <2>1. P = Search!Cut(Search!Rows(F), 0)
      BY <1>3 DEF Search!Pages
    <2>2. /\ Sent(F) /\ \A m \in F : m.srv \in DOMAIN c1
          /\ F \subseteq Search!Fetch(down, MaxLog, 0)
      <3>1. Limit \in Nat
        BY WindowIsNat
      <3> HIDE DEF offset
      <3>2. Sent(F) /\ \A m \in F : m.srv \in DOMAIN c1
        BY <1>1, <3>1, FetchIsSent
      <3>3. F \subseteq Search!Fetch(down, MaxLog, 0)
        BY <1>1, <3>1, FetchIsHeld
      <3> QED BY <3>2, <3>3
    <2> HIDE DEF F
    <2>3. ASSUME c2 PROVE Apart(Search!Rows(F))
      <3>1. \A s, u \in DOMAIN c1 : s = u
        BY <1>3, <2>3, WindowIsNat, LogsAreSorted
      <3> QED BY <3>1, <2>2, RowsAreGroups
    <2> QED BY <2>1, <2>2, <2>3, <1>0, RowsAreGroups
  <1> QED BY <1>2, <1>3

\* The first page shows the newest.
LEMMA FirstPageHasNewest ==
  ASSUME LogsTyped, NEW down, NEW s \in DOMAIN c1 \ down, NEW k \in DOMAIN c1[s],
         NEW P \in Search!Pages(1, down),
         \/ Cardinality(P) < Limit
         \/ \E r \in P : c1[s][k].ts > Search!Last(r).ts + Window
  PROVE  \E r \in P : Search!Stored(s, k) \in r
  <1> DEFINE m == Search!Stored(s, k)
  <1>0. /\ k \in Nat \ {0} /\ k <= Len(c1[s]) /\ Len(c1[s]) \in Nat /\ c1[s][k].ts \in Nat
        /\ DOMAIN c1[s] = 1..Len(c1[s])
        /\ \A i \in DOMAIN c1[s] : i <= k => c1[s][i].ts >= c1[s][k].ts
    BY LogsAreSorted
  <1>1. \A i : Search!Stored(s, i).ts = c1[s][i].ts
    BY DEF Search!Stored
  <1>2. Limit \in Nat \ {0} /\ Window \in Nat /\ MaxFetch \in Nat /\ Limit <= MaxFetch
    BY ReadsAssumption DEF Search!SearchAssumption
  <1>3. (1 - 1) * Limit = 0 /\ 0 + Limit = Limit
    BY <1>2
  \* What each fetch has, and how it is cut.
  <1>4. ASSUME NEW l \in Nat, Limit <= l, l < k
        PROVE  \A i \in 0 + 1..0 + Limit : /\ Search!Stored(s, i) \in Search!Fetch(down, l, 0)
                                           /\ Search!Stored(s, i).ts >= c1[s][k].ts
    <2>1. ASSUME NEW i \in 0 + 1..0 + Limit
          PROVE  i \in DOMAIN c1[s] /\ 0 < i /\ i <= 0 + l /\ i <= k
      BY <1>0, <1>2, <1>4
    <2> QED BY <2>1, <1>0, <1>1, FetchIsSent
  <1>5. ASSUME NEW l \in Nat, k <= l PROVE m \in Search!Fetch(down, l, 0)
    <2>1. 0 < k /\ k <= 0 + l
      BY <1>0, <1>5
    <2> QED BY <2>1, FetchIsSent
  <1> HIDE DEF m
  <1>6. ASSUME NEW S, Sent(S), NEW R, Groups(R, S), P = Search!Cut(R, 0), m \in S
        PROVE  \E r \in P : m \in r
    <2>1. m.ts = c1[s][k].ts
      BY <1>1 DEF m
    <2> QED BY <1>6, <2>1, CutHasNewest
  <1>7. ASSUME NEW l \in Nat, Limit <= l, l < k, NEW R, Groups(R, Search!Fetch(down, l, 0)),
               P = Search!Cut(R, 0)
        PROVE  FALSE
    <2>1. Sent(Search!Fetch(down, l, 0))
      BY FetchIsSent
    <2>2. \A r \in R : \A a, b \in r : a.ts - b.ts <= Window
      BY <1>7 DEF Groups
    <2>3. /\ ~(Cardinality(P) < Limit)
          /\ \A r \in P : ~(c1[s][k].ts > Search!Last(r).ts + Window)
      <3>1. 0 \in Nat /\ c1[s][k].ts \in Int
        BY <1>0
      <3> QED BY <1>2, <1>4, <1>7, <2>1, <2>2, <3>1, CutMissesOld
    <2> QED BY <2>3
  <1>8. ASSUME NEW l \in Nat, Limit <= l, NEW R, Groups(R, Search!Fetch(down, l, 0)),
               P = Search!Cut(R, 0)
        PROVE  \E r \in P : m \in r
    <2>1. k <= l
      BY <1>0, <1>7, <1>8
    <2> QED BY <1>5, <1>6, <1>8, <2>1, FetchIsSent
  <1>9. CASE ~(c2 /\ Len(Servers) > 1)
    <2>1. P = Search!Cut(Search!Rows(Search!Fetch(down, Limit, 0)), 0)
      BY <1>3, <1>9 DEF Search!Pages
    <2>2. Groups(Search!Rows(Search!Fetch(down, Limit, 0)), Search!Fetch(down, Limit, 0))
      BY <1>2, FetchIsSent, RowsAreGroups
    <2>3. \E r \in P : m \in r
      BY <1>2, <1>8, <2>1, <2>2
    <2> QED BY <2>3 DEF m
  <1>10. CASE c2 /\ Len(Servers) > 1
    <2>0. PICK l \in Search!Final(down, Limit) : P = Search!Cut(Search!Merged(down, Limit, l), 0)
      BY <1>3, <1>10 DEF Search!Pages
    <2> DEFINE M == Search!Merged(down, Limit, l)
    <2>1. P = Search!Cut(M, 0)
      BY <2>0
    <2>2. /\ l \in 1..MaxFetch
          /\ \/ /\ Search!Cutoffs(down, l) = {} \/ Cardinality(M) >= Limit
                /\ M = Search!Deduped(Search!Covered(Search!Fetch(down, l, 0), Search!Cutoffs(down, l)))
             \/ l = MaxFetch /\ M = Search!Deduped(Search!Fetch(down, MaxFetch, 0))
      BY MergedIsOf
    <2> HIDE DEF M
    <2>3. CASE M = Search!Deduped(Search!Fetch(down, MaxFetch, 0))
      <3>1. Groups(M, Search!Fetch(down, MaxFetch, 0))
        BY <1>2, <2>3, FetchIsSent, DedupedIsSound
      <3> QED BY <1>2, <1>8, <2>1, <3>1 DEF m
    <2>4. CASE /\ Search!Cutoffs(down, l) = {} \/ Cardinality(M) >= Limit
               /\ M = Search!Deduped(Search!Covered(Search!Fetch(down, l, 0), Search!Cutoffs(down, l)))
      <3> DEFINE F == Search!Fetch(down, l, 0)
                 C == Search!Cutoffs(down, l)
                 S == Search!Covered(F, C)
      <3>1. l \in Nat /\ Sent(F)
        <4>1. l \in Nat /\ 0 \in Nat
          BY <2>2
        <4> QED BY <4>1, FetchIsSent
      <3>2. Sent(S) /\ \A x : x \in S <=> x \in F /\ \A c \in C : x.ts >= c + Window
        <4> HIDE DEF F, C
        <4> QED BY <3>1, CoveredIsSent
      <3>3. Groups(M, S)
        <4> HIDE DEF S
        <4> QED BY <2>4, <3>2, DedupedIsSound DEF S
      <3>4. l < k => c1[s][l].ts \in C /\ c1[s][l].ts >= c1[s][k].ts
        <4>1. ASSUME l < k PROVE l \in DOMAIN c1[s] /\ l <= k /\ Len(c1[s]) >= l
          BY <1>0, <2>2, <4>1
        <4> QED BY <4>1, <1>0 DEF Search!Cutoffs
      <3>5. m.ts = c1[s][k].ts
        BY <1>1 DEF m
      <3>6. m \in S
        <4>1. CASE C = {}
          <5>1. ~(l < k)
            BY <3>4, <4>1
          <5>2. m \in F
            BY <5>1, <1>0, <1>5, <3>1
          <5> HIDE DEF C, F, S
          <5> QED BY <5>2, <3>2, <4>1
        <4>2. CASE C # {}
          <5>1. Cardinality(M) >= Limit
            BY <2>4, <4>2
          <5> HIDE DEF C, F, S
          <5>2. ~(Cardinality(P) < Limit)
            <6>1. ASSUME Cardinality(P) < Limit PROVE FALSE
              <7>1. P = M
                BY <2>1, <3>2, <3>3, <6>1, ShortCutIsAll
              <7>2. Cardinality(M) \in Nat
                BY <3>2, <3>3, RowsAreOrdered, FS_CardinalityType
              <7> QED BY <7>1, <7>2, <5>1, <6>1, <1>2
            <6> QED BY <6>1
          <5>3. PICK r \in P : c1[s][k].ts > Search!Last(r).ts + Window
            BY <5>2
          <5>4. Search!Last(r) \in S
            <6>1. r \in M
              BY <2>1, <3>2, <3>3, CutIsRanked
            <6> QED BY <6>1, <3>2, <3>3, RowsBegin
          <5>5. Search!Last(r).ts \in Int /\ \A c \in C : Search!Last(r).ts >= c + Window
            BY <5>4, <3>2 DEF Sent
          <5>6. \A c \in C : c \in Int
            <6>1. ASSUME NEW c \in C PROVE c \in Int
              <7>1. PICK u \in DOMAIN c1 : Len(c1[u]) >= l /\ c = c1[u][l].ts
                BY DEF Search!Cutoffs, C
              <7>2. l \in DOMAIN c1[u]
                BY <2>2, <7>1, LogsAreSorted
              <7> QED BY <7>1, <7>2, LogsAreSorted
            <6> QED BY <6>1
          <5>7. \A c \in C : c1[s][k].ts > c + Window
            BY <5>3, <5>5, <5>6, <1>0, <1>2
          <5>8. ~(l < k)
            BY <5>6, <5>7, <3>4, <1>0, <1>2
          <5>9. m \in F
            BY <5>8, <1>0, <1>5, <3>1 DEF F
          <5>10. \A c \in C : m.ts >= c + Window
            BY <5>6, <5>7, <3>5, <1>0, <1>2
          <5> QED BY <5>9, <5>10, <3>2
        <4> QED BY <4>1, <4>2
      <3> HIDE DEF F, C, S
      <3>7. \E r \in P : m \in r
        BY <1>6, <2>1, <3>2, <3>3, <3>6
      <3> QED BY <3>7 DEF m
    <2> QED BY <2>2, <2>3, <2>4
  <1> QED BY <1>9, <1>10

\* Without deduplication a page has single messages from its place in each
\* server's log, none older than what is further down.
LEMMA PlainPage ==
  ASSUME LogsTyped, ~c2, NEW down, NEW p \in Nat \ {0}, NEW P \in Search!Pages(p, down), NEW q \in P
  PROVE  \E n : /\ q = {n} /\ Search!Last(q) = n
                /\ (p - 1) * Limit < n.at /\ n.at <= p * Limit /\ n.at \in Int /\ n.ts \in Int
                /\ n.srv \in DOMAIN c1 \ down /\ n.at \in DOMAIN c1[n.srv] /\ n.ts = c1[n.srv][n.at].ts
                /\ \A s \in DOMAIN c1 \ down : \A i \in DOMAIN c1[s] :
                     i > p * Limit => n.ts >= c1[s][i].ts
  <1> DEFINE o == (p - 1) * Limit
             F == Search!Fetch(down, Limit, o)
  <1>1. o \in Nat /\ Limit \in Nat \ {0} /\ o + Limit = p * Limit
    <2>1. Limit \in Nat \ {0}
      BY WindowIsNat
    <2>2. o \in Nat
      BY <2>1
    <2>3. o + Limit = p * Limit
      BY <2>1
    <2> QED BY <2>1, <2>2, <2>3
  <1>2. P = Search!Cut(Search!Rows(F), 0)
    BY DEF Search!Pages
  <1> HIDE DEF o
  <1>3. /\ Sent(F)
        /\ \A m \in F : /\ m.srv \in DOMAIN c1 \ down /\ m.at \in DOMAIN c1[m.srv]
                        /\ o < m.at /\ m.at <= o + Limit /\ m.ts = c1[m.srv][m.at].ts
        /\ \A s \in DOMAIN c1 \ down : \A i \in DOMAIN c1[s] :
             o < i /\ i <= o + Limit => Search!Stored(s, i) \in F
    BY <1>1, FetchIsSent
  <1> HIDE DEF F
  <1>4. /\ Groups(Search!Rows(F), F)
        /\ \A r \in Search!Rows(F) : \A m, n \in r : m.ts - n.ts <= 0
    BY <1>3, RowsAreGroups
  <1>5. q \in Search!Rows(F)
    BY <1>2, <1>3, <1>4, CutIsRanked
  <1>6. PICK n \in F : q = {n}
    BY <1>5 DEF Search!Rows
  <1>7. Search!Last(q) = n
    BY <1>3, <1>4, <1>5, <1>6, RowsBegin
  <1>8. n.at \in Int /\ n.ts \in Int
    BY <1>3 DEF Sent
  <1>9. ASSUME NEW s \in DOMAIN c1 \ down, NEW i \in DOMAIN c1[s], i > p * Limit
        PROVE  n.ts >= c1[s][i].ts
    <2>1. /\ i \in Nat /\ DOMAIN c1[s] = 1..Len(c1[s]) /\ Len(c1[s]) \in Nat /\ c1[s][i].ts \in Int
          /\ \A j \in DOMAIN c1[s] : j <= i => c1[s][j].ts >= c1[s][i].ts
      BY LogsAreSorted
    <2>2. ASSUME NEW j \in o + 1..o + Limit
          PROVE  Search!Stored(s, j) \in F /\ Search!Stored(s, j).ts >= c1[s][i].ts
      <3>1. j \in DOMAIN c1[s] /\ o < j /\ j <= o + Limit /\ j <= i
        BY <1>1, <1>9, <2>1
      <3>2. Search!Stored(s, j).ts = c1[s][j].ts
        BY DEF Search!Stored
      <3> QED BY <3>1, <3>2, <1>3, <2>1
    <2>3. \A r \in Search!Cut(Search!Rows(F), 0) : ~(c1[s][i].ts > Search!Last(r).ts + 0)
      <3>1. 0 \in Nat
        OBVIOUS
      <3> QED BY <1>1, <1>3, <1>4, <2>1, <2>2, <3>1, CutMissesOld
    <2> QED BY <1>2, <1>7, <1>8, <2>1, <2>3
  <1>10. (p - 1) * Limit < n.at /\ n.at <= p * Limit
    BY <1>1, <1>3 DEF o
  <1> QED BY <1>3, <1>6, <1>7, <1>8, <1>9, <1>10

\* What a page that is not merged shows: nothing further down is newer.
Below ==
  ~c2 /\ c3 > 0 =>
    \A r \in c5 : \E m : /\ r = {m} /\ Search!Last(r) = m /\ m.ts \in Int
                         /\ m.at \in Int /\ m.at <= c3 * Limit
                         /\ \A s \in DOMAIN c1 \ c4 : \A i \in DOMAIN c1[s] :
                              i > c3 * Limit => m.ts >= c1[s][i].ts

SearchPart ==
  about = "search" =>
    /\ LogsTyped /\ c2 \in BOOLEAN /\ c3 \in Nat /\ (c3 = 0 => c5 = {}) /\ Below
    /\ Search!TypeOK
    /\ Search!MergeSound /\ Search!FirstPageIsNewest /\ Search!PlainPagesDescend

LEMMA SearchStarts == ASSUME Search!Init, about = "search" PROVE SearchPart
  <1>1. LogsTyped /\ c2 \in BOOLEAN /\ c3 = 0 /\ c4 = {} /\ c5 = {} /\ c6 = {}
    BY DEF Search!Init, LogsTyped
  <1>2. Search!MergeSound /\ Search!FirstPageIsNewest /\ Search!PlainPagesDescend /\ Below
    BY <1>1 DEF Search!MergeSound, Search!FirstPageIsNewest, Search!PlainPagesDescend,
                Search!PagesDescend, Below
  <1>3. Search!TypeOK
    <2>1. Len(Servers) \in Nat \ {0} /\ MaxPage \in Nat
      BY ReadsAssumption DEF Search!SearchAssumption
    <2>2. DOMAIN c1 # {} /\ 0 \in 0..MaxPage
      <3>1. 1 \in DOMAIN c1
        BY <1>1, <2>1 DEF LogsTyped
      <3> QED BY <2>1, <3>1
    <2> QED BY <1>1, <2>2 DEF Search!TypeOK, LogsTyped
  <1> QED BY <1>1, <1>2, <1>3 DEF SearchPart

LEMMA TurnKeeps ==
  ASSUME about = "search", SearchPart, NEW p \in {1, c3 + 1} \cap 1..MaxPage,
         NEW down \in SUBSET DOMAIN c1, Search!Turn(p, down), about' = about
  PROVE  SearchPart'
  <1>1. /\ LogsTyped /\ c2 \in BOOLEAN /\ c3 \in Nat /\ (c3 = 0 => c5 = {}) /\ Below
        /\ p \in Nat \ {0} /\ Limit \in Nat \ {0}
    BY WindowIsNat DEF SearchPart
  <1>2. /\ c1' = c1 /\ c2' = c2 /\ c3' = p /\ c4' = down /\ c5' \in Search!Pages(p, down)
        /\ c6' = IF p = c3 + 1 /\ down = c4 THEN c5 ELSE {}
    BY DEF Search!Turn
  <1>3. LogsTyped' /\ (c2 \in BOOLEAN)' /\ (c3 \in Nat)' /\ (c3 = 0 => c5 = {})'
    BY <1>1, <1>2 DEF LogsTyped
  <1>8. PICK S, R : /\ Sent(S) /\ Groups(R, S) /\ c5' \subseteq R
                    /\ S \subseteq Search!Fetch(down, MaxLog, 0)
                    /\ c2 => Apart(R)
    BY <1>1, <1>2, PageIsOfRows
  <1>9. Search!TypeOK'
    <2>1. Search!TypeOK
      BY DEF SearchPart
    <2>2. \A r \in c5' : r # {} /\ r \subseteq Search!Fetch(down, MaxLog, 0)
      BY <1>8 DEF Groups
    <2>3. \A r \in c6' : r # {} /\ r \subseteq Search!Fetch(down, MaxLog, 0)
      BY <1>2, <2>1 DEF Search!TypeOK
    <2>4. Search!Fetch(c4, MaxLog, 0)' = Search!Fetch(down, MaxLog, 0)
      BY <1>2 DEF Search!Fetch, Search!Answer, Search!Stored
    <2>5. c4' \in SUBSET DOMAIN c1' /\ c4' # DOMAIN c1' /\ c3' \in 0..MaxPage
      BY <1>1, <1>2 DEF Search!Turn
    <2> QED BY <1>1, <1>2, <1>3, <2>2, <2>3, <2>4, <2>5 DEF Search!TypeOK, LogsTyped
  <1>4. Search!MergeSound'
    <2>1. /\ Sent(S) /\ Groups(R, S) /\ c5' \subseteq R
          /\ c2 => Apart(R)
      BY <1>8
    <2>2. c5' \subseteq R
      BY <1>2, <2>1
    <2>3. \A r \in c5' : \A m, n \in r :
            m.line = n.line /\ m.ts - n.ts <= Window /\ (m.srv = n.srv => m = n)
      BY <2>1, <2>2 DEF Groups
    <2>4. \A r, q \in c5' : r # q => r \cap q = {}
      BY <2>1, <2>2 DEF Groups
    <2>5. ASSUME NEW r \in c5', NEW q \in c5', r # q, c2',
                 Search!First(r).line = Search!First(q).line,
                 Search!First(r).ts - Search!First(q).ts \in 0..Window
          PROVE  \E m \in r, n \in q : m.srv = n.srv
      BY <1>2, <2>1, <2>2, <2>5 DEF Apart
    <2> QED BY <2>3, <2>4, <2>5 DEF Search!MergeSound
  <1>5. Search!FirstPageIsNewest'
    <2>1. ASSUME p = 1, NEW s \in DOMAIN c1 \ down, NEW k \in DOMAIN c1[s],
                 \/ Cardinality(c5') < Limit
                 \/ \E r \in c5' : c1[s][k].ts > Search!Last(r).ts + Window
          PROVE  \E r \in c5' : Search!Stored(s, k) \in r
      BY <1>1, <1>2, <2>1, FirstPageHasNewest
    <2>2. \A s, k : Search!Stored(s, k)' = Search!Stored(s, k)
      BY <1>2 DEF Search!Stored
    <2> QED BY <1>2, <2>1, <2>2, SearchCounts DEF Search!FirstPageIsNewest
  <1>6. Below'
    <2>1. ASSUME ~c2, NEW r \in c5'
          PROVE  \E m : /\ r = {m} /\ Search!Last(r) = m /\ m.ts \in Int
                        /\ m.at \in Int /\ m.at <= p * Limit
                        /\ \A s \in DOMAIN c1 \ down : \A i \in DOMAIN c1[s] :
                             i > p * Limit => m.ts >= c1[s][i].ts
      BY <1>1, <1>2, <2>1, PlainPage
    <2> QED BY <1>2, <2>1 DEF Below
  <1>7. Search!PlainPagesDescend'
    <2>1. ASSUME ~c2, NEW r \in c6', NEW q \in c5'
          PROVE  Search!Last(r).ts >= Search!Last(q).ts /\ r \cap q = {}
      <3>1. p = c3 + 1 /\ down = c4 /\ r \in c5 /\ c3 > 0
        BY <1>1, <1>2, <2>1
      <3>2. PICK m : /\ r = {m} /\ Search!Last(r) = m /\ m.ts \in Int
                     /\ m.at \in Int /\ m.at <= c3 * Limit
                     /\ \A s \in DOMAIN c1 \ c4 : \A i \in DOMAIN c1[s] :
                          i > c3 * Limit => m.ts >= c1[s][i].ts
        BY <1>1, <2>1, <3>1 DEF Below
      <3>3. PICK n : /\ q = {n} /\ Search!Last(q) = n
                     /\ (p - 1) * Limit < n.at /\ n.at \in Int /\ n.ts \in Int
                     /\ n.srv \in DOMAIN c1 \ down /\ n.at \in DOMAIN c1[n.srv]
                     /\ n.ts = c1[n.srv][n.at].ts
        BY <1>1, <1>2, <2>1, PlainPage
      <3>4. (p - 1) * Limit = c3 * Limit /\ c3 * Limit \in Int
        BY <1>1, <3>1
      <3>5. m.ts >= n.ts
        BY <3>1, <3>2, <3>3, <3>4
      <3>6. m # n
        BY <3>2, <3>3, <3>4
      <3> QED BY <3>2, <3>3, <3>5, <3>6
    <2> QED BY <1>2, <2>1 DEF Search!PlainPagesDescend, Search!PagesDescend
  <1> QED BY <1>3, <1>4, <1>5, <1>6, <1>7, <1>9 DEF SearchPart

LEMMA SearchSettles == ReadsInit => SearchPart
  BY SearchStarts DEF ReadsInit, SearchPart

LEMMA SearchKept == SearchPart /\ [ReadsNext]_all => SearchPart'
  <1> SUFFICES ASSUME SearchPart, [ReadsNext]_all PROVE SearchPart'
    OBVIOUS
  <1>1. about' = about
    BY DEF ReadsNext, Rest, all
  <1>2. CASE about # "search"
    BY <1>1, <1>2 DEF SearchPart
  <1>3. CASE about = "search" /\ UNCHANGED all
    <2>1. UNCHANGED <<about, c1, c2, c3, c4, c5, c6>>
      BY <1>3 DEF all
    <2>2. LogsTyped' /\ Below'
      BY <1>3, <2>1 DEF SearchPart, LogsTyped, Below
    <2>3. Search!MergeSound' /\ Search!PlainPagesDescend'
      BY <1>3, <2>1 DEF SearchPart, Search!MergeSound, Search!PlainPagesDescend, Search!PagesDescend
    <2>4. Search!FirstPageIsNewest'
      BY <1>3, <2>1 DEF SearchPart, Search!FirstPageIsNewest, Search!Stored
    <2>5. Search!TypeOK'
      BY <1>3, <2>1 DEF SearchPart, Search!TypeOK, Search!Fetch, Search!Answer, Search!Stored
    <2> QED BY <1>3, <2>1, <2>2, <2>3, <2>4, <2>5 DEF SearchPart
  <1>4. CASE about = "search" /\ Search!Next
    BY <1>1, <1>4, TurnKeeps DEF Search!Next
  <1> QED BY <1>2, <1>3, <1>4 DEF ReadsNext

\* A page of the search merges what belongs together and only that, the first
\* one has the newest lines, and without deduplication the pages go back in
\* time (graylog.py:126-205, 436-507).
THEOREM SearchIsSound == ReadsSpec => []SearchHolds
  <1>1. SearchPart => SearchHolds
    BY DEF SearchPart, SearchHolds
  <1> QED BY <1>1, SearchSettles, SearchKept, PTL DEF ReadsSpec

-----------------------------------------------------------------------------
(* All parts together.                                                     *)

LEMMA SameAccessTypes == AccessFacts!TypeOK => Access!TypeOK
  <1>1. Access!Needs = AccessFacts!Needs
    BY DEF Access!Needs, AccessFacts!Needs
  <1>2. Access!Lookup = AccessFacts!Lookup
    BY <1>1 DEF Access!Lookup, AccessFacts!Lookup
  <1>3. Access!Fact = AccessFacts!Fact
    BY <1>2 DEF Access!Right, AccessFacts!Right, Access!Fact, AccessFacts!Fact
  <1>4. /\ Access!Longest = AccessFacts!Longest /\ Access!Forever = AccessFacts!Forever
        /\ Access!Call = AccessFacts!Call
    BY DEF Access!Longest, AccessFacts!Longest, Access!Forever, AccessFacts!Forever,
           Access!Call, AccessFacts!Call
  <1> QED BY <1>1, <1>2, <1>3, <1>4 DEF Access!TypeOK, AccessFacts!TypeOK

AgesPart == about = "access" => AccessFacts!AccessInv /\ AccessFacts!Bounded

LEMMA AgesHold == ReadsInit => AgesPart
  BY ReadsAssumption, SameAccess, AccessFacts!AccessInit, AccessFacts!BoundedInit
     DEF ReadsAssumption, ReadsInit, AgesPart

LEMMA AgesKept == AgesPart /\ [ReadsNext]_all => AgesPart'
  <1> SUFFICES ASSUME AccessFacts!AccessInv, AccessFacts!Bounded, [ReadsNext]_all,
                      about = "access"
               PROVE  about' = about /\ AccessFacts!AccessInv' /\ AccessFacts!Bounded'
    BY DEF AgesPart, ReadsNext, Rest, all
  <1>1. [AccessFacts!Next]_(AccessFacts!vars) /\ about' = about
    BY SameAccess DEF ReadsNext, Rest, all, AccessFacts!vars
  <1>2. AccessFacts!AccessAssumption
    BY ReadsAssumption, SameAccess DEF ReadsAssumption
  <1> QED BY <1>1, <1>2, AccessFacts!AccessStep, AccessFacts!BoundedKept

\* In the behaviours of the other parts the store stands still.
LEMMA StoreHolds ==
  /\ ReadsInit => StoreInv
  /\ StoreInv /\ [ReadsNext]_all => StoreInv'
  <1>1. ReadsInit => Init
    BY DEF ReadsInit
  <1>2. [ReadsNext]_all => [Next]_vars
    BY DEF ReadsNext, Rest, all, vars
  <1> QED BY <1>1, <1>2, StoreInvInit, StoreInvStep

RequestsPart == about = "tail" => TailFacts!TypeOK

LEMMA RequestsHold == ReadsInit => RequestsPart
  BY ReadsAssumption, SameTail, TailFacts!InitTypes DEF ReadsAssumption, ReadsInit, RequestsPart

LEMMA RequestsKept == RequestsPart /\ [ReadsNext]_all => RequestsPart'
  <1> SUFFICES ASSUME TailFacts!TypeOK, [ReadsNext]_all, about = "tail"
               PROVE  about' = about /\ TailFacts!TypeOK'
    BY DEF RequestsPart, ReadsNext, Rest, all
  <1>1. [TailFacts!Next]_(TailFacts!vars) /\ about' = about
    BY SameTail DEF ReadsNext, Rest, all, TailFacts!vars
  <1>2. TailFacts!TailAssumption
    BY ReadsAssumption, SameTail DEF ReadsAssumption
  <1> QED BY <1>1, <1>2, TailFacts!TypesKept

\* Every part's variables keep their types, whatever the other parts' are, with
\* the ages, the buffer and the cursor within their bounds and the rows of a log page of
\* messages that servers which answered hold (zabbix.py, docker_stats.py,
\* docker_updates.py, filter_sets.py, graylog.py, use-docker-logs.ts).
THEOREM ReadsKeepTypes == ReadsSpec => []ReadsTypeOK
  <1>1. ReadsInit => StoreInv /\ AgesPart /\ StatsPart /\ UpdatesPart /\ RequestsPart /\ SearchPart
    BY StoreHolds, AgesHold, StatsHolds, UpdatesHold, RequestsHold, SearchSettles
  <1>2. StoreInv /\ AgesPart /\ StatsPart /\ UpdatesPart /\ RequestsPart /\ SearchPart /\ [ReadsNext]_all
          => (StoreInv /\ AgesPart /\ StatsPart /\ UpdatesPart /\ RequestsPart /\ SearchPart)'
    BY StoreHolds, AgesKept, StatsKept, UpdatesKept, RequestsKept, SearchKept
  <1>3. StoreInv /\ AgesPart /\ StatsPart /\ UpdatesPart /\ RequestsPart /\ SearchPart => ReadsTypeOK
    <2>1. AccessFacts!AccessAssumption
      BY ReadsAssumption, SameAccess DEF ReadsAssumption
    <2> SUFFICES ASSUME StoreInv, AgesPart, StatsPart, UpdatesPart, RequestsPart, SearchPart PROVE ReadsTypeOK
      OBVIOUS
    <2>2. about = "access" => Access!TypeOK
      BY <2>1, SameAccessTypes, AccessFacts!TypesOf DEF AgesPart
    <2>3. about = "tail" => Logs!TypeOK
      BY SameTail DEF RequestsPart
    <2>4. TypeOK
      BY DEF StoreInv
    <2>5. about = "stats" => Stats!TypeOK
      BY DEF StatsPart, Stats!UsageInv
    <2>6. about = "updates" => Updates!TypeOK
      BY DEF UpdatesPart, Updates!UpdatesInv
    <2>7. about = "search" => Search!TypeOK
      BY DEF SearchPart
    <2> QED BY <2>2, <2>3, <2>4, <2>5, <2>6, <2>7 DEF ReadsTypeOK
  <1> QED BY <1>1, <1>2, <1>3, PTL DEF ReadsSpec
=============================================================================
