------------------------ MODULE DockerRecreateProofs ------------------------
(***************************************************************************)
(* What holds of an update that nobody else disturbs, and of two that      *)
(* overlap, for every number of threads, containers, requests, faults and  *)
(* releases.                                                               *)
(***************************************************************************)
EXTENDS DockerRecreate, FiniteSetTheorems, TLAPS

-----------------------------------------------------------------------------
(* Types.                                                                  *)

LEMMA Backups ==
  ASSUME NEW n \in Nat
  PROVE  BackupOf(n) \in Nat /\ BackupOf(n) # n
  BY DEF BackupOf

Containers == [Id -> [status : Status, name : Nat, image : Nat]]

LEMMA AfterTypes ==
  ASSUME docker \in Containers, NEW i \in Id, NEW n \in Nat
  PROVE  /\ AfterStart(i) \in Containers
         /\ AfterStop(i) \in Containers
         /\ AfterRename(i, n) \in Containers
         /\ AfterRemove(i) \in Containers
  BY DEF AfterStart, AfterStop, AfterRename, AfterRemove, Containers, Status

LEMMA CountedTypes ==
  ASSUME NEW w \in Worker, NEW count \in [Worker -> Nat]
  PROVE  Counted(w, count) \in [Worker -> Nat]
  <1>1. [count EXCEPT ![w] = @ + 1] \in [Worker -> Nat] OBVIOUS
  <1> QED BY <1>1 DEF Counted

LEMMA CallTypes ==
  ASSUME TypeOK, NEW w \in Worker, NEW accepted \in BOOLEAN, NEW after \in Containers,
         NEW onOk \in Steps, NEW onErr \in Steps, Call(w, accepted, after, onOk, onErr)
  PROVE  /\ docker' \in Containers
         /\ pc' \in [Worker -> Steps]
         /\ refused' \in [Worker -> Nat]
         /\ lost' \in [Worker -> Nat]
  <1>1. /\ docker \in Containers /\ pc \in [Worker -> Steps]
        /\ refused \in [Worker -> Nat] /\ lost \in [Worker -> Nat]
        BY DEF TypeOK, Containers
  <1>2. Counted(w, refused) \in [Worker -> Nat] /\ Counted(w, lost) \in [Worker -> Nat]
        BY <1>1, CountedTypes
  <1>3. CASE Answered(w, accepted, after, onOk) BY <1>1, <1>3 DEF Answered, Goto
  <1>4. CASE Rejected(w, accepted, onErr) BY <1>1, <1>4 DEF Rejected, Goto
  <1>5. CASE Refused(w, onErr) BY <1>1, <1>2, <1>5 DEF Refused, Goto
  <1>6. CASE AnswerLost(w, accepted, after, onErr) BY <1>1, <1>2, <1>6 DEF AnswerLost, Goto
  <1> QED BY <1>3, <1>4, <1>5, <1>6 DEF Call

LEMMA LookupTypes ==
  ASSUME TypeOK, NEW w \in Worker, NEW accepted \in BOOLEAN,
         NEW onOk \in Steps, NEW onErr \in Steps, Lookup(w, accepted, onOk, onErr)
  PROVE  /\ docker' \in Containers
         /\ pc' \in [Worker -> Steps]
         /\ refused' \in [Worker -> Nat]
         /\ lost' \in [Worker -> Nat]
  <1>1. docker \in Containers BY DEF TypeOK, Containers
  <1>2. Call(w, accepted, docker, onOk, onErr) BY DEF Lookup, Call
  <1> QED BY <1>1, <1>2, CallTypes

LEMMA TypeInit ==
  ASSUME Init
  PROVE  TypeOK
  BY RecreateAssumption DEF Init, TypeOK, Status, Steps, Verbs

LEMMA TypeStep ==
  ASSUME TypeOK, [Next]_vars
  PROVE  TypeOK'
  <1> USE DEF fixed, daemon, locals, history
  <1>0. docker \in Containers BY DEF TypeOK, Containers
  <1>1. ASSUME NEW w \in Worker, NEW i \in Id, BeginRecreate(w, i)
        PROVE  TypeOK'
        BY <1>1 DEF BeginRecreate, BeginRequest, TypeOK, Goto, Steps, Recreating
  <1>2. ASSUME NEW w \in Worker, NEW i \in Id, NEW v \in Verbs, BeginAction(w, i, v)
        PROVE  TypeOK'
        BY <1>2 DEF BeginAction, BeginRequest, TypeOK, Goto, Steps, Recreating
  <1>3. ASSUME NEW w \in Worker, GetContainer(w)
        PROVE  TypeOK'
    <2>1. Exists(cid[w]) \in BOOLEAN BY DEF Exists
    <2>2. "act" \in Steps /\ "idle" \in Steps BY DEF Steps
    <2>3. Lookup(w, Exists(cid[w]), "act", "idle") BY <1>3 DEF GetContainer
    <2>4. docker' \in Containers /\ pc' \in [Worker -> Steps]
             /\ refused' \in [Worker -> Nat] /\ lost' \in [Worker -> Nat]
          BY <2>1, <2>2, <2>3, LookupTypes
    <2> QED BY <1>3, <2>4, RecreateAssumption DEF GetContainer, EndAction, TypeOK, Containers, Verbs
  <1>4. ASSUME NEW w \in Worker, Act(w)
        PROVE  TypeOK'
    <2> DEFINE after == IF verb[w] = "stop" THEN AfterStop(cid[w]) ELSE AfterStart(cid[w])
    <2>1. Exists(cid[w]) \in BOOLEAN BY DEF Exists
    <2>2. "idle" \in Steps BY DEF Steps
    <2>3. after \in Containers BY <1>0, AfterTypes DEF TypeOK
    <2>4. Call(w, Exists(cid[w]), after, "idle", "idle") BY <1>4 DEF Act
    <2> HIDE DEF after
    <2>5. docker' \in Containers /\ pc' \in [Worker -> Steps]
             /\ refused' \in [Worker -> Nat] /\ lost' \in [Worker -> Nat]
          BY <2>1, <2>2, <2>3, <2>4, CallTypes
    <2> QED BY <1>4, <2>5, RecreateAssumption DEF Act, EndAction, TypeOK, Containers, Verbs
  <1>5. ASSUME NEW w \in Worker, Inspect(w)
        PROVE  TypeOK'
    <2>1. Exists(cid[w]) \in BOOLEAN BY DEF Exists
    <2>2. "pull" \in Steps /\ "failed" \in Steps BY DEF Steps, Recreating
    <2>3. Lookup(w, Exists(cid[w]), "pull", "failed") BY <1>5 DEF Inspect
    <2>4. docker' \in Containers /\ pc' \in [Worker -> Steps]
             /\ refused' \in [Worker -> Nat] /\ lost' \in [Worker -> Nat]
          BY <2>1, <2>2, <2>3, LookupTypes
    <2>5. docker[cid[w]].name \in Nat BY DEF TypeOK
    <2> QED BY <1>5, <2>4, <2>5 DEF Inspect, TypeOK, Containers
  <1>6. ASSUME NEW w \in Worker, Pull(w)
        PROVE  TypeOK'
    <2>1. PICK release \in latest..MaxRelease, known \in BOOLEAN :
            /\ latest' = release /\ pulled' = [pulled EXCEPT ![w] = release]
            /\ Lookup(w, TRUE, IF known /\ docker[cid[w]].image = release
                               THEN "unchanged" ELSE "stop", "failed")
          BY <1>6 DEF Pull
    <2>2. release \in Nat BY RecreateAssumption DEF TypeOK
    <2>3. (IF known /\ docker[cid[w]].image = release THEN "unchanged" ELSE "stop") \in Steps
          BY DEF Steps, Recreating
    <2>4. "failed" \in Steps BY DEF Steps, Recreating
    <2>5. docker' \in Containers /\ pc' \in [Worker -> Steps]
             /\ refused' \in [Worker -> Nat] /\ lost' \in [Worker -> Nat]
          BY <2>1, <2>3, <2>4, LookupTypes
    <2> QED BY <1>6, <2>1, <2>2, <2>5 DEF Pull, TypeOK, Containers
  <1>7. ASSUME NEW w \in Worker, NEW accepted \in BOOLEAN, NEW after \in Containers,
               NEW onOk \in Steps, NEW onErr \in Steps,
               Call(w, accepted, after, onOk, onErr), UNCHANGED <<fixed, locals, calm, requests>>
        PROVE  TypeOK'
    <2>1. docker' \in Containers /\ pc' \in [Worker -> Steps]
             /\ refused' \in [Worker -> Nat] /\ lost' \in [Worker -> Nat]
          BY <1>7, CallTypes
    <2> QED BY <1>7, <2>1 DEF TypeOK, Containers
  <1>8. ASSUME NEW w \in Worker, StopOld(w) \/ RestartOld(w) \/ RemoveBackup(w)
                                   \/ RemoveStale(w) \/ StartOld(w)
        PROVE  TypeOK'
    <2>1. /\ Exists(cid[w]) \in BOOLEAN /\ Exists(stale[w]) \in BOOLEAN
          /\ AfterStop(cid[w]) \in Containers /\ AfterStart(cid[w]) \in Containers
          /\ AfterRemove(cid[w]) \in Containers /\ AfterRemove(stale[w]) \in Containers
          BY <1>0, AfterTypes DEF TypeOK, Exists
    <2>2. {"rename", "failed", "updated", "renameBack"} \subseteq Steps BY DEF Steps, Recreating
    <2>3. CASE StopOld(w) BY <2>1, <2>2, <2>3, <1>7 DEF StopOld
    <2>4. CASE RestartOld(w) BY <2>1, <2>2, <2>4, <1>7 DEF RestartOld
    <2>5. CASE RemoveBackup(w) BY <2>1, <2>2, <2>5, <1>7 DEF RemoveBackup
    <2>6. CASE RemoveStale(w) BY <2>1, <2>2, <2>6, <1>7 DEF RemoveStale
    <2>7. CASE StartOld(w) BY <2>1, <2>2, <2>7, <1>7 DEF StartOld
    <2> QED BY <1>8, <2>3, <2>4, <2>5, <2>6, <2>7
  <1>9. ASSUME NEW w \in Worker, RenameOld(w) \/ RenameBack(w)
        PROVE  TypeOK'
    <2>1. /\ nm[w] \in Nat /\ BackupOf(nm[w]) \in Nat
          /\ AfterRename(cid[w], BackupOf(nm[w])) \in Containers
          /\ AfterRename(cid[w], nm[w]) \in Containers
          BY <1>0, AfterTypes, Backups DEF TypeOK
    <2>2. /\ CanRename(cid[w], BackupOf(nm[w])) \in BOOLEAN
          /\ CanRename(cid[w], nm[w]) \in BOOLEAN
          BY DEF CanRename, Exists
    <2>3. {"create", "restartOld", "startOld", "failed"} \subseteq Steps BY DEF Steps, Recreating
    <2>4. CASE RenameOld(w) BY <2>1, <2>2, <2>3, <2>4, <1>7 DEF RenameOld
    <2>5. CASE RenameBack(w) BY <2>1, <2>2, <2>3, <2>5, <1>7 DEF RenameBack
    <2> QED BY <1>9, <2>4, <2>5
  <1>10. ASSUME NEW w \in Worker, CreateNew(w)
         PROVE  TypeOK'
    <2>1. PICK i \in Id :
            /\ Call(w, Named(nm[w]) = {},
                    [docker EXCEPT ![i] = [status |-> "created", name |-> nm[w],
                                           image |-> pulled[w]]], "startNew", "findStale")
            /\ repl' = [repl EXCEPT ![w] = IF pc'[w] = "startNew" THEN {i} ELSE {}]
          BY <1>10 DEF CreateNew
    <2>2. [docker EXCEPT ![i] = [status |-> "created", name |-> nm[w], image |-> pulled[w]]]
            \in Containers
          BY DEF TypeOK, Containers, Status
    <2>3. "startNew" \in Steps /\ "findStale" \in Steps BY DEF Steps, Recreating
    <2>4. docker' \in Containers /\ pc' \in [Worker -> Steps]
             /\ refused' \in [Worker -> Nat] /\ lost' \in [Worker -> Nat]
          BY <2>1, <2>2, <2>3, CallTypes
    <2> DEFINE kept == IF pc'[w] = "startNew" THEN {i} ELSE {}
    <2>5. kept \in SUBSET Id OBVIOUS
    <2>6. repl' = [repl EXCEPT ![w] = kept] BY <2>1
    <2> HIDE DEF kept
    <2>7. repl' \in [Worker -> SUBSET Id] BY <2>5, <2>6 DEF TypeOK
    <2>8. UNCHANGED <<fixed, verb, cid, nm, pulled, stale, wasUp, calm, requests>>
          BY <1>10 DEF CreateNew
    <2> QED BY <2>4, <2>7, <2>8 DEF TypeOK, Containers
  <1>11. ASSUME NEW w \in Worker, StartNew(w)
         PROVE  TypeOK'
    <2>1. PICK i \in repl[w] : Call(w, Exists(i), AfterStart(i), "removeBackup", "findStale")
          BY <1>11 DEF StartNew
    <2>2. i \in Id BY DEF TypeOK
    <2>3. Exists(i) \in BOOLEAN /\ AfterStart(i) \in Containers
          BY <1>0, <2>2, AfterTypes DEF Exists
    <2>4. "removeBackup" \in Steps /\ "findStale" \in Steps BY DEF Steps, Recreating
    <2> QED BY <1>11, <2>1, <2>3, <2>4, <1>7 DEF StartNew
  <1>12. ASSUME NEW w \in Worker, FindStale(w)
         PROVE  TypeOK'
    <2>1. "removeStale" \in Steps /\ "renameBack" \in Steps BY DEF Steps, Recreating
    <2>4. (Named(nm[w]) # {}) \in BOOLEAN OBVIOUS
    <2>5. Lookup(w, Named(nm[w]) # {}, "removeStale", "renameBack") BY <1>12 DEF FindStale
    <2>2. docker' \in Containers /\ pc' \in [Worker -> Steps]
             /\ refused' \in [Worker -> Nat] /\ lost' \in [Worker -> Nat]
          BY <2>1, <2>4, <2>5, LookupTypes
    <2>3. stale' \in [Worker -> Id] BY <1>12 DEF FindStale, Named, TypeOK
    <2> QED BY <1>12, <2>2, <2>3 DEF FindStale, TypeOK, Containers
  <1>13. ASSUME NEW W \in SUBSET Worker, Forget(W), UNCHANGED <<daemon, requests>>
         PROVE  TypeOK'
         BY <1>13, RecreateAssumption DEF Forget, TypeOK, Steps, Verbs
  <1>14. ASSUME NEW w \in Worker, Return(w)
         PROVE  TypeOK'
    <2>1. {w} \in SUBSET Worker OBVIOUS
    <2> QED BY <1>14, <2>1, <1>13 DEF Return
  <1>15. ASSUME NEW i \in Id, Reap(i) \/ Exit(i)
         PROVE  TypeOK'
    <2>1. AfterRemove(i) \in Containers /\ AfterStop(i) \in Containers
          BY <1>0, AfterTypes DEF TypeOK
    <2> QED BY <1>15, <2>1 DEF Reap, Exit, TypeOK, Containers
  <1>16. CASE GatewayRestart BY <1>16, <1>13 DEF GatewayRestart
  <1>17. CASE UNCHANGED vars BY <1>17 DEF vars, TypeOK
  <1> QED BY <1>1, <1>2, <1>3, <1>4, <1>5, <1>6, <1>8, <1>9, <1>10, <1>11, <1>12,
             <1>14, <1>15, <1>16, <1>17 DEF Next

\* Whatever requests overlap, fail or are cut off, the daemon's containers and
\* the threads' locals keep their types (docker_hosts.py:414-562).
THEOREM RecreateTypeCorrect == Spec => []TypeOK
  <1>1. Init => TypeOK BY TypeInit
  <1>2. TypeOK /\ [Next]_vars => TypeOK' BY TypeStep
  <1> QED BY <1>1, <1>2, PTL DEF Spec

-----------------------------------------------------------------------------
(* The inductive invariant.  `calm` says that the request is disturbed by  *)
(* nobody; what it then knows at each step of the code is stated in four   *)
(* parts, one per property.                                                *)

NamesUnique ==
  \A i, j \in Id :
    Exists(i) /\ Exists(j) /\ docker[i].name = docker[j].name => i = j

\* Nothing of an earlier request is left in an idle thread.
Fresh ==
  \A w \in Worker :
    pc[w] \notin Recreating => repl[w] = {} /\ refused[w] = 0 /\ lost[w] = 0

Alone ==
  \A w \in Worker :
    calm[w] => /\ pc[w] \in Recreating
               /\ \A u \in Others(w) : pc[u] = "idle"
               /\ docker[cid[w]].status # "unborn"

\* What can be running.
OneRuns(w) ==
  /\ pc[w] \in {"inspect", "pull", "stop", "unchanged"} => Running \subseteq {cid[w]}
  /\ pc[w] \in {"rename", "restartOld", "create", "startNew", "startOld"} => Running = {}
  /\ pc[w] \in {"findStale", "removeStale", "renameBack"} => Running \subseteq Named(nm[w])
  /\ pc[w] = "removeStale" => Running \subseteq {stale[w]}
  /\ pc[w] \in {"removeBackup", "updated", "failed"} => \E i \in Id : Running \subseteq {i}

\* Where the original is, unless it is a `--rm` container.
OriginalKept(w) ==
  ~rm =>
    /\ pc[w] \notin {"removeBackup", "updated"} => Exists(cid[w])
    /\ pc[w] \in {"pull", "stop", "rename", "unchanged"} => docker[cid[w]].name = nm[w]
    /\ pc[w] \in {"restartOld", "startOld", "failed"} =>
         docker[cid[w]].name \in {nm[w], BackupOf(nm[w])}
    /\ pc[w] \in {"create", "startNew", "findStale", "removeStale", "renameBack"} =>
         docker[cid[w]].name = BackupOf(nm[w])
    /\ pc[w] = "removeStale" => stale[w] \in Named(nm[w])

\* Where the replacement is.
ReplacementMade(w) ==
  /\ pc[w] = "startNew" =>
       \E i \in Id : repl[w] = {i} /\ docker[i] = [status |-> "created", name |-> nm[w],
                                                   image |-> pulled[w]]
  /\ pc[w] \in {"removeBackup", "updated"} =>
       \E i \in repl[w] : docker[i] = [status |-> "running", name |-> nm[w],
                                       image |-> pulled[w]]
  /\ pc[w] \in {"create", "startNew", "removeBackup", "updated"} =>
       (Exists(cid[w]) => docker[cid[w]].name = BackupOf(nm[w]))

\* What a rollback after a single refused call relies on, step by step.
RollbackReady(w) ==
  ~rm /\ lost[w] = 0 /\ refused[w] <= 1 =>
    /\ pc[w] \in {"inspect", "pull", "stop", "rename", "create", "startNew"} => refused[w] = 0
    /\ pc[w] \in {"inspect", "pull", "stop", "rename", "restartOld", "create"} => repl[w] = {}
    /\ pc[w] \in {"pull", "stop"} /\ wasUp[w] => docker[cid[w]].status = "running"
    /\ pc[w] = "restartOld" =>
         /\ docker[cid[w]].name = nm[w]
         /\ refused[w] = 1 \/ \E j \in Named(BackupOf(nm[w])) : j # cid[w]
    /\ pc[w] \in {"create", "renameBack"} => Named(nm[w]) = {}
    /\ pc[w] \in {"startNew", "findStale", "removeStale"} => Named(nm[w]) = repl[w]
    /\ pc[w] \in {"findStale", "removeStale", "renameBack", "startOld"} => refused[w] = 1
    /\ pc[w] \in {"renameBack", "startOld"} => \A i \in repl[w] : ~Exists(i)
    /\ pc[w] = "startOld" => docker[cid[w]].name = nm[w]
    /\ pc[w] = "failed" /\ wasUp[w] /\ Named(BackupOf(nm[w])) \subseteq {cid[w]} =>
         /\ docker[cid[w]].status = "running"
         /\ docker[cid[w]].name = nm[w]
         /\ \A i \in repl[w] : ~Exists(i)

Known(w) == OneRuns(w) /\ OriginalKept(w) /\ ReplacementMade(w) /\ RollbackReady(w)

CalmInv ==
  /\ TypeOK /\ NamesUnique /\ Fresh /\ Alone
  /\ \A w \in Worker : calm[w] => Known(w)

-----------------------------------------------------------------------------
(* What one call can do.                                                   *)

LEMMA CallCases ==
  ASSUME TypeOK, NEW w \in Worker, pc[w] \in Recreating,
         NEW accepted \in BOOLEAN, NEW after, NEW onOk, NEW onErr,
         Call(w, accepted, after, onOk, onErr)
  PROVE  /\ pc' = [pc EXCEPT ![w] = pc'[w]]
         /\ pc'[w] \in {onOk, onErr}
         /\ \A u \in Others(w) : refused'[u] = refused[u] /\ lost'[u] = lost[u]
         /\ \/ /\ accepted /\ docker' = after /\ pc'[w] = onOk
               /\ refused'[w] = refused[w] /\ lost'[w] = lost[w]
            \/ /\ ~accepted /\ docker' = docker /\ pc'[w] = onErr
               /\ refused'[w] = refused[w] /\ lost'[w] = lost[w]
            \/ /\ docker' = docker /\ pc'[w] = onErr
               /\ refused'[w] = refused[w] + 1 /\ lost'[w] = lost[w]
            \/ /\ accepted /\ docker' = after /\ pc'[w] = onErr
               /\ refused'[w] = refused[w] /\ lost'[w] = lost[w] + 1
  <1>1. /\ pc \in [Worker -> Steps]
        /\ refused \in [Worker -> Nat] /\ lost \in [Worker -> Nat]
        BY DEF TypeOK
  <1>2. CASE Answered(w, accepted, after, onOk) BY <1>1, <1>2 DEF Answered, Goto
  <1>3. CASE Rejected(w, accepted, onErr) BY <1>1, <1>3 DEF Rejected, Goto
  <1>4. CASE Refused(w, onErr)
    <2>1. refused' = [refused EXCEPT ![w] = @ + 1] /\ lost' = lost
          BY <1>4 DEF Refused, Counted
    <2> QED BY <1>1, <1>4, <2>1 DEF Refused, Goto, Others
  <1>5. CASE AnswerLost(w, accepted, after, onErr)
    <2>1. lost' = [lost EXCEPT ![w] = @ + 1] /\ refused' = refused
          BY <1>5 DEF AnswerLost, Counted
    <2> QED BY <1>1, <1>5, <2>1 DEF AnswerLost, Goto, Others
  <1> QED BY <1>2, <1>3, <1>4, <1>5 DEF Call

LEMMA LookupCases ==
  ASSUME TypeOK, NEW w \in Worker, pc[w] \in Recreating,
         NEW accepted \in BOOLEAN, NEW onOk, NEW onErr,
         Lookup(w, accepted, onOk, onErr)
  PROVE  /\ pc' = [pc EXCEPT ![w] = pc'[w]]
         /\ pc'[w] \in {onOk, onErr}
         /\ \A u \in Others(w) : refused'[u] = refused[u] /\ lost'[u] = lost[u]
         /\ docker' = docker /\ lost'[w] = lost[w]
         /\ \/ accepted /\ pc'[w] = onOk /\ refused'[w] = refused[w]
            \/ ~accepted /\ pc'[w] = onErr /\ refused'[w] = refused[w]
            \/ pc'[w] = onErr /\ refused'[w] = refused[w] + 1
  <1>1. /\ pc \in [Worker -> Steps]
        /\ refused \in [Worker -> Nat] /\ lost \in [Worker -> Nat]
        BY DEF TypeOK
  <1>2. CASE Answered(w, accepted, docker, onOk) BY <1>1, <1>2 DEF Answered, Goto
  <1>3. CASE Rejected(w, accepted, onErr) BY <1>1, <1>3 DEF Rejected, Goto
  <1>4. CASE Refused(w, onErr)
    <2>1. refused' = [refused EXCEPT ![w] = @ + 1] /\ lost' = lost
          BY <1>4 DEF Refused, Counted
    <2> QED BY <1>1, <1>4, <2>1 DEF Refused, Goto, Others
  <1> QED BY <1>2, <1>3, <1>4 DEF Lookup

LEMMA StopOldStep ==
  ASSUME CalmInv, NEW w \in Worker, calm[w], StopOld(w)
  PROVE  Known(w)'
  <1> USE DEF fixed, locals
  <1>0. pc[w] \in Recreating /\ (Exists(cid[w])) \in BOOLEAN
        BY DEF CalmInv, Alone, Exists
  <1>1. /\ docker \in Containers /\ cid[w] \in Id /\ stale[w] \in Id /\ nm[w] \in Nat
        /\ refused[w] \in Nat /\ lost[w] \in Nat
        BY DEF CalmInv, TypeOK, Containers
  <1>2. Call(w, Exists(cid[w]), AfterStop(cid[w]), "rename", "failed")
        BY DEF StopOld
  <1>3. \/ /\ Exists(cid[w]) /\ docker' = AfterStop(cid[w]) /\ pc'[w] = "rename"
           /\ refused'[w] = refused[w] /\ lost'[w] = lost[w]
        \/ /\ ~Exists(cid[w]) /\ docker' = docker /\ pc'[w] = "failed"
           /\ refused'[w] = refused[w] /\ lost'[w] = lost[w]
        \/ /\ docker' = docker /\ pc'[w] = "failed"
           /\ refused'[w] = refused[w] + 1 /\ lost'[w] = lost[w]
        \/ /\ Exists(cid[w]) /\ docker' = AfterStop(cid[w]) /\ pc'[w] = "failed"
           /\ refused'[w] = refused[w] /\ lost'[w] = lost[w] + 1
        BY <1>0, <1>2, CallCases DEF CalmInv
  <1>4. /\ rm' = rm /\ cid' = cid /\ nm' = nm /\ repl' = repl /\ stale' = stale
        /\ wasUp' = wasUp /\ pulled' = pulled /\ pc[w] = "stop"
        BY DEF StopOld
  <1>5. OneRuns(w) /\ OriginalKept(w) /\ ReplacementMade(w) /\ RollbackReady(w) /\ NamesUnique
        BY DEF CalmInv, Known
  <1>6. repl[w] \in SUBSET Id BY DEF CalmInv, TypeOK
  <1> USE DEF Running, Named, Exists, AfterStop, Containers, BackupOf
  <1>7. OneRuns(w)'
        BY <1>1, <1>3, <1>4, <1>5 DEF OneRuns, NamesUnique
  <1>8. OriginalKept(w)'
        BY <1>1, <1>3, <1>4, <1>5 DEF OriginalKept, NamesUnique
  <1>9. ReplacementMade(w)'
        BY <1>1, <1>3, <1>4, <1>5, <1>6 DEF ReplacementMade
  <1>10. RollbackReady(w)'
        BY <1>1, <1>3, <1>4, <1>5, <1>6 DEF OriginalKept, RollbackReady, NamesUnique
  <1> QED BY <1>7, <1>8, <1>9, <1>10 DEF Known

LEMMA RenameOldStep ==
  ASSUME CalmInv, NEW w \in Worker, calm[w], RenameOld(w)
  PROVE  Known(w)'
  <1> USE DEF fixed, locals
  <1>0. pc[w] \in Recreating /\ (CanRename(cid[w], BackupOf(nm[w]))) \in BOOLEAN
        BY DEF CalmInv, Alone, CanRename, Exists
  <1>1. /\ docker \in Containers /\ cid[w] \in Id /\ stale[w] \in Id /\ nm[w] \in Nat
        /\ refused[w] \in Nat /\ lost[w] \in Nat
        BY DEF CalmInv, TypeOK, Containers
  <1>2. Call(w, CanRename(cid[w], BackupOf(nm[w])), AfterRename(cid[w], BackupOf(nm[w])), "create", "restartOld")
        BY DEF RenameOld
  <1>3. \/ /\ CanRename(cid[w], BackupOf(nm[w])) /\ docker' = AfterRename(cid[w], BackupOf(nm[w])) /\ pc'[w] = "create"
           /\ refused'[w] = refused[w] /\ lost'[w] = lost[w]
        \/ /\ ~CanRename(cid[w], BackupOf(nm[w])) /\ docker' = docker /\ pc'[w] = "restartOld"
           /\ refused'[w] = refused[w] /\ lost'[w] = lost[w]
        \/ /\ docker' = docker /\ pc'[w] = "restartOld"
           /\ refused'[w] = refused[w] + 1 /\ lost'[w] = lost[w]
        \/ /\ CanRename(cid[w], BackupOf(nm[w])) /\ docker' = AfterRename(cid[w], BackupOf(nm[w])) /\ pc'[w] = "restartOld"
           /\ refused'[w] = refused[w] /\ lost'[w] = lost[w] + 1
        BY <1>0, <1>2, CallCases DEF CalmInv
  <1>4. /\ rm' = rm /\ cid' = cid /\ nm' = nm /\ repl' = repl /\ stale' = stale
        /\ wasUp' = wasUp /\ pulled' = pulled /\ pc[w] = "rename"
        BY DEF RenameOld
  <1>5. OneRuns(w) /\ OriginalKept(w) /\ ReplacementMade(w) /\ RollbackReady(w) /\ NamesUnique
        BY DEF CalmInv, Known
  <1>6. repl[w] \in SUBSET Id BY DEF CalmInv, TypeOK
  <1> USE DEF Running, Named, Exists, AfterRename, CanRename, Containers, BackupOf
  <1>7. OneRuns(w)'
        BY <1>1, <1>3, <1>4, <1>5 DEF OneRuns, NamesUnique
  <1>8. OriginalKept(w)'
        BY <1>1, <1>3, <1>4, <1>5 DEF OriginalKept, NamesUnique
  <1>9. ReplacementMade(w)'
        BY <1>1, <1>3, <1>4, <1>5, <1>6 DEF ReplacementMade
  <1>10. RollbackReady(w)'
        BY <1>1, <1>3, <1>4, <1>5, <1>6 DEF OriginalKept, RollbackReady, NamesUnique
  <1> QED BY <1>7, <1>8, <1>9, <1>10 DEF Known

LEMMA RestartOldStep ==
  ASSUME CalmInv, NEW w \in Worker, calm[w], RestartOld(w)
  PROVE  Known(w)'
  <1> USE DEF fixed, locals
  <1>0. pc[w] \in Recreating /\ (Exists(cid[w])) \in BOOLEAN
        BY DEF CalmInv, Alone, Exists
  <1>1. /\ docker \in Containers /\ cid[w] \in Id /\ stale[w] \in Id /\ nm[w] \in Nat
        /\ refused[w] \in Nat /\ lost[w] \in Nat
        BY DEF CalmInv, TypeOK, Containers
  <1>2. Call(w, Exists(cid[w]), AfterStart(cid[w]), "failed", "failed")
        BY DEF RestartOld
  <1>3. \/ /\ Exists(cid[w]) /\ docker' = AfterStart(cid[w]) /\ pc'[w] = "failed"
           /\ refused'[w] = refused[w] /\ lost'[w] = lost[w]
        \/ /\ ~Exists(cid[w]) /\ docker' = docker /\ pc'[w] = "failed"
           /\ refused'[w] = refused[w] /\ lost'[w] = lost[w]
        \/ /\ docker' = docker /\ pc'[w] = "failed"
           /\ refused'[w] = refused[w] + 1 /\ lost'[w] = lost[w]
        \/ /\ Exists(cid[w]) /\ docker' = AfterStart(cid[w]) /\ pc'[w] = "failed"
           /\ refused'[w] = refused[w] /\ lost'[w] = lost[w] + 1
        BY <1>0, <1>2, CallCases DEF CalmInv
  <1>4. /\ rm' = rm /\ cid' = cid /\ nm' = nm /\ repl' = repl /\ stale' = stale
        /\ wasUp' = wasUp /\ pulled' = pulled /\ pc[w] = "restartOld"
        BY DEF RestartOld
  <1>5. OneRuns(w) /\ OriginalKept(w) /\ ReplacementMade(w) /\ RollbackReady(w) /\ NamesUnique
        BY DEF CalmInv, Known
  <1>6. repl[w] \in SUBSET Id BY DEF CalmInv, TypeOK
  <1> USE DEF Running, Named, Exists, AfterStart, Containers, BackupOf
  <1>7. OneRuns(w)'
        BY <1>1, <1>3, <1>4, <1>5 DEF OneRuns, NamesUnique
  <1>8. OriginalKept(w)'
        BY <1>1, <1>3, <1>4, <1>5 DEF OriginalKept, NamesUnique
  <1>9. ReplacementMade(w)'
        BY <1>1, <1>3, <1>4, <1>5, <1>6 DEF ReplacementMade
  <1>10. RollbackReady(w)'
        BY <1>1, <1>3, <1>4, <1>5, <1>6 DEF OriginalKept, RollbackReady, NamesUnique
  <1> QED BY <1>7, <1>8, <1>9, <1>10 DEF Known

LEMMA RemoveBackupStep ==
  ASSUME CalmInv, NEW w \in Worker, calm[w], RemoveBackup(w)
  PROVE  Known(w)'
  <1> USE DEF fixed, locals
  <1>0. pc[w] \in Recreating /\ (Exists(cid[w])) \in BOOLEAN
        BY DEF CalmInv, Alone, Exists
  <1>1. /\ docker \in Containers /\ cid[w] \in Id /\ stale[w] \in Id /\ nm[w] \in Nat
        /\ refused[w] \in Nat /\ lost[w] \in Nat
        BY DEF CalmInv, TypeOK, Containers
  <1>2. Call(w, Exists(cid[w]), AfterRemove(cid[w]), "updated", "updated")
        BY DEF RemoveBackup
  <1>3. \/ /\ Exists(cid[w]) /\ docker' = AfterRemove(cid[w]) /\ pc'[w] = "updated"
           /\ refused'[w] = refused[w] /\ lost'[w] = lost[w]
        \/ /\ ~Exists(cid[w]) /\ docker' = docker /\ pc'[w] = "updated"
           /\ refused'[w] = refused[w] /\ lost'[w] = lost[w]
        \/ /\ docker' = docker /\ pc'[w] = "updated"
           /\ refused'[w] = refused[w] + 1 /\ lost'[w] = lost[w]
        \/ /\ Exists(cid[w]) /\ docker' = AfterRemove(cid[w]) /\ pc'[w] = "updated"
           /\ refused'[w] = refused[w] /\ lost'[w] = lost[w] + 1
        BY <1>0, <1>2, CallCases DEF CalmInv
  <1>4. /\ rm' = rm /\ cid' = cid /\ nm' = nm /\ repl' = repl /\ stale' = stale
        /\ wasUp' = wasUp /\ pulled' = pulled /\ pc[w] = "removeBackup"
        BY DEF RemoveBackup
  <1>5. OneRuns(w) /\ OriginalKept(w) /\ ReplacementMade(w) /\ RollbackReady(w) /\ NamesUnique
        BY DEF CalmInv, Known
  <1>6. repl[w] \in SUBSET Id BY DEF CalmInv, TypeOK
  <1> USE DEF Running, Named, Exists, AfterRemove, Containers, BackupOf
  <1>7. OneRuns(w)'
        BY <1>1, <1>3, <1>4, <1>5 DEF OneRuns, NamesUnique
  <1>8. OriginalKept(w)'
        BY <1>1, <1>3, <1>4, <1>5 DEF OriginalKept, NamesUnique
  <1>9. ReplacementMade(w)'
        BY <1>1, <1>3, <1>4, <1>5, <1>6 DEF ReplacementMade
  <1>10. RollbackReady(w)'
        BY <1>1, <1>3, <1>4, <1>5, <1>6 DEF OriginalKept, RollbackReady, NamesUnique
  <1> QED BY <1>7, <1>8, <1>9, <1>10 DEF Known

LEMMA RemoveStaleStep ==
  ASSUME CalmInv, NEW w \in Worker, calm[w], RemoveStale(w)
  PROVE  Known(w)'
  <1> USE DEF fixed, locals
  <1>0. pc[w] \in Recreating /\ (Exists(stale[w])) \in BOOLEAN
        BY DEF CalmInv, Alone, Exists
  <1>1. /\ docker \in Containers /\ cid[w] \in Id /\ stale[w] \in Id /\ nm[w] \in Nat
        /\ refused[w] \in Nat /\ lost[w] \in Nat
        BY DEF CalmInv, TypeOK, Containers
  <1>2. Call(w, Exists(stale[w]), AfterRemove(stale[w]), "renameBack", "renameBack")
        BY DEF RemoveStale
  <1>3. \/ /\ Exists(stale[w]) /\ docker' = AfterRemove(stale[w]) /\ pc'[w] = "renameBack"
           /\ refused'[w] = refused[w] /\ lost'[w] = lost[w]
        \/ /\ ~Exists(stale[w]) /\ docker' = docker /\ pc'[w] = "renameBack"
           /\ refused'[w] = refused[w] /\ lost'[w] = lost[w]
        \/ /\ docker' = docker /\ pc'[w] = "renameBack"
           /\ refused'[w] = refused[w] + 1 /\ lost'[w] = lost[w]
        \/ /\ Exists(stale[w]) /\ docker' = AfterRemove(stale[w]) /\ pc'[w] = "renameBack"
           /\ refused'[w] = refused[w] /\ lost'[w] = lost[w] + 1
        BY <1>0, <1>2, CallCases DEF CalmInv
  <1>4. /\ rm' = rm /\ cid' = cid /\ nm' = nm /\ repl' = repl /\ stale' = stale
        /\ wasUp' = wasUp /\ pulled' = pulled /\ pc[w] = "removeStale"
        BY DEF RemoveStale
  <1>5. OneRuns(w) /\ OriginalKept(w) /\ ReplacementMade(w) /\ RollbackReady(w) /\ NamesUnique
        BY DEF CalmInv, Known
  <1>6. repl[w] \in SUBSET Id BY DEF CalmInv, TypeOK
  <1> USE DEF Running, Named, Exists, AfterRemove, Containers, BackupOf
  <1>7. OneRuns(w)'
        BY <1>1, <1>3, <1>4, <1>5 DEF OneRuns, NamesUnique
  <1>8. OriginalKept(w)'
        BY <1>1, <1>3, <1>4, <1>5 DEF OriginalKept, NamesUnique
  <1>9. ReplacementMade(w)'
        BY <1>1, <1>3, <1>4, <1>5, <1>6 DEF ReplacementMade
  <1>10. RollbackReady(w)'
        BY <1>1, <1>3, <1>4, <1>5, <1>6 DEF OriginalKept, RollbackReady, NamesUnique
  <1> QED BY <1>7, <1>8, <1>9, <1>10 DEF Known

LEMMA RenameBackStep ==
  ASSUME CalmInv, NEW w \in Worker, calm[w], RenameBack(w)
  PROVE  Known(w)'
  <1> USE DEF fixed, locals
  <1>0. pc[w] \in Recreating /\ (CanRename(cid[w], nm[w])) \in BOOLEAN
        BY DEF CalmInv, Alone, CanRename, Exists
  <1>1. /\ docker \in Containers /\ cid[w] \in Id /\ stale[w] \in Id /\ nm[w] \in Nat
        /\ refused[w] \in Nat /\ lost[w] \in Nat
        BY DEF CalmInv, TypeOK, Containers
  <1>2. Call(w, CanRename(cid[w], nm[w]), AfterRename(cid[w], nm[w]), "startOld", "failed")
        BY DEF RenameBack
  <1>3. \/ /\ CanRename(cid[w], nm[w]) /\ docker' = AfterRename(cid[w], nm[w]) /\ pc'[w] = "startOld"
           /\ refused'[w] = refused[w] /\ lost'[w] = lost[w]
        \/ /\ ~CanRename(cid[w], nm[w]) /\ docker' = docker /\ pc'[w] = "failed"
           /\ refused'[w] = refused[w] /\ lost'[w] = lost[w]
        \/ /\ docker' = docker /\ pc'[w] = "failed"
           /\ refused'[w] = refused[w] + 1 /\ lost'[w] = lost[w]
        \/ /\ CanRename(cid[w], nm[w]) /\ docker' = AfterRename(cid[w], nm[w]) /\ pc'[w] = "failed"
           /\ refused'[w] = refused[w] /\ lost'[w] = lost[w] + 1
        BY <1>0, <1>2, CallCases DEF CalmInv
  <1>4. /\ rm' = rm /\ cid' = cid /\ nm' = nm /\ repl' = repl /\ stale' = stale
        /\ wasUp' = wasUp /\ pulled' = pulled /\ pc[w] = "renameBack"
        BY DEF RenameBack
  <1>5. OneRuns(w) /\ OriginalKept(w) /\ ReplacementMade(w) /\ RollbackReady(w) /\ NamesUnique
        BY DEF CalmInv, Known
  <1>6. repl[w] \in SUBSET Id BY DEF CalmInv, TypeOK
  <1> USE DEF Running, Named, Exists, AfterRename, CanRename, Containers, BackupOf
  <1>7. OneRuns(w)'
        BY <1>1, <1>3, <1>4, <1>5 DEF OneRuns, NamesUnique
  <1>8. OriginalKept(w)'
        BY <1>1, <1>3, <1>4, <1>5 DEF OriginalKept, NamesUnique
  <1>9. ReplacementMade(w)'
        BY <1>1, <1>3, <1>4, <1>5, <1>6 DEF ReplacementMade
  <1>10. RollbackReady(w)'
        BY <1>1, <1>3, <1>4, <1>5, <1>6 DEF OriginalKept, RollbackReady, NamesUnique
  <1> QED BY <1>7, <1>8, <1>9, <1>10 DEF Known

LEMMA StartOldStep ==
  ASSUME CalmInv, NEW w \in Worker, calm[w], StartOld(w)
  PROVE  Known(w)'
  <1> USE DEF fixed, locals
  <1>0. pc[w] \in Recreating /\ (Exists(cid[w])) \in BOOLEAN
        BY DEF CalmInv, Alone, Exists
  <1>1. /\ docker \in Containers /\ cid[w] \in Id /\ stale[w] \in Id /\ nm[w] \in Nat
        /\ refused[w] \in Nat /\ lost[w] \in Nat
        BY DEF CalmInv, TypeOK, Containers
  <1>2. Call(w, Exists(cid[w]), AfterStart(cid[w]), "failed", "failed")
        BY DEF StartOld
  <1>3. \/ /\ Exists(cid[w]) /\ docker' = AfterStart(cid[w]) /\ pc'[w] = "failed"
           /\ refused'[w] = refused[w] /\ lost'[w] = lost[w]
        \/ /\ ~Exists(cid[w]) /\ docker' = docker /\ pc'[w] = "failed"
           /\ refused'[w] = refused[w] /\ lost'[w] = lost[w]
        \/ /\ docker' = docker /\ pc'[w] = "failed"
           /\ refused'[w] = refused[w] + 1 /\ lost'[w] = lost[w]
        \/ /\ Exists(cid[w]) /\ docker' = AfterStart(cid[w]) /\ pc'[w] = "failed"
           /\ refused'[w] = refused[w] /\ lost'[w] = lost[w] + 1
        BY <1>0, <1>2, CallCases DEF CalmInv
  <1>4. /\ rm' = rm /\ cid' = cid /\ nm' = nm /\ repl' = repl /\ stale' = stale
        /\ wasUp' = wasUp /\ pulled' = pulled /\ pc[w] = "startOld"
        BY DEF StartOld
  <1>5. OneRuns(w) /\ OriginalKept(w) /\ ReplacementMade(w) /\ RollbackReady(w) /\ NamesUnique
        BY DEF CalmInv, Known
  <1>6. repl[w] \in SUBSET Id BY DEF CalmInv, TypeOK
  <1> USE DEF Running, Named, Exists, AfterStart, Containers, BackupOf
  <1>7. OneRuns(w)'
        BY <1>1, <1>3, <1>4, <1>5 DEF OneRuns, NamesUnique
  <1>8. OriginalKept(w)'
        BY <1>1, <1>3, <1>4, <1>5 DEF OriginalKept, NamesUnique
  <1>9. ReplacementMade(w)'
        BY <1>1, <1>3, <1>4, <1>5, <1>6 DEF ReplacementMade
  <1>10. RollbackReady(w)'
        BY <1>1, <1>3, <1>4, <1>5, <1>6 DEF OriginalKept, RollbackReady, NamesUnique
  <1> QED BY <1>7, <1>8, <1>9, <1>10 DEF Known

LEMMA InspectStep ==
  ASSUME CalmInv, NEW w \in Worker, calm[w], Inspect(w)
  PROVE  Known(w)'
  <1> USE DEF fixed
  <1>0. pc[w] \in Recreating /\ Exists(cid[w]) \in BOOLEAN
        BY DEF CalmInv, Alone, Exists
  <1>1. /\ docker \in Containers /\ cid[w] \in Id /\ nm \in [Worker -> Nat]
        /\ wasUp \in [Worker -> BOOLEAN] /\ refused[w] \in Nat /\ lost[w] \in Nat
        BY DEF CalmInv, TypeOK, Containers
  <1>2. Lookup(w, Exists(cid[w]), "pull", "failed")
        BY DEF Inspect
  <1>3. /\ docker' = docker /\ lost'[w] = lost[w]
        /\ \/ pc'[w] = "pull" /\ refused'[w] = refused[w]
           \/ ~Exists(cid[w]) /\ pc'[w] = "failed" /\ refused'[w] = refused[w]
           \/ pc'[w] = "failed" /\ refused'[w] = refused[w] + 1
        BY <1>0, <1>2, LookupCases DEF CalmInv
  <1>4. /\ rm' = rm /\ cid' = cid /\ repl' = repl /\ stale' = stale
        /\ pulled' = pulled /\ pc[w] = "inspect"
        /\ nm'[w] = docker[cid[w]].name
        /\ wasUp'[w] <=> docker[cid[w]].status = "running"
        BY <1>1 DEF Inspect
  <1>5. OneRuns(w) /\ OriginalKept(w) /\ RollbackReady(w)
        BY DEF CalmInv, Known
  <1> USE DEF Running, Named, Exists, Containers
  <1>6. OneRuns(w)' BY <1>1, <1>3, <1>4, <1>5 DEF OneRuns
  <1>7. OriginalKept(w)' BY <1>1, <1>3, <1>4, <1>5 DEF OriginalKept
  <1>8. ReplacementMade(w)' BY <1>3 DEF ReplacementMade
  <1>9. RollbackReady(w)' BY <1>1, <1>3, <1>4, <1>5 DEF OriginalKept, RollbackReady
  <1> QED BY <1>6, <1>7, <1>8, <1>9 DEF Known

LEMMA PullStep ==
  ASSUME CalmInv, NEW w \in Worker, calm[w], Pull(w)
  PROVE  Known(w)'
  <1> USE DEF fixed
  <1>0. pc[w] \in Recreating BY DEF CalmInv, Alone
  <1>1. /\ docker \in Containers /\ cid[w] \in Id /\ nm[w] \in Nat
        /\ refused[w] \in Nat /\ lost[w] \in Nat
        BY DEF CalmInv, TypeOK, Containers
  <1>2. PICK onOk \in {"unchanged", "stop"} : Lookup(w, TRUE, onOk, "failed")
        BY DEF Pull
  <1>3. /\ docker' = docker /\ lost'[w] = lost[w]
        /\ \/ pc'[w] \in {"unchanged", "stop"} /\ refused'[w] = refused[w]
           \/ pc'[w] = "failed" /\ refused'[w] = refused[w] + 1
        BY <1>0, <1>2, LookupCases DEF CalmInv
  <1>4. /\ rm' = rm /\ cid' = cid /\ nm' = nm /\ repl' = repl /\ stale' = stale
        /\ wasUp' = wasUp /\ pc[w] = "pull"
        BY DEF Pull
  <1>5. OneRuns(w) /\ OriginalKept(w) /\ RollbackReady(w)
        BY DEF CalmInv, Known
  <1> USE DEF Running, Named, Exists, Containers
  <1>6. OneRuns(w)' BY <1>1, <1>3, <1>4, <1>5 DEF OneRuns
  <1>7. OriginalKept(w)' BY <1>1, <1>3, <1>4, <1>5 DEF OriginalKept
  <1>8. ReplacementMade(w)' BY <1>3 DEF ReplacementMade
  <1>9. RollbackReady(w)' BY <1>1, <1>3, <1>4, <1>5 DEF OriginalKept, RollbackReady
  <1> QED BY <1>6, <1>7, <1>8, <1>9 DEF Known

LEMMA CreateNewStep ==
  ASSUME CalmInv, NEW w \in Worker, calm[w], CreateNew(w)
  PROVE  Known(w)'
  <1> USE DEF fixed
  <1>0. pc[w] \in Recreating BY DEF CalmInv, Alone
  <1> DEFINE free == Named(nm[w]) = {}
  <1>1. /\ docker \in Containers /\ cid[w] \in Id /\ nm[w] \in Nat /\ pulled[w] \in Nat
        /\ refused[w] \in Nat /\ lost[w] \in Nat /\ repl \in [Worker -> SUBSET Id]
        /\ docker[cid[w]].status # "unborn"
        BY DEF CalmInv, TypeOK, Containers, Alone
  <1> DEFINE Born(i) == [docker EXCEPT ![i] = [status |-> "created", name |-> nm[w],
                                               image |-> pulled[w]]]
  <1>2. PICK i \in Id :
          /\ docker[i].status = "unborn"
          /\ Call(w, free, Born(i), "startNew", "findStale")
          /\ repl' = [repl EXCEPT ![w] = IF pc'[w] = "startNew" THEN {i} ELSE {}]
        BY DEF CreateNew
  <1>12. free \in BOOLEAN OBVIOUS
  <1> HIDE DEF Born, free
  <1>3. \/ /\ free /\ docker' = Born(i) /\ pc'[w] = "startNew"
           /\ refused'[w] = refused[w] /\ lost'[w] = lost[w]
        \/ /\ ~free /\ docker' = docker /\ pc'[w] = "findStale"
           /\ refused'[w] = refused[w] /\ lost'[w] = lost[w]
        \/ /\ docker' = docker /\ pc'[w] = "findStale"
           /\ refused'[w] = refused[w] + 1 /\ lost'[w] = lost[w]
        \/ /\ free /\ docker' = Born(i) /\ pc'[w] = "findStale"
           /\ refused'[w] = refused[w] /\ lost'[w] = lost[w] + 1
        BY <1>0, <1>2, <1>12, CallCases DEF CalmInv
  <1>4. /\ rm' = rm /\ cid' = cid /\ nm' = nm /\ pulled' = pulled /\ pc[w] = "create"
        BY DEF CreateNew
  <1>5. repl'[w] = IF pc'[w] = "startNew" THEN {i} ELSE {}
        BY <1>1, <1>2
  <1>6. OneRuns(w) /\ OriginalKept(w) /\ ReplacementMade(w) /\ RollbackReady(w)
        BY DEF CalmInv, Known
  <1>7. docker[i].status = "unborn" BY <1>2
  <1> USE DEF Running, Named, Exists, Containers, Born, free
  <1>8. OneRuns(w)' BY <1>1, <1>3, <1>4, <1>6, <1>7 DEF OneRuns
  <1>9. OriginalKept(w)' BY <1>1, <1>3, <1>4, <1>6, <1>7 DEF OriginalKept
  <1>10. ReplacementMade(w)'
         BY <1>1, <1>3, <1>4, <1>5, <1>6, <1>7 DEF ReplacementMade, BackupOf
  <1>11. RollbackReady(w)'
         BY <1>1, <1>3, <1>4, <1>5, <1>6, <1>7 DEF RollbackReady
  <1> QED BY <1>8, <1>9, <1>10, <1>11 DEF Known

LEMMA StartNewStep ==
  ASSUME CalmInv, NEW w \in Worker, calm[w], StartNew(w)
  PROVE  Known(w)'
  <1> USE DEF fixed, locals
  <1>0. pc[w] \in Recreating /\ pc[w] = "startNew" BY DEF CalmInv, Alone, StartNew
  <1>1. /\ docker \in Containers /\ cid[w] \in Id /\ nm[w] \in Nat /\ pulled[w] \in Nat
        /\ refused[w] \in Nat /\ lost[w] \in Nat
        BY DEF CalmInv, TypeOK, Containers
  <1>2. OneRuns(w) /\ OriginalKept(w) /\ ReplacementMade(w) /\ RollbackReady(w)
        BY DEF CalmInv, Known
  <1>3. PICK i \in Id : /\ repl[w] = {i}
                        /\ docker[i] = [status |-> "created", name |-> nm[w],
                                        image |-> pulled[w]]
        BY <1>0, <1>2 DEF ReplacementMade
  <1>4. Call(w, Exists(i), AfterStart(i), "removeBackup", "findStale")
        BY <1>3 DEF StartNew
  <1>5. Exists(i) \in BOOLEAN BY DEF Exists
  <1>6. \/ /\ Exists(i) /\ docker' = AfterStart(i) /\ pc'[w] = "removeBackup"
           /\ refused'[w] = refused[w] /\ lost'[w] = lost[w]
        \/ /\ ~Exists(i) /\ docker' = docker /\ pc'[w] = "findStale"
           /\ refused'[w] = refused[w] /\ lost'[w] = lost[w]
        \/ /\ docker' = docker /\ pc'[w] = "findStale"
           /\ refused'[w] = refused[w] + 1 /\ lost'[w] = lost[w]
        \/ /\ Exists(i) /\ docker' = AfterStart(i) /\ pc'[w] = "findStale"
           /\ refused'[w] = refused[w] /\ lost'[w] = lost[w] + 1
        BY <1>0, <1>4, <1>5, CallCases DEF CalmInv
  <1>7. /\ rm' = rm /\ cid' = cid /\ nm' = nm /\ repl' = repl /\ pulled' = pulled
        BY DEF StartNew
  <1> USE DEF Running, Named, Exists, AfterStart, Containers
  <1>8. OneRuns(w)' BY <1>0, <1>1, <1>2, <1>3, <1>6, <1>7 DEF OneRuns
  <1>9. OriginalKept(w)' BY <1>0, <1>1, <1>2, <1>3, <1>6, <1>7 DEF OriginalKept
  <1>10. ReplacementMade(w)'
         BY <1>0, <1>1, <1>2, <1>3, <1>6, <1>7 DEF ReplacementMade
  <1>11. RollbackReady(w)'
         BY <1>0, <1>1, <1>2, <1>3, <1>6, <1>7 DEF RollbackReady
  <1> QED BY <1>8, <1>9, <1>10, <1>11 DEF Known

LEMMA FindStaleStep ==
  ASSUME CalmInv, NEW w \in Worker, calm[w], FindStale(w)
  PROVE  Known(w)'
  <1> USE DEF fixed
  <1>0. pc[w] \in Recreating /\ (Named(nm[w]) # {}) \in BOOLEAN
        BY DEF CalmInv, Alone
  <1>1. /\ docker \in Containers /\ cid[w] \in Id /\ nm[w] \in Nat
        /\ refused[w] \in Nat /\ lost[w] \in Nat
        /\ stale \in [Worker -> Id] /\ repl[w] \in SUBSET Id
        BY DEF CalmInv, TypeOK, Containers
  <1>2. Lookup(w, Named(nm[w]) # {}, "removeStale", "renameBack")
        BY DEF FindStale
  <1>3. /\ docker' = docker /\ lost'[w] = lost[w]
        /\ \/ /\ Named(nm[w]) # {} /\ pc'[w] = "removeStale" /\ refused'[w] = refused[w]
           \/ /\ ~(Named(nm[w]) # {}) /\ pc'[w] = "renameBack" /\ refused'[w] = refused[w]
           \/ pc'[w] = "renameBack" /\ refused'[w] = refused[w] + 1
        BY <1>0, <1>2, LookupCases DEF CalmInv
  <1>4. /\ rm' = rm /\ cid' = cid /\ nm' = nm /\ repl' = repl /\ pulled' = pulled
        /\ wasUp' = wasUp /\ pc[w] = "findStale"
        BY DEF FindStale
  <1>5. Named(nm[w]) # {} => stale'[w] \in Named(nm[w])
    <2>1. CASE Named(nm[w]) = {} BY <2>1
    <2>2. CASE Named(nm[w]) # {}
      <3>1. PICK i \in Named(nm[w]) : stale' = [stale EXCEPT ![w] = i]
            BY <2>2 DEF FindStale
      <3> QED BY <1>1, <3>1
    <2> QED BY <2>1, <2>2
  <1>6. OneRuns(w) /\ OriginalKept(w) /\ RollbackReady(w) /\ NamesUnique
        BY DEF CalmInv, Known
  <1>7. \A i, j \in Named(nm[w]) : i = j
        BY <1>6 DEF NamesUnique, Named
  <1>8. Named(nm[w])' = Named(nm[w]) /\ Running' = Running
        BY <1>3, <1>4 DEF Named, Running, Exists
  <1>9. OneRuns(w)' BY <1>3, <1>4, <1>5, <1>6, <1>7, <1>8 DEF OneRuns
  <1>10. OriginalKept(w)' BY <1>3, <1>4, <1>5, <1>6, <1>8 DEF OriginalKept, Exists
  <1>11. ReplacementMade(w)' BY <1>3 DEF ReplacementMade
  <1>12. RollbackReady(w)'
         BY <1>1, <1>3, <1>4, <1>6, <1>8 DEF RollbackReady, Named
  <1> QED BY <1>9, <1>10, <1>11, <1>12 DEF Known

LEMMA BeginStep ==
  ASSUME CalmInv, NEW w \in Worker, NEW i \in Id, BeginRecreate(w, i), calm'[w]
  PROVE  Known(w)'
  <1> USE DEF daemon
  <1>1. /\ Exists(i) /\ Running \subseteq {i} /\ docker' = docker /\ pc'[w] = "inspect"
        /\ cid'[w] = i /\ repl' = repl /\ refused' = refused /\ lost' = lost
        BY DEF BeginRecreate, BeginRequest, CalmInv, TypeOK, Goto
  <1>2. repl[w] = {} /\ refused[w] = 0 /\ lost[w] = 0
        BY DEF CalmInv, Fresh, BeginRecreate, BeginRequest, Recreating
  <1> QED BY <1>1, <1>2 DEF Known, OneRuns, OriginalKept, ReplacementMade, RollbackReady,
                            Running, Exists

LEMMA ReapStep ==
  ASSUME CalmInv, NEW w \in Worker, calm[w], NEW i \in Id, Reap(i)
  PROVE  Known(w)'
  <1> USE DEF fixed, locals, history
  <1>1. /\ docker \in Containers /\ cid[w] \in Id /\ stale[w] \in Id /\ nm[w] \in Nat
        /\ repl[w] \in SUBSET Id
        BY DEF CalmInv, TypeOK, Containers
  <1>2. /\ rm /\ rm' = rm /\ docker[i].status = "exited" /\ docker' = AfterRemove(i)
        /\ pc' = pc /\ cid' = cid /\ nm' = nm /\ pulled' = pulled /\ repl' = repl
        /\ stale' = stale
        BY DEF Reap
  <1>3. OneRuns(w) /\ ReplacementMade(w) BY DEF CalmInv, Known
  <1> USE DEF Running, Named, Exists, AfterRemove, Containers
  <1>4. OneRuns(w)' BY <1>1, <1>2, <1>3 DEF OneRuns
  <1>5. ReplacementMade(w)' BY <1>1, <1>2, <1>3 DEF ReplacementMade
  <1> QED BY <1>2, <1>4, <1>5 DEF Known, OriginalKept, RollbackReady

-----------------------------------------------------------------------------
(* The parts that concern everybody.                                       *)

\* The steps of pull_recreate from inspection to the result.
Advance(w) ==
  \/ Inspect(w) \/ Pull(w) \/ StopOld(w) \/ RenameOld(w) \/ RestartOld(w)
  \/ CreateNew(w) \/ StartNew(w) \/ RemoveBackup(w)
  \/ FindStale(w) \/ RemoveStale(w) \/ RenameBack(w) \/ StartOld(w)

LEMMA LookupDocker ==
  ASSUME NEW w, NEW accepted, NEW onOk, NEW onErr, Lookup(w, accepted, onOk, onErr)
  PROVE  docker' = docker
  BY DEF Lookup, Answered, Rejected, Refused

DockerChange ==
  \/ docker' = docker
  \/ \E i \in Id : Exists(i) /\ docker' = AfterStart(i)
  \/ \E i \in Id : Exists(i) /\ docker' = AfterStop(i)
  \/ \E i \in Id : Exists(i) /\ docker' = AfterRemove(i)
  \/ \E i \in Id, n \in Nat : CanRename(i, n) /\ docker' = AfterRename(i, n)
  \/ \E i \in Id, n \in Nat, m \in Nat :
       /\ docker[i].status = "unborn" /\ Named(n) = {}
       /\ docker' = [docker EXCEPT ![i] = [status |-> "created", name |-> n, image |-> m]]

LEMMA DockerChanges ==
  ASSUME TypeOK, [Next]_vars
  PROVE  DockerChange
  <1> USE DEF daemon, fixed, locals, history
  <1>1. ASSUME NEW w \in Worker, NEW i \in Id, BeginRecreate(w, i) \/ \E v \in Verbs : BeginAction(w, i, v)
        PROVE  DockerChange
        BY <1>1 DEF BeginRecreate, BeginAction, DockerChange
  <1>2. ASSUME NEW w \in Worker, GetContainer(w) \/ Inspect(w) \/ Pull(w) \/ FindStale(w)
        PROVE  DockerChange
    <2>1. docker' = docker
          BY <1>2, LookupDocker DEF GetContainer, Inspect, Pull, FindStale
    <2> QED BY <2>1 DEF DockerChange
  <1>3. ASSUME NEW w \in Worker,
               Act(w) \/ StopOld(w) \/ RestartOld(w) \/ RemoveBackup(w) \/ RemoveStale(w) \/ StartOld(w)
        PROVE  DockerChange
    <2>1. cid[w] \in Id /\ stale[w] \in Id BY DEF TypeOK
    <2>2. CASE Act(w)
      <3>1. \/ docker' = docker
            \/ Exists(cid[w]) /\ docker' = IF verb[w] = "stop" THEN AfterStop(cid[w])
                                                               ELSE AfterStart(cid[w])
            BY <2>2 DEF Act, Call, Answered, Rejected, Refused, AnswerLost
      <3> QED BY <2>1, <3>1 DEF DockerChange
    <2>3. CASE StopOld(w)
      <3>1. docker' = docker \/ (Exists(cid[w]) /\ docker' = AfterStop(cid[w]))
            BY <2>3 DEF StopOld, Call, Answered, Rejected, Refused, AnswerLost
      <3> QED BY <2>1, <3>1 DEF DockerChange
    <2>4. CASE RestartOld(w) \/ StartOld(w)
      <3>1. docker' = docker \/ (Exists(cid[w]) /\ docker' = AfterStart(cid[w]))
            BY <2>4 DEF RestartOld, StartOld, Call, Answered, Rejected, Refused, AnswerLost
      <3> QED BY <2>1, <3>1 DEF DockerChange
    <2>5. CASE RemoveBackup(w)
      <3>1. docker' = docker \/ (Exists(cid[w]) /\ docker' = AfterRemove(cid[w]))
            BY <2>5 DEF RemoveBackup, Call, Answered, Rejected, Refused, AnswerLost
      <3> QED BY <2>1, <3>1 DEF DockerChange
    <2>6. CASE RemoveStale(w)
      <3>1. docker' = docker \/ (Exists(stale[w]) /\ docker' = AfterRemove(stale[w]))
            BY <2>6 DEF RemoveStale, Call, Answered, Rejected, Refused, AnswerLost
      <3> QED BY <2>1, <3>1 DEF DockerChange
    <2> QED BY <1>3, <2>2, <2>3, <2>4, <2>5, <2>6
  <1>4. ASSUME NEW w \in Worker, RenameOld(w) \/ RenameBack(w)
        PROVE  DockerChange
    <2>1. cid[w] \in Id /\ nm[w] \in Nat /\ BackupOf(nm[w]) \in Nat BY Backups DEF TypeOK
    <2>2. PICK n \in Nat : docker' = docker \/ (CanRename(cid[w], n) /\ docker' = AfterRename(cid[w], n))
          BY <1>4, <2>1 DEF RenameOld, RenameBack, Call, Answered, Rejected, Refused, AnswerLost
    <2> QED BY <2>1, <2>2 DEF DockerChange
  <1>5. ASSUME NEW w \in Worker, CreateNew(w)
        PROVE  DockerChange
    <2>1. nm[w] \in Nat /\ pulled[w] \in Nat BY DEF TypeOK
    <2>2. PICK i \in Id :
            /\ docker[i].status = "unborn"
            /\ \/ docker' = docker
               \/ /\ Named(nm[w]) = {}
                  /\ docker' = [docker EXCEPT ![i] = [status |-> "created", name |-> nm[w],
                                                      image |-> pulled[w]]]
          BY <1>5 DEF CreateNew, Call, Answered, Rejected, Refused, AnswerLost
    <2> QED BY <2>1, <2>2 DEF DockerChange
  <1>6. ASSUME NEW w \in Worker, StartNew(w)
        PROVE  DockerChange
    <2>1. repl[w] \in SUBSET Id BY DEF TypeOK
    <2>2. PICK i \in Id : docker' = docker \/ (Exists(i) /\ docker' = AfterStart(i))
          BY <1>6, <2>1 DEF StartNew, Call, Answered, Rejected, Refused, AnswerLost
    <2> QED BY <2>2 DEF DockerChange
  <1>7. ASSUME NEW i \in Id, Reap(i) \/ Exit(i)
        PROVE  DockerChange
    <2>1. Exists(i) BY <1>7 DEF Reap, Exit, Exists
    <2> QED BY <1>7, <2>1 DEF Reap, Exit, DockerChange
  <1>8. ASSUME NEW w \in Worker, Return(w)
        PROVE  DockerChange
        BY <1>8 DEF Return, DockerChange
  <1>9. CASE GatewayRestart BY <1>9 DEF GatewayRestart, DockerChange
  <1>10. CASE UNCHANGED vars BY <1>10 DEF vars, DockerChange
  <1> QED BY <1>1, <1>2, <1>3, <1>4, <1>5, <1>6, <1>7, <1>8, <1>9, <1>10 DEF Next

LEMMA NamesStep ==
  ASSUME TypeOK, NamesUnique, DockerChange
  PROVE  NamesUnique'
  <1>1. docker \in Containers BY DEF TypeOK, Containers
  <1> USE DEF NamesUnique, Named, Exists, Containers
  <1>2. CASE docker' = docker BY <1>2
  <1>3. ASSUME NEW i \in Id, Exists(i), docker' = AfterStart(i)
        PROVE  NamesUnique'
        BY <1>1, <1>3 DEF AfterStart
  <1>4. ASSUME NEW i \in Id, Exists(i), docker' = AfterStop(i)
        PROVE  NamesUnique'
        BY <1>1, <1>4 DEF AfterStop
  <1>5. ASSUME NEW i \in Id, Exists(i), docker' = AfterRemove(i)
        PROVE  NamesUnique'
        BY <1>1, <1>5 DEF AfterRemove
  <1>6. ASSUME NEW i \in Id, NEW n \in Nat, CanRename(i, n), docker' = AfterRename(i, n)
        PROVE  NamesUnique'
        BY <1>1, <1>6 DEF AfterRename, CanRename
  <1>7. ASSUME NEW i \in Id, NEW n \in Nat, NEW m \in Nat,
               docker[i].status = "unborn", Named(n) = {},
               docker' = [docker EXCEPT ![i] = [status |-> "created", name |-> n, image |-> m]]
        PROVE  NamesUnique'
        BY <1>1, <1>7
  <1> QED BY <1>2, <1>3, <1>4, <1>5, <1>6, <1>7 DEF DockerChange

LEMMA BornStays ==
  ASSUME TypeOK, DockerChange, NEW j \in Id, docker[j].status # "unborn"
  PROVE  docker'[j].status # "unborn"
  <1>1. docker \in Containers BY DEF TypeOK, Containers
  <1> QED BY <1>1 DEF DockerChange, Containers, AfterStart, AfterStop, AfterRemove, AfterRename

LEMMA AdvanceFrame ==
  ASSUME TypeOK, NEW w \in Worker, Advance(w)
  PROVE  /\ pc[w] \in Recreating /\ pc'[w] \in Recreating
         /\ calm' = calm /\ cid' = cid
         /\ \A u \in Others(w) : /\ pc'[u] = pc[u] /\ repl'[u] = repl[u]
                                 /\ refused'[u] = refused[u] /\ lost'[u] = lost[u]
  <1> USE DEF fixed, locals, Recreating
  <1> DEFINE Framed == /\ pc[w] \in Recreating /\ pc'[w] \in Recreating
                       /\ \A u \in Others(w) : /\ pc'[u] = pc[u]
                                               /\ refused'[u] = refused[u] /\ lost'[u] = lost[u]
  <1>0. pc \in [Worker -> Steps] /\ repl \in [Worker -> SUBSET Id] BY DEF TypeOK
  <1>1. ASSUME NEW accepted \in BOOLEAN, NEW after, NEW onOk \in Recreating,
               NEW onErr \in Recreating, pc[w] \in Recreating,
               Call(w, accepted, after, onOk, onErr)
        PROVE  Framed
    <2>1. pc' = [pc EXCEPT ![w] = pc'[w]] /\ pc'[w] \in {onOk, onErr}
          /\ \A u \in Others(w) : refused'[u] = refused[u] /\ lost'[u] = lost[u]
          BY <1>1, CallCases
    <2>2. \A u \in Others(w) : pc'[u] = pc[u] BY <1>0, <2>1 DEF Others
    <2>3. pc'[w] \in Recreating BY <1>1, <2>1
    <2> QED BY <1>1, <2>1, <2>2, <2>3
  <1>2. ASSUME NEW accepted \in BOOLEAN, NEW onOk \in Recreating,
               NEW onErr \in Recreating, pc[w] \in Recreating,
               Lookup(w, accepted, onOk, onErr)
        PROVE  Framed
    <2>1. pc' = [pc EXCEPT ![w] = pc'[w]] /\ pc'[w] \in {onOk, onErr}
          /\ \A u \in Others(w) : refused'[u] = refused[u] /\ lost'[u] = lost[u]
          BY <1>2, LookupCases
    <2>2. \A u \in Others(w) : pc'[u] = pc[u] BY <1>0, <2>1 DEF Others
    <2>3. pc'[w] \in Recreating BY <1>2, <2>1
    <2> QED BY <1>2, <2>1, <2>2, <2>3
  <1> HIDE DEF Framed
  <1>3. Exists(cid[w]) \in BOOLEAN /\ Exists(stale[w]) \in BOOLEAN
        /\ CanRename(cid[w], BackupOf(nm[w])) \in BOOLEAN /\ CanRename(cid[w], nm[w]) \in BOOLEAN
        BY DEF Exists, CanRename
  <1>4. (Named(nm[w]) # {}) \in BOOLEAN OBVIOUS
  <1>5. CASE Inspect(w) BY <1>2, <1>3, <1>5 DEF Inspect, Framed
  <1>6. CASE Pull(w)
    <2>1. PICK onOk \in {"unchanged", "stop"} : Lookup(w, TRUE, onOk, "failed")
          BY <1>6 DEF Pull
    <2>2. Framed BY <1>2, <1>6, <2>1 DEF Pull
    <2> QED BY <1>6, <2>2 DEF Pull, Framed
  <1>7. CASE StopOld(w) BY <1>1, <1>3, <1>7 DEF StopOld, Framed
  <1>8. CASE RenameOld(w) BY <1>1, <1>3, <1>8 DEF RenameOld, Framed
  <1>9. CASE RestartOld(w) BY <1>1, <1>3, <1>9 DEF RestartOld, Framed
  <1>10. CASE CreateNew(w)
    <2> DEFINE free == Named(nm[w]) = {}
    <2>1. free \in BOOLEAN OBVIOUS
    <2> HIDE DEF free
    <2>2. PICK i \in Id :
            /\ Call(w, free, [docker EXCEPT ![i] = [status |-> "created", name |-> nm[w],
                                                    image |-> pulled[w]]],
                    "startNew", "findStale")
            /\ repl' = [repl EXCEPT ![w] = IF pc'[w] = "startNew" THEN {i} ELSE {}]
          BY <1>10 DEF CreateNew, free
    <2>3. Framed BY <1>1, <1>10, <2>1, <2>2 DEF CreateNew
    <2>4. \A u \in Others(w) : repl'[u] = repl[u] BY <1>0, <2>2 DEF Others
    <2>5. calm' = calm /\ cid' = cid BY <1>10 DEF CreateNew
    <2> QED BY <2>3, <2>4, <2>5 DEF Framed
  <1>11. CASE StartNew(w)
    <2>1. PICK i \in repl[w] : Call(w, Exists(i), AfterStart(i), "removeBackup", "findStale")
          BY <1>11 DEF StartNew
    <2>2. Exists(i) \in BOOLEAN BY DEF Exists
    <2>3. Framed BY <1>1, <1>11, <2>1, <2>2 DEF StartNew
    <2> QED BY <1>11, <2>3 DEF StartNew, Framed
  <1>12. CASE RemoveBackup(w) BY <1>1, <1>3, <1>12 DEF RemoveBackup, Framed
  <1>13. CASE FindStale(w)
    <2>1. Framed BY <1>2, <1>4, <1>13 DEF FindStale
    <2> QED BY <1>13, <2>1 DEF FindStale, Framed
  <1>14. CASE RemoveStale(w) BY <1>1, <1>3, <1>14 DEF RemoveStale, Framed
  <1>15. CASE RenameBack(w) BY <1>1, <1>3, <1>15 DEF RenameBack, Framed
  <1>16. CASE StartOld(w) BY <1>1, <1>3, <1>16 DEF StartOld, Framed
  <1> QED BY <1>5, <1>6, <1>7, <1>8, <1>9, <1>10, <1>11, <1>12, <1>13, <1>14, <1>15, <1>16
          DEF Advance

LEMMA LightFrame ==
  ASSUME TypeOK, NEW w \in Worker, GetContainer(w) \/ Act(w)
  PROVE  /\ pc[w] \in {"get", "act"} /\ pc' = [pc EXCEPT ![w] = pc'[w]]
         /\ pc'[w] \in {"act", "idle"}
         /\ repl' = repl /\ refused' = refused /\ lost' = lost /\ calm' = calm
  <1>1. pc \in [Worker -> Steps] BY DEF TypeOK
  <1>2. CASE GetContainer(w)
    <2>1. /\ pc[w] = "get" /\ Lookup(w, Exists(cid[w]), "act", "idle")
          /\ repl' = repl /\ calm' = calm
          BY <1>2 DEF GetContainer, EndAction
    <2> QED BY <1>1, <2>1 DEF Lookup, Answered, Rejected, Refused, Counted, Goto, Recreating
  <1>3. CASE Act(w)
    <2>1. /\ pc[w] = "act" /\ repl' = repl /\ calm' = calm
          /\ \E after : Call(w, Exists(cid[w]), after, "idle", "idle")
          BY <1>3 DEF Act, EndAction
    <2> QED BY <1>1, <2>1 DEF Call, Answered, Rejected, Refused, AnswerLost,
                              Counted, Goto, Recreating
  <1> QED BY <1>2, <1>3

LEMMA ForgetFresh ==
  ASSUME Fresh, NEW W \in SUBSET Worker, Forget(W)
  PROVE  Fresh'
  BY DEF Forget, Fresh, Recreating

LEMMA FreshStep ==
  ASSUME TypeOK, Fresh, [Next]_vars
  PROVE  Fresh'
  <1> USE DEF fixed, daemon, locals, history
  <1>0. pc \in [Worker -> Steps] BY DEF TypeOK
  <1>1. ASSUME NEW w \in Worker, NEW i \in Id, BeginRecreate(w, i) \/ \E v \in Verbs : BeginAction(w, i, v)
        PROVE  Fresh'
    <2>1. /\ pc[w] = "idle" /\ repl' = repl /\ refused' = refused /\ lost' = lost
          /\ \E l \in Steps : pc' = [pc EXCEPT ![w] = l]
          BY <1>1 DEF BeginRecreate, BeginAction, BeginRequest, Goto, Steps, Recreating
    <2> QED BY <1>0, <2>1 DEF Fresh, Recreating
  <1>2. ASSUME NEW w \in Worker, GetContainer(w) \/ Act(w)
        PROVE  Fresh'
        BY <1>0, <1>2, LightFrame DEF Fresh, Recreating
  <1>3. ASSUME NEW w \in Worker, Advance(w)
        PROVE  Fresh'
        BY <1>3, AdvanceFrame DEF Fresh, Others
  <1>4. ASSUME NEW w \in Worker, Return(w)
        PROVE  Fresh'
        BY <1>4, ForgetFresh DEF Return
  <1>5. ASSUME NEW i \in Id, Reap(i) \/ Exit(i)
        PROVE  Fresh'
        BY <1>5 DEF Reap, Exit, Fresh
  <1>6. CASE GatewayRestart BY <1>6, ForgetFresh DEF GatewayRestart
  <1>7. CASE UNCHANGED vars BY <1>7 DEF vars, Fresh
  <1> QED BY <1>1, <1>2, <1>3, <1>4, <1>5, <1>6, <1>7 DEF Next, Advance

\* A calm request has just begun, or was calm before: then the step is its
\* own, the daemon's reaping, or nothing.
LEMMA CalmSteps ==
  ASSUME TypeOK, Alone, [Next]_vars, NEW w \in Worker, calm'[w]
  PROVE  \/ \E i \in Id : BeginRecreate(w, i)
         \/ calm[w] /\ Advance(w)
         \/ calm[w] /\ \E i \in Id : Reap(i)
         \/ calm[w] /\ UNCHANGED vars
  <1> USE DEF fixed, daemon, locals, history
  <1>0. calm \in [Worker -> BOOLEAN] BY DEF TypeOK
  <1>1. ASSUME NEW u \in Worker, NEW i \in Id, BeginRecreate(u, i)
        PROVE  BeginRecreate(w, i)
        BY <1>1 DEF BeginRecreate
  <1>2. ASSUME NEW u \in Worker, NEW i \in Id, NEW v \in Verbs, BeginAction(u, i, v)
        PROVE  FALSE
        BY <1>2 DEF BeginAction
  <1>3. ASSUME NEW u \in Worker, GetContainer(u) \/ Act(u)
        PROVE  FALSE
    <2>1. calm[w] /\ pc[u] \in {"get", "act"} BY <1>3, LightFrame
    <2> QED BY <2>1 DEF Alone, Others, Recreating
  <1>4. ASSUME NEW u \in Worker, Advance(u)
        PROVE  calm[w] /\ Advance(w)
    <2>1. calm[w] /\ pc[u] \in Recreating BY <1>4, AdvanceFrame
    <2>2. u = w BY <2>1 DEF Alone, Others, Recreating
    <2> QED BY <1>4, <2>1, <2>2
  <1>5. ASSUME NEW u \in Worker, Return(u)
        PROVE  FALSE
    <2>1. calm[w] /\ u # w BY <1>5 DEF Return, Forget
    <2> QED BY <1>5, <2>1 DEF Return, Alone, Others
  <1>6. ASSUME NEW i \in Id, Reap(i) PROVE calm[w] BY <1>6 DEF Reap
  <1>7. ASSUME NEW i \in Id, Exit(i) PROVE FALSE BY <1>7 DEF Exit
  <1>8. CASE GatewayRestart BY <1>8 DEF GatewayRestart, Forget
  <1>9. CASE UNCHANGED vars BY <1>9 DEF vars
  <1> QED BY <1>1, <1>2, <1>3, <1>4, <1>5, <1>6, <1>7, <1>8, <1>9 DEF Next, Advance

LEMMA AloneStep ==
  ASSUME CalmInv, DockerChange, [Next]_vars
  PROVE  Alone'
  <1> SUFFICES ASSUME NEW w \in Worker, calm'[w]
               PROVE  /\ pc'[w] \in Recreating
                      /\ \A u \in Others(w) : pc'[u] = "idle"
                      /\ docker'[cid'[w]].status # "unborn"
      BY DEF Alone, Others
  <1>0. pc \in [Worker -> Steps] /\ cid \in [Worker -> Id] BY DEF CalmInv, TypeOK
  <1>1. ASSUME NEW i \in Id, BeginRecreate(w, i)
        PROVE  /\ pc'[w] \in Recreating
               /\ \A u \in Others(w) : pc'[u] = "idle"
               /\ docker'[cid'[w]].status # "unborn"
        BY <1>0, <1>1 DEF BeginRecreate, BeginRequest, Goto, Recreating, Others, Exists, daemon
  <1>2. ASSUME calm[w]
        PROVE  docker'[cid[w]].status # "unborn"
        BY <1>0, <1>2, BornStays DEF CalmInv, Alone
  <1>3. CASE calm[w] /\ Advance(w)
        BY <1>2, <1>3, AdvanceFrame DEF CalmInv, Alone
  <1>4. CASE calm[w] /\ \E i \in Id : Reap(i)
        BY <1>2, <1>4 DEF Reap, CalmInv, Alone, locals
  <1>5. CASE calm[w] /\ UNCHANGED vars
        BY <1>2, <1>5 DEF vars, CalmInv, Alone
  <1> QED BY <1>1, <1>3, <1>4, <1>5, CalmSteps DEF CalmInv

LEMMA KnownStep ==
  ASSUME CalmInv, [Next]_vars, NEW w \in Worker, calm'[w]
  PROVE  Known(w)'
  <1>1. CASE calm[w] /\ Advance(w)
        BY <1>1, InspectStep, PullStep, StopOldStep, RenameOldStep, RestartOldStep,
           CreateNewStep, StartNewStep, RemoveBackupStep, FindStaleStep, RemoveStaleStep,
           RenameBackStep, StartOldStep DEF Advance
  <1>2. CASE calm[w] /\ UNCHANGED vars
        BY <1>2 DEF vars, CalmInv, Known, OneRuns, OriginalKept, ReplacementMade,
                    RollbackReady, Running, Named, Exists
  <1> QED BY <1>1, <1>2, CalmSteps, BeginStep, ReapStep DEF CalmInv

LEMMA CalmInit ==
  ASSUME Init
  PROVE  CalmInv
  <1>1. TypeOK BY TypeInit
  <1>2. NamesUnique BY DEF Init, NamesUnique, Exists
  <1>3. Fresh BY DEF Init, Fresh
  <1>4. \A w \in Worker : ~calm[w] BY DEF Init
  <1> QED BY <1>1, <1>2, <1>3, <1>4 DEF CalmInv, Alone

LEMMA CalmStep ==
  ASSUME CalmInv, [Next]_vars
  PROVE  CalmInv'
  <1>1. TypeOK' BY TypeStep DEF CalmInv
  <1>2. DockerChange BY DockerChanges DEF CalmInv
  <1>3. NamesUnique' BY <1>2, NamesStep DEF CalmInv
  <1>4. Fresh' BY FreshStep DEF CalmInv
  <1>5. Alone' BY <1>2, AloneStep
  <1>6. \A w \in Worker : calm'[w] => Known(w)' BY KnownStep
  <1> QED BY <1>1, <1>3, <1>4, <1>5, <1>6 DEF CalmInv

\* Of every request that nobody disturbs, what is known at its step of the
\* code holds, and the names of the daemon's containers are unique (478-562).
THEOREM CalmInvariant == Spec => []CalmInv
  <1>1. Init => CalmInv BY CalmInit
  <1>2. CalmInv /\ [Next]_vars => CalmInv' BY CalmStep
  <1> QED BY <1>1, <1>2, PTL DEF Spec

-----------------------------------------------------------------------------
(* What follows from it.                                                   *)

LEMMA AtMostOne ==
  ASSUME NEW i, NEW S, S \subseteq {i}
  PROVE  Cardinality(S) <= 1
  <1>1. IsFiniteSet({i}) /\ Cardinality({i}) = 1 BY FS_Singleton
  <1>2. Cardinality(S) <= Cardinality({i}) BY <1>1, FS_Subset
  <1> QED BY <1>1, <1>2

\* While one undisturbed pull_recreate is at work, never two containers run,
\* whatever calls fail and whatever becomes of their answers (541-544).
THEOREM OneAtATime == Spec => []OneInstance
  <1>1. CalmInv => OneInstance
    <2> SUFFICES ASSUME CalmInv, NEW w \in Worker, pc[w] \in Recreating, calm[w]
                 PROVE  Cardinality(Running) <= 1
        BY DEF OneInstance
    <2>1. OneRuns(w) /\ cid[w] \in Id /\ stale[w] \in Id BY DEF CalmInv, Known, TypeOK
    <2>2. \A i, j \in Named(nm[w]) : i = j BY DEF CalmInv, NamesUnique, Named
    <2>3. \E i \in Id : Running \subseteq {i}
      <3>1. CASE pc[w] \in {"findStale", "removeStale", "renameBack"}
        <4>1. Running \subseteq Named(nm[w]) BY <2>1, <3>1 DEF OneRuns
        <4>2. CASE Named(nm[w]) = {} BY <2>1, <4>1, <4>2
        <4>3. CASE Named(nm[w]) # {} BY <2>2, <4>1, <4>3 DEF Named
        <4> QED BY <4>2, <4>3
      <3>2. CASE pc[w] \notin {"findStale", "removeStale", "renameBack"}
            BY <2>1, <3>2 DEF OneRuns, Recreating
      <3> QED BY <3>1, <3>2
    <2> QED BY <2>3, AtMostOne
  <1> QED BY <1>1, CalmInvariant, PTL

\* Until the replacement has started, the original of an undisturbed update
\* is there under its own name or the backup's (545-551).
THEOREM OriginalStays == Spec => []OriginalRecoverable
  <1>1. CalmInv => OriginalRecoverable
        BY DEF CalmInv, Known, OriginalKept, OriginalRecoverable, Recreating
  <1> QED BY <1>1, CalmInvariant, PTL

\* An undisturbed rollback after a single refused call leaves the original
\* running under its name and nothing of the replacement (527-552).
THEOREM RollbackWorks == Spec => []RollbackRestores
  <1>1. CalmInv => RollbackRestores
        BY DEF CalmInv, Known, RollbackReady, RollbackRestores
  <1> QED BY <1>1, CalmInvariant, PTL

\* "updated" is answered only for a replacement that runs the pulled image
\* under the original's name (553-562).
THEOREM UpdateHappened == Spec => []UpdateIsReal
  <1>1. CalmInv => UpdateIsReal
        BY DEF CalmInv, Known, ReplacementMade, UpdateIsReal
  <1> QED BY <1>1, CalmInvariant, PTL

-----------------------------------------------------------------------------
(* Two updates that may overlap, and one copy that survives them.  A       *)
(* request of pull_recreate is ahead of its rename, past it while it can   *)
(* still rename or remove, and done with both afterwards.  Two that are    *)
(* past it work on one container, and have found it under different names. *)

Early == {"inspect", "pull", "stop", "rename"}
Past  == {"create", "startNew", "findStale", "removeStale", "renameBack", "removeBackup"}

\* No more updates are at work than have begun.
NoneAtWork == \A w \in Worker : pc[w] \notin Recreating
OneAtWork  == \A u, v \in Worker : pc[u] \in Recreating /\ pc[v] \in Recreating => u = v
TwoAtWork  ==
  \A u, v, x \in Worker :
    {pc[u], pc[v], pc[x]} \subseteq Recreating => u = v \/ u = x \/ v = x

AtWork ==
  /\ requests = 0 => NoneAtWork
  /\ requests = 1 => OneAtWork
  /\ requests = 2 => TwoAtWork

SomeCopy  == \E i \in Id : Exists(i)
Untouched == \A i \in Id : Exists(i) => i = First /\ docker[i].name = 0

\* Something that request w will neither rename nor remove by what it does next.
Spared(w) ==
  /\ pc[w] \in {"create", "startNew", "findStale"} =>
       \E i \in Id : Exists(i) /\ docker[i].name # nm[w]
  /\ pc[w] = "removeStale" =>
       /\ \E i \in Id : Exists(i) /\ i # stale[w]
       /\ Exists(stale[w]) => docker[stale[w]].name = nm[w]
       /\ docker[stale[w]].status # "unborn"
  /\ pc[w] \in {"startNew", "removeBackup"} =>
       \E i \in Id : Exists(i) /\ i # cid[w] /\ docker[i].name = nm[w]

\* No update but w has got as far as its rename.
Leads(w) == requests = 1 \/ \E v \in Others(w) : pc[v] \in Early

\* What such an update finds, and leaves.
Unopposed(w) ==
  /\ pc[w] \in Early =>
       /\ Untouched /\ cid[w] = First
       /\ pc[w] # "inspect" => nm[w] = 0
  /\ pc[w] \in Past =>
       /\ nm[w] = 0 /\ Exists(cid[w]) /\ docker[cid[w]].name = BackupOf(0)
       /\ \A i \in Id : Exists(i) /\ i # cid[w] => docker[i].name = 0

\* An update of another one's replacement finds the name they share.
Follows(v, u) ==
  pc[v] \in Early \ {"inspect"} /\ pc[u] \in Past /\ cid[v] # cid[u] => nm[v] = nm[u]

\* Two updates past their renames.
Apart(u, v) ==
  pc[u] \in Past /\ pc[v] \in Past =>
    /\ cid[u] = cid[v] /\ nm[u] # nm[v]
    /\ Exists(cid[u]) /\ docker[cid[u]].name \notin {nm[u], nm[v]}

Alongside ==
  /\ SomeCopy
  /\ requests = 0 => Untouched
  /\ \A w \in Worker :
       pc[w] \in Recreating =>
         /\ docker[cid[w]].status # "unborn"
         /\ Spared(w)
         /\ Leads(w) => Unopposed(w)
         /\ \A v \in Others(w) : Follows(v, w) /\ Apart(v, w)

CopiesInv == TypeOK /\ AtWork /\ (~rm /\ requests <= 2 => Alongside)

\* The containers that are there and their names, as far as i is concerned.
Same(i) ==
  /\ (Exists(i)') <=> Exists(i)
  /\ docker'[i].name = docker[i].name
  /\ docker'[i].status = "unborn" <=> docker[i].status = "unborn"

LEMMA StartsAndStops ==
  ASSUME TypeOK, NEW i \in Id,
         docker' = docker \/ docker' = AfterStop(i) \/ (Exists(i) /\ docker' = AfterStart(i)),
         NEW j \in Id
  PROVE  Same(j)
  <1>1. docker \in Containers BY DEF TypeOK, Containers
  <1> QED BY <1>1 DEF Same, Exists, AfterStop, AfterStart, Containers

\* The moves of a request that leave the containers and their names alone.
Moves(x) ==
  pc'[x] \in Recreating =>
    /\ pc[x] \in Recreating /\ cid'[x] = cid[x]
    /\ pc'[x] \in Past => pc[x] \in Past
    /\ pc'[x] \in Early => pc[x] \in Early
    /\ pc[x] # "inspect" => nm'[x] = nm[x] /\ pc'[x] # "inspect"
    /\ pc[x] = "inspect" =>
         \/ pc'[x] \notin Early
         \/ pc'[x] = "inspect" /\ nm'[x] = nm[x]
         \/ Exists(cid[x]) /\ nm'[x] = docker[cid[x]].name
    /\ Spared(x)'

LEMMA SparedStays ==
  ASSUME TypeOK, \A i \in Id : Same(i), NEW x \in Worker, Spared(x),
         pc'[x] = pc[x], cid'[x] = cid[x], nm'[x] = nm[x], stale'[x] = stale[x]
  PROVE  Spared(x)'
  <1>1. stale[x] \in Id BY DEF TypeOK
  <1> QED BY <1>1 DEF Spared, Same

LEMMA MovesKeep ==
  ASSUME TypeOK, Alongside, \A i \in Id : Same(i), \A x \in Worker : Moves(x),
         requests' = requests
  PROVE  Alongside'
  <1>0. cid \in [Worker -> Id] BY DEF TypeOK
  <1>1. SomeCopy' BY DEF Alongside, SomeCopy, Same
  <1>2. requests' = 0 => Untouched' BY DEF Alongside, Untouched, Same
  <1> SUFFICES ASSUME NEW w \in Worker, pc'[w] \in Recreating
               PROVE  /\ docker'[cid'[w]].status # "unborn"
                      /\ Spared(w)'
                      /\ Leads(w)' => Unopposed(w)'
                      /\ \A v \in Others(w) : Follows(v, w)' /\ Apart(v, w)'
      BY <1>1, <1>2 DEF Alongside, Others
  <1>3. pc[w] \in Recreating /\ cid'[w] = cid[w] /\ Spared(w)' /\ cid[w] \in Id
        BY <1>0 DEF Moves
  <1>4. docker'[cid'[w]].status # "unborn" BY <1>3 DEF Alongside, Same
  <1>5. ASSUME Leads(w)'
        PROVE  Unopposed(w)'
    <2>1. Leads(w) BY <1>5 DEF Leads, Moves, Others, Early, Recreating
    <2>2. Unopposed(w) BY <1>3, <2>1 DEF Alongside
    <2>3. ASSUME pc'[w] \in Early
          PROVE  Untouched' /\ cid'[w] = First /\ (pc'[w] # "inspect" => nm'[w] = 0)
          BY <1>3, <2>2, <2>3 DEF Unopposed, Untouched, Moves, Same
    <2>4. ASSUME pc'[w] \in Past
          PROVE  /\ nm'[w] = 0 /\ Exists(cid[w])' /\ docker'[cid[w]].name = BackupOf(0)
                 /\ \A i \in Id : Exists(i)' /\ i # cid[w] => docker'[i].name = 0
      <3>1. pc[w] \in Past /\ nm'[w] = nm[w] BY <1>3, <2>4 DEF Moves, Past
      <3> QED BY <1>3, <2>2, <3>1 DEF Unopposed, Same
    <2>5. cid'[w] = cid[w] BY <1>3
    <2> HIDE DEF Moves, Same
    <2> QED BY <2>3, <2>4, <2>5 DEF Unopposed, Exists
  <1>6. ASSUME NEW v \in Others(w)
        PROVE  Follows(v, w)' /\ Apart(v, w)'
    <2>0. v \in Worker /\ v # w BY DEF Others
    <2>1. Follows(v, w) /\ Apart(v, w) BY <1>3 DEF Alongside
    <2>2. Moves(v) /\ Moves(w) BY <2>0
    <2>3. ASSUME pc'[v] \in Early \ {"inspect"}, pc'[w] \in Past, cid'[v] # cid'[w]
          PROVE  nm'[v] = nm'[w]
      <3>1. pc[w] \in Past /\ nm'[w] = nm[w] BY <1>3, <2>2, <2>3 DEF Moves, Past
      <3>2. pc[v] \in Early /\ cid'[v] = cid[v] /\ cid[v] # cid[w]
            BY <1>3, <2>2, <2>3 DEF Moves, Early, Recreating
      <3>3. CASE pc[v] # "inspect" BY <2>1, <2>2, <2>3, <3>1, <3>2, <3>3 DEF Follows, Moves, Early, Recreating
      <3>4. CASE pc[v] = "inspect"
        <4>1. Exists(cid[v]) /\ nm'[v] = docker[cid[v]].name
              BY <2>2, <2>3, <3>4 DEF Moves, Early, Recreating
        <4>2. Leads(w) BY <2>0, <3>2 DEF Leads, Others
        <4>3. Unopposed(w) BY <1>3, <4>2 DEF Alongside
        <4> QED BY <1>0, <2>0, <3>1, <3>2, <4>1, <4>3 DEF Unopposed
      <3> QED BY <3>3, <3>4
    <2>4. ASSUME pc'[v] \in Past, pc'[w] \in Past
          PROVE  Apart(v, w)'
      <3>1. /\ pc[w] \in Past /\ nm'[w] = nm[w] /\ cid'[w] = cid[w]
            /\ pc[v] \in Past /\ nm'[v] = nm[v] /\ cid'[v] = cid[v] /\ cid[v] \in Id
            BY <1>0, <2>0, <2>2, <2>4 DEF Moves, Past, Recreating
      <3> QED BY <2>1, <3>1 DEF Apart, Same
    <2>5. Apart(v, w)' BY <2>4 DEF Apart
    <2>6. Follows(v, w)' BY <2>3 DEF Follows
    <2> QED BY <2>5, <2>6
  <1> QED BY <1>3, <1>4, <1>5, <1>6

-----------------------------------------------------------------------------
(* A step of an update that changes the containers or their names: what    *)
(* remains to show of each is listed in ActorKeeps.                        *)

\* Nobody else's request moves.
ActsAlone(w) ==
  /\ requests' = requests /\ cid' = cid /\ nm' = nm /\ stale' = stale
  /\ \A v \in Others(w) : pc'[v] = pc[v]

LEMMA PairAtWork ==
  ASSUME AtWork, requests \in Nat, requests <= 2, NEW w \in Worker, NEW x \in Others(w),
         pc[w] \in Recreating, pc[x] \in Recreating
  PROVE  /\ requests = 2
         /\ \A v \in Worker : pc[v] \in Recreating => v \in {w, x}
  <1>1. x \in Worker /\ x # w BY DEF Others
  <1>2. requests = 0 \/ requests = 1 \/ requests = 2 OBVIOUS
  <1>3. requests = 2 BY <1>1, <1>2 DEF AtWork, NoneAtWork, OneAtWork
  <1> QED BY <1>1, <1>3 DEF AtWork, TwoAtWork

LEMMA ActorKeeps ==
  ASSUME TypeOK, AtWork, Alongside, requests <= 2,
         NEW w \in Worker, pc[w] \in Recreating, pc'[w] \in Recreating \ Early, ActsAlone(w),
         SomeCopy',
         \A i \in Id : docker[i].status # "unborn" => docker'[i].status # "unborn",
         Spared(w)', Leads(w) => Unopposed(w)',
         \A x \in Others(w) : /\ pc[x] \in Past => Spared(x)'
                              /\ Follows(x, w)' /\ Apart(x, w)'
  PROVE  Alongside'
  <1>0. cid \in [Worker -> Id] /\ requests \in Nat BY DEF TypeOK
  <1>1. requests # 0 BY DEF AtWork, NoneAtWork
  <1>2. docker'[cid'[w]].status # "unborn" BY <1>0 DEF Alongside, ActsAlone
  <1>3. Leads(w)' => Leads(w) BY DEF Leads, ActsAlone
  <1>4. ASSUME NEW x \in Others(w), pc'[x] \in Recreating
        PROVE  /\ docker'[cid'[x]].status # "unborn"
               /\ Spared(x)'
               /\ ~Leads(x)'
               /\ \A v \in Others(x) : Follows(v, x)' /\ Apart(v, x)'
    <2>0. x \in Worker /\ x # w BY DEF Others
    <2>1. pc[x] \in Recreating BY <1>4 DEF ActsAlone
    <2>2. requests = 2 /\ \A v \in Worker : pc[v] \in Recreating => v \in {w, x}
          BY <1>0, <2>1, PairAtWork
    <2>3. docker'[cid'[x]].status # "unborn" BY <1>0, <2>0, <2>1 DEF Alongside, ActsAlone
    <2>4. Spared(x)'
      <3>1. CASE pc[x] \in Past BY <3>1
      <3>2. CASE pc[x] \notin Past BY <3>2 DEF Spared, ActsAlone, Past
      <3> QED BY <3>1, <3>2
    <2>5. \A v \in Others(x) : v # w => pc'[v] \notin Recreating
          BY <2>2 DEF Others, ActsAlone
    <2>6. ~Leads(x)'
          BY <2>2, <2>5 DEF Leads, ActsAlone, Others, Early, Recreating
    <2>7. ASSUME NEW v \in Others(x)
          PROVE  Follows(v, x)' /\ Apart(v, x)'
      <3>1. CASE v # w
            BY <2>5, <3>1 DEF Follows, Apart, Early, Past, Recreating
      <3>2. CASE v = w
            BY <3>2 DEF Follows, Apart
      <3> QED BY <3>1, <3>2
    <2> QED BY <2>3, <2>4, <2>6, <2>7
  <1>5. \A x \in Worker : x = w \/ x \in Others(w) BY DEF Others
  <1> QED BY <1>1, <1>2, <1>3, <1>4, <1>5 DEF Alongside, ActsAlone

-----------------------------------------------------------------------------
(* Renaming, removing and creating, as the names see them.                 *)

LEMMA Renamed ==
  ASSUME TypeOK, NEW c \in Id, NEW n \in Nat, docker' = AfterRename(c, n), NEW i \in Id
  PROVE  /\ Exists(i)' <=> Exists(i)
         /\ docker'[i].name = IF i = c THEN n ELSE docker[i].name
         /\ docker'[i].status = docker[i].status
  <1>1. docker \in Containers BY DEF TypeOK, Containers
  <1> QED BY <1>1 DEF AfterRename, Containers, Exists

LEMMA Removed ==
  ASSUME TypeOK, NEW c \in Id, docker' = AfterRemove(c), NEW i \in Id
  PROVE  /\ Exists(i)' <=> Exists(i) /\ i # c
         /\ i # c => docker'[i] = docker[i]
         /\ docker[i].status # "unborn" => docker'[i].status # "unborn"
  <1>1. docker \in Containers BY DEF TypeOK, Containers
  <1> QED BY <1>1 DEF AfterRemove, Containers, Exists

LEMMA Created ==
  ASSUME TypeOK, NEW c \in Id, NEW n \in Nat, NEW m \in Nat, docker[c].status = "unborn",
         docker' = [docker EXCEPT ![c] = [status |-> "created", name |-> n, image |-> m]],
         NEW i \in Id
  PROVE  /\ Exists(i)' <=> Exists(i) \/ i = c
         /\ docker'[c].name = n
         /\ i # c => docker'[i] = docker[i]
         /\ docker[i].status # "unborn" => docker'[i].status # "unborn"
         /\ Exists(i) => i # c
  <1>1. docker \in Containers BY DEF TypeOK, Containers
  <1> QED BY <1>1 DEF Containers, Exists

\* The second of two updates renames: the first has found the container's own
\* name, the second the backup's.
LEMMA RenameOldKeeps ==
  ASSUME TypeOK, AtWork, Alongside, requests <= 2, NEW w \in Worker, pc[w] = "rename",
         ActsAlone(w), CanRename(cid[w], BackupOf(nm[w])),
         docker' = AfterRename(cid[w], BackupOf(nm[w])), pc'[w] \in {"create", "restartOld"}
  PROVE  Alongside'
  <1>0. /\ cid \in [Worker -> Id] /\ nm \in [Worker -> Nat] /\ stale \in [Worker -> Id]
        /\ nm[w] \in Nat /\ BackupOf(nm[w]) \in Nat /\ BackupOf(nm[w]) # nm[w]
        BY Backups DEF TypeOK
  <1>1. pc[w] \in Recreating /\ pc[w] \in Early BY DEF Recreating, Early
  <1>2. pc'[w] \in Recreating \ Early BY DEF Recreating, Early
  <1>3. /\ Exists(cid[w]) /\ \A i \in Id : Exists(i) => docker[i].name # BackupOf(nm[w])
        BY DEF CanRename, Named
  <1>4. \A i \in Id : /\ Exists(i)' <=> Exists(i)
                      /\ docker'[i].name = IF i = cid[w] THEN BackupOf(nm[w]) ELSE docker[i].name
                      /\ docker'[i].status = docker[i].status
        BY <1>0, Renamed
  <1>5. SomeCopy' BY <1>4 DEF SomeCopy, Alongside
  <1>6. Spared(w)' BY <1>0, <1>3, <1>4 DEF Spared, ActsAlone
  <1>7. ASSUME Leads(w)
        PROVE  Unopposed(w)'
    <2>1. Untouched /\ cid[w] = First /\ nm[w] = 0
          BY <1>1, <1>7 DEF Alongside, Unopposed
    <2>2. pc'[w] \notin Early BY <1>2
    <2>3. /\ nm'[w] = 0 /\ cid'[w] = cid[w] /\ Exists(cid[w])'
          /\ docker'[cid[w]].name = BackupOf(0)
          /\ \A i \in Id : Exists(i)' /\ i # cid[w] => docker'[i].name = 0
          BY <1>0, <1>3, <1>4, <2>1 DEF Untouched, ActsAlone
    <2> QED BY <2>2, <2>3 DEF Unopposed, Exists
  \* An update past its rename is of the same container, found under its own name.
  <1>8. ASSUME NEW x \in Others(w), pc[x] \in Past
        PROVE  /\ nm[x] = 0 /\ cid[x] = cid[w] /\ nm[w] # 0
    <2>1. x \in Worker /\ pc[x] \in Recreating /\ w \in Others(x)
          BY <1>8 DEF Others, Past, Recreating
    <2>2. Leads(x) BY <1>1, <2>1 DEF Leads
    <2>3. /\ nm[x] = 0 /\ Exists(cid[x]) /\ docker[cid[x]].name = BackupOf(0)
          BY <1>8, <2>1, <2>2 DEF Alongside, Unopposed
    <2>4. nm[w] # 0 BY <1>0, <1>3, <2>1, <2>3
    <2>5. Follows(w, x) BY <2>1 DEF Alongside
    <2> QED BY <1>1, <1>8, <2>3, <2>4, <2>5 DEF Follows
  <1>9. ASSUME NEW x \in Others(w)
        PROVE  /\ pc[x] \in Past => Spared(x)'
               /\ Follows(x, w)' /\ Apart(x, w)'
    <2>0. x \in Worker /\ x # w /\ w \in Others(x) /\ pc'[x] = pc[x]
          BY <1>9 DEF Others, ActsAlone
    <2>1. ASSUME pc[x] \in Past
          PROVE  Spared(x)'
      <3>1. nm[x] = 0 /\ cid[x] = cid[w] /\ BackupOf(nm[w]) # 0 BY <1>8, <2>1, <1>0 DEF BackupOf
      <3>2. Spared(x) BY <2>0, <2>1 DEF Alongside, Past, Recreating
      <3>3. Leads(x) BY <1>1, <2>0 DEF Leads
      <3>4. docker[cid[x]].name = BackupOf(0)
            BY <2>0, <2>1, <3>3 DEF Alongside, Unopposed, Past, Recreating
      <3>5. BackupOf(0) # 0 BY DEF BackupOf
      <3>6. pc[x] = "removeStale" => /\ \E i \in Id : Exists(i)' /\ i # stale[x]
                                     /\ Exists(stale[x])' => docker'[stale[x]].name = nm[x]
                                     /\ docker'[stale[x]].status # "unborn"
            BY <1>0, <1>4, <2>0, <3>1, <3>2, <3>4, <3>5 DEF Spared, ActsAlone
      <3>7. \E i \in Id : Exists(i)' /\ docker'[i].name # nm[x]
            BY <1>0, <1>3, <1>4, <3>1
      <3>8. pc[x] \in {"startNew", "removeBackup"} =>
              \E i \in Id : Exists(i)' /\ i # cid[x] /\ docker'[i].name = nm[x]
            BY <1>4, <3>1, <3>2 DEF Spared
      <3>9. nm'[x] = nm[x] /\ cid'[x] = cid[x] /\ stale'[x] = stale[x] BY DEF ActsAlone
      <3> QED BY <2>0, <3>6, <3>7, <3>8, <3>9 DEF Spared, Exists
    <2>2. ASSUME pc[x] \in Early
          PROVE  cid[x] = cid[w]
      <3>1. Leads(w) /\ Leads(x) BY <1>1, <2>0, <2>2 DEF Leads
      <3> QED BY <1>1, <2>0, <2>2, <3>1 DEF Alongside, Unopposed, Early, Recreating
    <2>3. Follows(x, w)' BY <2>0, <2>2 DEF Follows, ActsAlone
    <2>4. ASSUME pc[x] \in Past
          PROVE  /\ cid[x] = cid[w] /\ nm[x] # nm[w] /\ Exists(cid[x])'
                 /\ docker'[cid[x]].name \notin {nm[x], nm[w]}
          BY <1>0, <1>3, <1>4, <1>8, <2>4 DEF BackupOf, ActsAlone
    <2>5. Apart(x, w)' BY <2>0, <2>4 DEF Apart, ActsAlone, Exists
    <2> QED BY <2>1, <2>3, <2>5
  <1>10. \A i \in Id : docker[i].status # "unborn" => docker'[i].status # "unborn" BY <1>4
  <1> QED BY <1>1, <1>2, <1>5, <1>6, <1>7, <1>9, <1>10, ActorKeeps

LEMMA RenameBackKeeps ==
  ASSUME TypeOK, AtWork, Alongside, requests <= 2, NEW w \in Worker, pc[w] = "renameBack",
         ActsAlone(w), CanRename(cid[w], nm[w]),
         docker' = AfterRename(cid[w], nm[w]), pc'[w] \in {"startOld", "failed"}
  PROVE  Alongside'
  <1>0. /\ cid \in [Worker -> Id] /\ nm \in [Worker -> Nat] /\ stale \in [Worker -> Id]
        BY DEF TypeOK
  <1>1. /\ pc[w] \in Recreating /\ pc[w] \in Past
        /\ pc'[w] \in Recreating /\ pc'[w] \notin Early /\ pc'[w] \notin Past
        BY DEF Recreating, Past, Early
  <1>2. \A i \in Id : /\ Exists(i)' <=> Exists(i)
                      /\ docker'[i].name = IF i = cid[w] THEN nm[w] ELSE docker[i].name
                      /\ docker'[i].status = docker[i].status
        BY <1>0, Renamed
  <1>3. SomeCopy' BY <1>2 DEF SomeCopy, Alongside
  <1>4. Spared(w)' BY DEF Spared
  <1>5. Unopposed(w)' BY <1>1 DEF Unopposed
  <1>6. ASSUME NEW x \in Others(w)
        PROVE  /\ pc[x] \in Past => Spared(x)'
               /\ Follows(x, w)' /\ Apart(x, w)'
    <2>0. x \in Worker /\ x # w /\ pc'[x] = pc[x] BY DEF Others, ActsAlone
    <2>1. Follows(x, w)' /\ Apart(x, w)' BY <1>1 DEF Follows, Apart
    <2>2. ASSUME pc[x] \in Past
          PROVE  Spared(x)'
      <3>1. Spared(x) /\ Apart(x, w) BY <1>1, <2>0, <2>2 DEF Alongside, Past, Recreating
      <3>2. /\ cid[x] = cid[w] /\ nm[x] # nm[w] /\ Exists(cid[x])
            /\ docker[cid[x]].name # nm[x]
            BY <1>1, <2>2, <3>1 DEF Apart
      <3>3. \E i \in Id : Exists(i)' /\ docker'[i].name # nm[x] BY <1>0, <1>2, <3>2
      <3>4. pc[x] = "removeStale" => /\ \E i \in Id : Exists(i)' /\ i # stale[x]
                                     /\ Exists(stale[x])' => docker'[stale[x]].name = nm[x]
                                     /\ docker'[stale[x]].status # "unborn"
            BY <1>0, <1>2, <2>0, <3>1, <3>2 DEF Spared, ActsAlone
      <3>5. pc[x] \in {"startNew", "removeBackup"} =>
              \E i \in Id : Exists(i)' /\ i # cid[x] /\ docker'[i].name = nm[x]
            BY <1>2, <3>1, <3>2 DEF Spared
      <3>6. nm'[x] = nm[x] /\ cid'[x] = cid[x] /\ stale'[x] = stale[x] BY DEF ActsAlone
      <3> QED BY <2>0, <3>3, <3>4, <3>5, <3>6 DEF Spared, Exists
    <2> QED BY <2>1, <2>2
  <1>7. \A i \in Id : docker[i].status # "unborn" => docker'[i].status # "unborn" BY <1>2
  <1> QED BY <1>1, <1>3, <1>4, <1>5, <1>6, <1>7, ActorKeeps

LEMMA CreateKeeps ==
  ASSUME TypeOK, AtWork, Alongside, requests <= 2, NEW w \in Worker, pc[w] = "create",
         ActsAlone(w), NEW n \in Id, docker[n].status = "unborn",
         docker' = [docker EXCEPT ![n] = [status |-> "created", name |-> nm[w],
                                          image |-> pulled[w]]],
         pc'[w] \in {"startNew", "findStale"}
  PROVE  Alongside'
  <1>0. /\ cid \in [Worker -> Id] /\ nm \in [Worker -> Nat] /\ stale \in [Worker -> Id]
        /\ nm[w] \in Nat /\ pulled[w] \in Nat
        BY DEF TypeOK
  <1>1. /\ pc[w] \in Recreating /\ pc[w] \in Past
        /\ pc'[w] \in Recreating /\ pc'[w] \notin Early /\ pc'[w] \in Past
        BY DEF Recreating, Past, Early
  <1>2. \A i \in Id : /\ Exists(i)' <=> Exists(i) \/ i = n
                      /\ docker'[n].name = nm[w]
                      /\ i # n => docker'[i] = docker[i]
                      /\ docker[i].status # "unborn" => docker'[i].status # "unborn"
                      /\ Exists(i) => i # n
        BY <1>0, Created
  <1>3. SomeCopy' BY <1>2 DEF SomeCopy, Alongside
  <1>4. /\ cid[w] # n /\ \E i \in Id : Exists(i) /\ docker[i].name # nm[w]
        BY <1>1 DEF Alongside, Spared
  <1>5. Spared(w)' BY <1>0, <1>2, <1>4 DEF Spared, ActsAlone
  <1>6. ASSUME Leads(w)
        PROVE  Unopposed(w)'
    <2>1. /\ nm[w] = 0 /\ Exists(cid[w]) /\ docker[cid[w]].name = BackupOf(0)
          /\ \A i \in Id : Exists(i) /\ i # cid[w] => docker[i].name = 0
          BY <1>1, <1>6 DEF Alongside, Unopposed
    <2>2. /\ nm'[w] = 0 /\ cid'[w] = cid[w] /\ Exists(cid[w])'
          /\ docker'[cid[w]].name = BackupOf(0)
          /\ \A i \in Id : Exists(i)' /\ i # cid[w] => docker'[i].name = 0
          BY <1>0, <1>2, <1>4, <2>1 DEF ActsAlone
    <2> QED BY <1>1, <2>2 DEF Unopposed, Exists
  <1>7. ASSUME NEW x \in Others(w)
        PROVE  /\ pc[x] \in Past => Spared(x)'
               /\ Follows(x, w)' /\ Apart(x, w)'
    <2>0. x \in Worker /\ x # w /\ pc'[x] = pc[x] BY DEF Others, ActsAlone
    <2>1. Follows(x, w) /\ Apart(x, w) BY <1>1, <2>0 DEF Alongside
    <2>2. Follows(x, w)' BY <1>1, <2>0, <2>1 DEF Follows, ActsAlone
    <2>3. Apart(x, w)'
      <3>1. ASSUME pc[x] \in Past
            PROVE  /\ cid[x] = cid[w] /\ nm[x] # nm[w] /\ Exists(cid[x])'
                   /\ docker'[cid[x]].name \notin {nm[x], nm[w]}
            BY <1>0, <1>1, <1>2, <2>0, <2>1, <3>1 DEF Apart, ActsAlone
      <3> QED BY <2>0, <3>1 DEF Apart, ActsAlone, Exists
    <2>4. ASSUME pc[x] \in Past
          PROVE  Spared(x)'
      <3>1. Spared(x) BY <2>0, <2>4 DEF Alongside, Past, Recreating
      <3>2. stale[x] \in Id /\ stale'[x] = stale[x] /\ nm'[x] = nm[x] /\ cid'[x] = cid[x]
            BY <1>0, <2>0 DEF ActsAlone
      <3>3. pc[x] \in {"create", "startNew", "findStale"} =>
              \E i \in Id : Exists(i)' /\ docker'[i].name # nm[x]
            BY <1>2, <3>1 DEF Spared
      <3>4. pc[x] = "removeStale" => /\ \E i \in Id : Exists(i)' /\ i # stale[x]
                                     /\ Exists(stale[x])' => docker'[stale[x]].name = nm[x]
                                     /\ docker'[stale[x]].status # "unborn"
            BY <1>2, <3>1, <3>2 DEF Spared
      <3>5. pc[x] \in {"startNew", "removeBackup"} =>
              \E i \in Id : Exists(i)' /\ i # cid[x] /\ docker'[i].name = nm[x]
            BY <1>2, <3>1 DEF Spared
      <3> QED BY <2>0, <3>2, <3>3, <3>4, <3>5 DEF Spared, Exists
    <2> QED BY <2>2, <2>3, <2>4
  <1>8. \A i \in Id : docker[i].status # "unborn" => docker'[i].status # "unborn" BY <1>2
  <1> QED BY <1>1, <1>3, <1>5, <1>6, <1>7, <1>8, ActorKeeps

\* The original goes, its replacement stays, whichever update made it.
LEMMA RemoveBackupKeeps ==
  ASSUME TypeOK, AtWork, Alongside, requests <= 2, NEW w \in Worker, pc[w] = "removeBackup",
         ActsAlone(w), docker' = AfterRemove(cid[w]), pc'[w] = "updated"
  PROVE  Alongside'
  <1>0. /\ cid \in [Worker -> Id] /\ nm \in [Worker -> Nat] /\ stale \in [Worker -> Id]
        BY DEF TypeOK
  <1>1. /\ pc[w] \in Recreating /\ pc[w] \in Past
        /\ pc'[w] \in Recreating /\ pc'[w] \notin Early /\ pc'[w] \notin Past
        BY DEF Recreating, Past, Early
  <1>2. \A i \in Id : /\ Exists(i)' <=> Exists(i) /\ i # cid[w]
                      /\ i # cid[w] => docker'[i] = docker[i]
                      /\ docker[i].status # "unborn" => docker'[i].status # "unborn"
        BY <1>0, Removed
  <1>3. PICK r \in Id : Exists(r) /\ r # cid[w] /\ docker[r].name = nm[w]
        BY <1>1 DEF Alongside, Spared
  <1>4. SomeCopy' BY <1>2, <1>3 DEF SomeCopy
  <1>5. Spared(w)' /\ Unopposed(w)' BY <1>1 DEF Spared, Unopposed, Past
  <1>6. ASSUME NEW x \in Others(w)
        PROVE  /\ pc[x] \in Past => Spared(x)'
               /\ Follows(x, w)' /\ Apart(x, w)'
    <2>0. x \in Worker /\ x # w /\ pc'[x] = pc[x] BY DEF Others, ActsAlone
    <2>1. Follows(x, w)' /\ Apart(x, w)' BY <1>1 DEF Follows, Apart
    <2>2. ASSUME pc[x] \in Past
          PROVE  Spared(x)'
      <3>1. Spared(x) /\ Apart(x, w) BY <1>1, <2>0, <2>2 DEF Alongside, Past, Recreating
      <3>2. cid[x] = cid[w] /\ nm[x] # nm[w] BY <1>1, <2>2, <3>1 DEF Apart
      <3>3. Exists(r)' /\ docker'[r].name # nm[x] BY <1>2, <1>3, <3>2
      <3>4. stale[x] \in Id /\ stale'[x] = stale[x] /\ nm'[x] = nm[x] /\ cid'[x] = cid[x]
            BY <1>0, <2>0 DEF ActsAlone
      <3>5. pc[x] = "removeStale" => /\ Exists(r)' /\ r # stale[x]
                                     /\ Exists(stale[x])' => docker'[stale[x]].name = nm[x]
                                     /\ docker'[stale[x]].status # "unborn"
            BY <1>2, <1>3, <3>1, <3>2, <3>4 DEF Spared
      <3>6. pc[x] \in {"startNew", "removeBackup"} =>
              \E i \in Id : Exists(i)' /\ i # cid[x] /\ docker'[i].name = nm[x]
            BY <1>2, <3>1, <3>2 DEF Spared
      <3> QED BY <2>0, <3>3, <3>4, <3>5, <3>6 DEF Spared, Exists
    <2> QED BY <2>1, <2>2
  <1>7. \A i \in Id : docker[i].status # "unborn" => docker'[i].status # "unborn" BY <1>2
  <1> QED BY <1>1, <1>4, <1>5, <1>6, <1>7, ActorKeeps

\* What a rollback clears away bears its own name, so not the original.
LEMMA RemoveStaleKeeps ==
  ASSUME TypeOK, AtWork, Alongside, requests <= 2, NEW w \in Worker, pc[w] = "removeStale",
         ActsAlone(w), Exists(stale[w]), docker' = AfterRemove(stale[w]), pc'[w] = "renameBack"
  PROVE  Alongside'
  <1>0. /\ cid \in [Worker -> Id] /\ nm \in [Worker -> Nat] /\ stale \in [Worker -> Id]
        BY DEF TypeOK
  <1>1. /\ pc[w] \in Recreating /\ pc[w] \in Past
        /\ pc'[w] \in Recreating /\ pc'[w] \notin Early /\ pc'[w] \in Past
        BY DEF Recreating, Past, Early
  <1>2. \A i \in Id : /\ Exists(i)' <=> Exists(i) /\ i # stale[w]
                      /\ i # stale[w] => docker'[i] = docker[i]
                      /\ docker[i].status # "unborn" => docker'[i].status # "unborn"
        BY <1>0, Removed
  <1>3. /\ docker[stale[w]].name = nm[w] /\ \E i \in Id : Exists(i) /\ i # stale[w]
        BY <1>1 DEF Alongside, Spared
  <1>4. SomeCopy' BY <1>2, <1>3 DEF SomeCopy
  <1>5. Spared(w)' BY DEF Spared
  <1>6. ASSUME Leads(w)
        PROVE  Unopposed(w)'
    <2>1. /\ nm[w] = 0 /\ Exists(cid[w]) /\ docker[cid[w]].name = BackupOf(0)
          /\ \A i \in Id : Exists(i) /\ i # cid[w] => docker[i].name = 0
          BY <1>1, <1>6 DEF Alongside, Unopposed
    <2>2. cid[w] # stale[w] BY <1>3, <2>1 DEF BackupOf
    <2>3. /\ nm'[w] = 0 /\ cid'[w] = cid[w] /\ Exists(cid[w])'
          /\ docker'[cid[w]].name = BackupOf(0)
          /\ \A i \in Id : Exists(i)' /\ i # cid[w] => docker'[i].name = 0
          BY <1>0, <1>2, <2>1, <2>2 DEF ActsAlone
    <2> QED BY <1>1, <2>3 DEF Unopposed, Exists
  <1>7. ASSUME NEW x \in Others(w)
        PROVE  /\ pc[x] \in Past => Spared(x)'
               /\ Follows(x, w)' /\ Apart(x, w)'
    <2>0. x \in Worker /\ x # w /\ pc'[x] = pc[x] BY DEF Others, ActsAlone
    <2>1. Follows(x, w) /\ Apart(x, w) BY <1>1, <2>0 DEF Alongside
    <2>2. Follows(x, w)' BY <1>1, <2>0, <2>1 DEF Follows, ActsAlone
    <2>3. ASSUME pc[x] \in Past
          PROVE  /\ cid[x] = cid[w] /\ nm[x] # nm[w] /\ cid[x] # stale[w]
                 /\ Exists(cid[x])' /\ docker'[cid[x]].name \notin {nm[x], nm[w]}
          BY <1>0, <1>1, <1>2, <1>3, <2>0, <2>1, <2>3 DEF Apart, ActsAlone
    <2>4. Apart(x, w)' BY <2>0, <2>3 DEF Apart, ActsAlone, Exists
    <2>5. ASSUME pc[x] \in Past
          PROVE  Spared(x)'
      <3>1. Spared(x) BY <2>0, <2>5 DEF Alongside, Past, Recreating
      <3>2. stale[x] \in Id /\ stale'[x] = stale[x] /\ nm'[x] = nm[x] /\ cid'[x] = cid[x]
            /\ cid[x] \in Id
            BY <1>0, <2>0 DEF ActsAlone
      <3>3. \E i \in Id : Exists(i)' /\ docker'[i].name # nm[x] BY <2>3, <2>5, <3>2
      <3>4. pc[x] = "removeStale" => /\ \E i \in Id : Exists(i)' /\ i # stale[x]
                                     /\ Exists(stale[x])' => docker'[stale[x]].name = nm[x]
                                     /\ docker'[stale[x]].status # "unborn"
            BY <1>2, <2>3, <2>5, <3>1, <3>2 DEF Spared
      <3>5. pc[x] \in {"startNew", "removeBackup"} =>
              \E i \in Id : Exists(i)' /\ i # cid[x] /\ docker'[i].name = nm[x]
            BY <1>2, <1>3, <2>3, <2>5, <3>1 DEF Spared
      <3> QED BY <2>0, <3>2, <3>3, <3>4, <3>5 DEF Spared, Exists
    <2> QED BY <2>2, <2>4, <2>5
  <1>8. \A i \in Id : docker[i].status # "unborn" => docker'[i].status # "unborn" BY <1>2
  <1> QED BY <1>1, <1>4, <1>5, <1>6, <1>7, <1>8, ActorKeeps

-----------------------------------------------------------------------------
(* Everybody's steps.                                                      *)

LEMMA BeginKeeps ==
  ASSUME TypeOK, AtWork, Alongside, NEW w \in Worker, NEW c \in Id, BeginRecreate(w, c),
         requests' <= 2
  PROVE  Alongside'
  <1> USE DEF daemon
  <1>0. /\ cid \in [Worker -> Id] /\ pc \in [Worker -> Steps] /\ requests \in Nat
        BY DEF TypeOK
  <1>1. /\ pc[w] = "idle" /\ Exists(c) /\ cid' = [cid EXCEPT ![w] = c]
        /\ pc' = [pc EXCEPT ![w] = "inspect"] /\ requests' = requests + 1
        /\ docker' = docker /\ nm' = nm /\ stale' = stale
        BY DEF BeginRecreate, BeginRequest, Goto
  <1>2. /\ pc'[w] = "inspect" /\ cid'[w] = c
        /\ \A x \in Others(w) : pc'[x] = pc[x] /\ cid'[x] = cid[x]
        BY <1>0, <1>1 DEF Others
  <1>3. \A x \in Others(w) : pc[x] \in Recreating => requests = 1
    <2> SUFFICES ASSUME NEW x \in Others(w), pc[x] \in Recreating PROVE requests = 1
        OBVIOUS
    <2>1. requests # 0 BY DEF AtWork, NoneAtWork, Others
    <2> QED BY <1>0, <1>1, <2>1
  <1>4. SomeCopy' /\ requests' # 0 BY <1>0, <1>1 DEF Alongside, SomeCopy, Exists
  <1>5. Untouched => Untouched' BY <1>1 DEF Untouched, Exists
  <1>6. docker'[cid'[w]].status # "unborn" BY <1>1, <1>2 DEF Exists
  <1>7. ASSUME Leads(w)'
        PROVE  Unopposed(w)'
    <2>1. Untouched
      <3>1. CASE requests = 0 BY <3>1 DEF Alongside
      <3>2. CASE requests # 0
        <4>1. requests = 1 BY <1>0, <1>1, <3>2
        <4>2. PICK v \in Others(w) : pc[v] \in Early
              BY <1>0, <1>1, <1>2, <1>7, <4>1 DEF Leads
        <4>3. v \in Worker /\ Leads(v) /\ pc[v] \in Recreating
              BY <4>1, <4>2 DEF Leads, Others, Early, Recreating
        <4> QED BY <4>2, <4>3 DEF Alongside, Unopposed
      <3> QED BY <3>1, <3>2
    <2>2. c = First BY <1>1, <2>1 DEF Untouched
    <2> QED BY <1>2, <1>5, <2>1, <2>2 DEF Unopposed, Past
  <1>8. ASSUME NEW x \in Others(w), pc'[x] \in Recreating
        PROVE  /\ docker'[cid'[x]].status # "unborn"
               /\ Spared(x)'
               /\ Unopposed(x)'
               /\ \A v \in Others(x) : Follows(v, x)' /\ Apart(v, x)'
    <2>0. x \in Worker /\ x # w /\ pc[x] \in Recreating BY <1>2, <1>8 DEF Others
    <2>1. requests = 1 BY <1>2, <1>3, <1>8
    <2>2. Unopposed(x) BY <2>0, <2>1 DEF Alongside, Leads
    <2>3. docker'[cid'[x]].status # "unborn" BY <1>1, <1>2, <1>8, <2>0 DEF Alongside
    <2>4. Spared(x)' BY <1>1, <1>2, <1>8, <2>0 DEF Alongside, Spared, Exists
    <2>5. Unopposed(x)'
          BY <1>1, <1>2, <1>5, <1>8, <2>2 DEF Unopposed, Exists
    <2>6. ASSUME NEW v \in Others(x)
          PROVE  Follows(v, x)' /\ Apart(v, x)'
      <3>1. CASE v = w BY <1>2, <3>1 DEF Follows, Apart, Past
      <3>2. CASE v # w
        <4>1. pc'[v] \notin Recreating
              BY <1>2, <2>0, <2>1, <3>2 DEF AtWork, OneAtWork, Others
        <4> QED BY <4>1 DEF Follows, Apart, Early, Past, Recreating
      <3> QED BY <3>1, <3>2
    <2> QED BY <2>3, <2>4, <2>5, <2>6
  <1>9. Spared(w)' BY <1>2 DEF Spared
  <1>10. \A v \in Others(w) : Follows(v, w)' /\ Apart(v, w)'
         BY <1>2 DEF Follows, Apart, Past
  <1>11. \A x \in Worker : x = w \/ x \in Others(w) BY DEF Others
  <1> QED BY <1>4, <1>6, <1>7, <1>8, <1>9, <1>10, <1>11 DEF Alongside

\* What the steps of a request leave to everybody else.
LEMMA AdvanceAlone ==
  ASSUME TypeOK, NEW w \in Worker, Advance(w)
  PROVE  /\ pc[w] \in Recreating /\ pc'[w] \in Recreating
         /\ requests' = requests /\ rm' = rm /\ cid' = cid
         /\ \A v \in Others(w) : pc'[v] = pc[v] /\ nm'[v] = nm[v] /\ stale'[v] = stale[v]
         /\ pc[w] # "inspect" => nm' = nm
         /\ pc[w] # "findStale" => stale' = stale
  <1> USE DEF fixed, locals
  <1>1. /\ pc[w] \in Recreating /\ pc'[w] \in Recreating /\ cid' = cid
        /\ \A v \in Others(w) : pc'[v] = pc[v]
        BY AdvanceFrame
  <1>2. /\ requests' = requests /\ rm' = rm
        /\ nm' = nm \/ (pc[w] = "inspect" /\ nm' = [nm EXCEPT ![w] = docker[cid[w]].name])
        /\ stale' = stale \/ (pc[w] = "findStale" /\ \E i \in Id : stale' = [stale EXCEPT ![w] = i])
        BY DEF Advance, Inspect, Pull, StopOld, RenameOld, RestartOld, CreateNew, StartNew,
               RemoveBackup, FindStale, RemoveStale, RenameBack, StartOld, Named
  <1>3. nm \in [Worker -> Nat] /\ stale \in [Worker -> Id] BY DEF TypeOK
  <1>4. \A v \in Others(w) : nm'[v] = nm[v] /\ stale'[v] = stale[v]
        BY <1>2, <1>3 DEF Others
  <1> QED BY <1>1, <1>2, <1>4

LEMMA CallOutcomes ==
  ASSUME NEW w \in Worker, NEW accepted \in BOOLEAN, NEW after, NEW onOk, NEW onErr, TypeOK,
         Call(w, accepted, after, onOk, onErr)
  PROVE  \/ docker' = docker /\ pc'[w] = onErr
         \/ accepted /\ docker' = after /\ pc'[w] \in {onOk, onErr}
  <1>1. pc \in [Worker -> Steps] BY DEF TypeOK
  <1> QED BY <1>1 DEF Call, Answered, Rejected, Refused, AnswerLost, Goto

LEMMA LookupOutcomes ==
  ASSUME NEW w \in Worker, NEW accepted \in BOOLEAN, NEW onOk, NEW onErr, TypeOK,
         Lookup(w, accepted, onOk, onErr)
  PROVE  docker' = docker /\ (pc'[w] = onErr \/ (accepted /\ pc'[w] = onOk))
  <1>1. pc \in [Worker -> Steps] BY DEF TypeOK
  <1> QED BY <1>1 DEF Lookup, Answered, Rejected, Refused, Goto

\* A step that leaves the containers and their names alone.
LEMMA QuietKeeps ==
  ASSUME TypeOK, AtWork, Alongside, NEW w \in Worker, Advance(w), \A i \in Id : Same(i),
         Moves(w)
  PROVE  Alongside'
  <1>1. /\ requests' = requests /\ cid' = cid
        /\ \A v \in Others(w) : pc'[v] = pc[v] /\ nm'[v] = nm[v] /\ stale'[v] = stale[v]
        BY AdvanceAlone
  <1>2. ASSUME NEW x \in Worker
        PROVE  Moves(x)
    <2>1. CASE x = w BY <2>1
    <2>2. CASE x # w
      <3>1. pc'[x] = pc[x] /\ nm'[x] = nm[x] /\ stale'[x] = stale[x] /\ cid'[x] = cid[x]
            BY <1>1, <2>2 DEF Others
      <3>2. pc[x] \in Recreating => Spared(x)' BY <3>1, SparedStays DEF Alongside
      <3> QED BY <3>1, <3>2 DEF Moves
    <2> QED BY <2>1, <2>2
  <1> QED BY <1>1, <1>2, MovesKeep

LEMMA SparedMoves ==
  ASSUME TypeOK, \A i \in Id : Same(i), NEW w \in Worker, Spared(w),
         cid'[w] = cid[w], nm'[w] = nm[w] \/ pc'[w] \notin Past,
         \/ pc[w] = "startNew" /\ pc'[w] \in {"removeBackup", "findStale"}
         \/ pc[w] = "create" /\ pc'[w] = "findStale"
         \/ pc'[w] \in Recreating \ Past \/ pc'[w] = "renameBack"
  PROVE  Spared(w)'
  BY DEF Spared, Same, Past, Recreating

LEMMA AdvanceKeeps ==
  ASSUME TypeOK, AtWork, Alongside, requests <= 2, NEW w \in Worker, Advance(w)
  PROVE  Alongside'
  <1> USE DEF fixed, locals
  <1>1. /\ pc[w] \in Recreating /\ pc'[w] \in Recreating
        /\ requests' = requests /\ cid' = cid
        /\ \A v \in Others(w) : pc'[v] = pc[v] /\ nm'[v] = nm[v] /\ stale'[v] = stale[v]
        /\ pc[w] # "inspect" => nm' = nm
        /\ pc[w] # "findStale" => stale' = stale
        BY AdvanceAlone
  <1>2. /\ cid[w] \in Id /\ stale[w] \in Id /\ nm[w] \in Nat /\ repl[w] \in SUBSET Id
        /\ nm \in [Worker -> Nat] /\ stale \in [Worker -> Id]
        BY DEF TypeOK
  <1>3. Spared(w) BY <1>1 DEF Alongside
  <1>4. /\ Exists(cid[w]) \in BOOLEAN /\ Exists(stale[w]) \in BOOLEAN
        /\ CanRename(cid[w], BackupOf(nm[w])) \in BOOLEAN /\ CanRename(cid[w], nm[w]) \in BOOLEAN
        BY DEF Exists, CanRename
  <1>5. ASSUME pc[w] \notin {"inspect", "findStale"}
        PROVE  ActsAlone(w)
        BY <1>1, <1>5 DEF ActsAlone
  <1>6. ASSUME docker' = docker
        PROVE  \A i \in Id : Same(i)
        BY <1>6, StartsAndStops
  \* A failed or unanswered call that had no effect, and what starts or stops.
  <1>7. ASSUME \A i \in Id : Same(i), pc[w] # "inspect",
               \/ pc[w] = "startNew" /\ pc'[w] \in {"removeBackup", "findStale"}
               \/ pc[w] = "create" /\ pc'[w] = "findStale"
               \/ pc[w] \in Early /\ pc'[w] \in {"stop", "rename"}
               \/ pc[w] \in Past /\ pc'[w] = "renameBack"
               \/ pc'[w] \in Recreating \ (Past \cup Early)
        PROVE  Alongside'
    <2>1. nm'[w] = nm[w] /\ cid'[w] = cid[w] BY <1>1, <1>7
    <2>2. Spared(w)' BY <1>1, <1>3, <1>7, <2>1, SparedMoves DEF Past, Early, Recreating
    <2>3. pc'[w] \in Past => pc[w] \in Past BY <1>7 DEF Past, Early
    <2>4. (pc'[w] \in Early => pc[w] \in Early) /\ pc'[w] # "inspect"
          BY <1>7 DEF Early, Past
    <2>5. Moves(w) BY <1>1, <1>7, <2>1, <2>2, <2>3, <2>4 DEF Moves
    <2> QED BY <1>7, <2>5, QuietKeeps
  <1>8. CASE Inspect(w)
    <2>1. /\ pc[w] = "inspect" /\ docker' = docker /\ nm' = [nm EXCEPT ![w] = docker[cid[w]].name]
          /\ Lookup(w, Exists(cid[w]), "pull", "failed")
          BY <1>8, LookupDocker DEF Inspect
    <2>2. pc'[w] = "failed" \/ (Exists(cid[w]) /\ pc'[w] = "pull")
          BY <1>4, <2>1, LookupOutcomes
    <2>3. nm'[w] = docker[cid[w]].name BY <1>2, <2>1
    <2>4. pc'[w] \notin Past /\ (pc'[w] \in Early => pc'[w] = "pull") BY <2>2 DEF Past, Early
    <2>5. Spared(w)' BY <2>2 DEF Spared
    <2>6. Moves(w) BY <1>1, <2>1, <2>2, <2>3, <2>4, <2>5 DEF Moves, Early
    <2> QED BY <1>6, <2>1, <2>6, QuietKeeps
  <1>9. CASE Pull(w)
    <2>1. PICK onOk \in {"unchanged", "stop"} : Lookup(w, TRUE, onOk, "failed")
          BY <1>9 DEF Pull
    <2>2. docker' = docker /\ pc'[w] \in {"unchanged", "stop", "failed"}
          BY <2>1, LookupOutcomes
    <2>3. pc[w] = "pull" BY <1>9 DEF Pull
    <2> QED BY <1>6, <1>7, <2>2, <2>3 DEF Early, Past, Recreating
  <1>10. CASE StopOld(w)
    <2>1. pc[w] = "stop" /\ Call(w, Exists(cid[w]), AfterStop(cid[w]), "rename", "failed")
          BY <1>10 DEF StopOld
    <2>2. /\ docker' = docker \/ docker' = AfterStop(cid[w])
          /\ pc'[w] \in {"rename", "failed"}
          BY <1>4, <2>1, CallOutcomes
    <2>3. \A i \in Id : Same(i) BY <1>2, <2>2, StartsAndStops
    <2> QED BY <1>7, <2>1, <2>2, <2>3 DEF Early, Past, Recreating
  <1>11. CASE RestartOld(w) \/ StartOld(w)
    <2>1. /\ pc[w] \in {"restartOld", "startOld"}
          /\ Call(w, Exists(cid[w]), AfterStart(cid[w]), "failed", "failed")
          BY <1>11 DEF RestartOld, StartOld
    <2>2. /\ docker' = docker \/ (Exists(cid[w]) /\ docker' = AfterStart(cid[w]))
          /\ pc'[w] = "failed"
          BY <1>4, <2>1, CallOutcomes
    <2>3. \A i \in Id : Same(i) BY <1>2, <2>2, StartsAndStops
    <2> QED BY <1>7, <2>1, <2>2, <2>3 DEF Early, Past, Recreating
  <1>12. CASE StartNew(w)
    <2>1. PICK i \in repl[w] : Call(w, Exists(i), AfterStart(i), "removeBackup", "findStale")
          BY <1>12 DEF StartNew
    <2>2. i \in Id /\ Exists(i) \in BOOLEAN BY <1>2 DEF Exists
    <2>3. /\ docker' = docker \/ (Exists(i) /\ docker' = AfterStart(i))
          /\ pc'[w] \in {"removeBackup", "findStale"}
          BY <2>1, <2>2, CallOutcomes
    <2>4. \A j \in Id : Same(j) BY <2>2, <2>3, StartsAndStops
    <2>5. pc[w] = "startNew" BY <1>12 DEF StartNew
    <2> QED BY <1>7, <2>3, <2>4, <2>5
  <1>13. CASE FindStale(w)
    <2> DEFINE found == Named(nm[w]) # {}
    <2>1. /\ pc[w] = "findStale" /\ nm' = nm
          /\ Lookup(w, found, "removeStale", "renameBack")
          /\ \/ ~found
             \/ \E i \in Named(nm[w]) : stale' = [stale EXCEPT ![w] = i]
          BY <1>13 DEF FindStale
    <2>2. found \in BOOLEAN OBVIOUS
    <2> HIDE DEF found
    <2>3. docker' = docker /\ (pc'[w] = "renameBack" \/ (found /\ pc'[w] = "removeStale"))
          BY <2>1, <2>2, LookupOutcomes
    <2>4. CASE pc'[w] = "renameBack" BY <1>6, <1>7, <2>1, <2>3, <2>4 DEF Past
    <2>5. CASE pc'[w] = "removeStale"
      <3>1. PICK i \in Named(nm[w]) : stale' = [stale EXCEPT ![w] = i] BY <2>1, <2>3, <2>5
      <3>2. stale'[w] = i /\ Exists(i) /\ docker[i].name = nm[w] /\ i \in Id
            BY <1>2, <3>1 DEF Named
      <3>3. \E j \in Id : Exists(j) /\ docker[j].name # nm[w] BY <1>3, <2>1 DEF Spared
      <3>4. docker[i].status # "unborn" BY <3>2 DEF Exists
      <3>5. Spared(w)' BY <2>1, <2>3, <2>5, <3>2, <3>3, <3>4 DEF Spared, Exists
      <3>6. Moves(w) BY <1>1, <2>1, <2>5, <3>5 DEF Moves, Early, Past
      <3> QED BY <1>6, <2>3, <3>6, QuietKeeps
    <2> QED BY <2>3, <2>4, <2>5
  <1>14. CASE RenameOld(w)
    <2>1. /\ pc[w] = "rename"
          /\ Call(w, CanRename(cid[w], BackupOf(nm[w])), AfterRename(cid[w], BackupOf(nm[w])),
                  "create", "restartOld")
          BY <1>14 DEF RenameOld
    <2>2. \/ docker' = docker /\ pc'[w] = "restartOld"
          \/ /\ CanRename(cid[w], BackupOf(nm[w]))
             /\ docker' = AfterRename(cid[w], BackupOf(nm[w]))
             /\ pc'[w] \in {"create", "restartOld"}
          BY <1>4, <2>1, CallOutcomes
    <2>3. CASE docker' = docker /\ pc'[w] = "restartOld"
          BY <1>6, <1>7, <2>1, <2>3 DEF Early, Past, Recreating
    <2> QED BY <1>5, <2>1, <2>2, <2>3, RenameOldKeeps
  <1>15. CASE RenameBack(w)
    <2>1. /\ pc[w] = "renameBack"
          /\ Call(w, CanRename(cid[w], nm[w]), AfterRename(cid[w], nm[w]), "startOld", "failed")
          BY <1>15 DEF RenameBack
    <2>2. \/ docker' = docker /\ pc'[w] = "failed"
          \/ /\ CanRename(cid[w], nm[w]) /\ docker' = AfterRename(cid[w], nm[w])
             /\ pc'[w] \in {"startOld", "failed"}
          BY <1>4, <2>1, CallOutcomes
    <2>3. CASE docker' = docker /\ pc'[w] = "failed"
          BY <1>6, <1>7, <2>1, <2>3 DEF Early, Past, Recreating
    <2> QED BY <1>5, <2>1, <2>2, <2>3, RenameBackKeeps
  <1>16. CASE CreateNew(w)
    <2> DEFINE free == Named(nm[w]) = {}
    <2>1. PICK i \in Id :
            /\ docker[i].status = "unborn"
            /\ Call(w, free, [docker EXCEPT ![i] = [status |-> "created", name |-> nm[w],
                                                    image |-> pulled[w]]],
                    "startNew", "findStale")
          BY <1>16 DEF CreateNew
    <2>2. free \in BOOLEAN OBVIOUS
    <2> HIDE DEF free
    <2>3. \/ docker' = docker /\ pc'[w] = "findStale"
          \/ /\ docker' = [docker EXCEPT ![i] = [status |-> "created", name |-> nm[w],
                                                 image |-> pulled[w]]]
             /\ pc'[w] \in {"startNew", "findStale"}
          BY <2>1, <2>2, CallOutcomes
    <2>4. pc[w] = "create" BY <1>16 DEF CreateNew
    <2>5. CASE docker' = docker /\ pc'[w] = "findStale" BY <1>6, <1>7, <2>4, <2>5
    <2> QED BY <1>5, <2>1, <2>3, <2>4, <2>5, CreateKeeps
  <1>17. CASE RemoveBackup(w)
    <2>1. /\ pc[w] = "removeBackup"
          /\ Call(w, Exists(cid[w]), AfterRemove(cid[w]), "updated", "updated")
          BY <1>17 DEF RemoveBackup
    <2>2. (docker' = docker \/ docker' = AfterRemove(cid[w])) /\ pc'[w] = "updated"
          BY <1>4, <2>1, CallOutcomes
    <2>3. CASE docker' = docker BY <1>6, <1>7, <2>1, <2>2, <2>3 DEF Early, Past, Recreating
    <2> QED BY <1>5, <2>1, <2>2, <2>3, RemoveBackupKeeps
  <1>18. CASE RemoveStale(w)
    <2>1. /\ pc[w] = "removeStale"
          /\ Call(w, Exists(stale[w]), AfterRemove(stale[w]), "renameBack", "renameBack")
          BY <1>18 DEF RemoveStale
    <2>2. /\ docker' = docker \/ (Exists(stale[w]) /\ docker' = AfterRemove(stale[w]))
          /\ pc'[w] = "renameBack"
          BY <1>4, <2>1, CallOutcomes
    <2>3. CASE docker' = docker BY <1>6, <1>7, <2>1, <2>2, <2>3 DEF Past
    <2> QED BY <1>5, <2>1, <2>2, <2>3, RemoveStaleKeeps
  <1> QED BY <1>8, <1>9, <1>10, <1>11, <1>12, <1>13, <1>14, <1>15, <1>16, <1>17, <1>18
          DEF Advance

\* What nobody's update takes part in: requests end, containers start and stop.
LEMMA AsideKeeps ==
  ASSUME TypeOK, Alongside, requests' = requests, \A i \in Id : Same(i),
         \A x \in Worker :
           pc'[x] \in Recreating => /\ pc'[x] = pc[x] /\ cid'[x] = cid[x]
                                    /\ nm'[x] = nm[x] /\ stale'[x] = stale[x]
  PROVE  Alongside'
  <1>1. ASSUME NEW x \in Worker
        PROVE  Moves(x)
        BY <1>1, SparedStays DEF Moves, Alongside
  <1> QED BY <1>1, MovesKeep

LEMMA AsideStep ==
  ASSUME TypeOK, ~rm,
         \/ \E w \in Worker, i \in Id, v \in Verbs : BeginAction(w, i, v)
         \/ \E w \in Worker : GetContainer(w) \/ Act(w) \/ Return(w)
         \/ \E i \in Id : Reap(i) \/ Exit(i)
         \/ GatewayRestart
         \/ UNCHANGED vars
  PROVE  /\ requests' = requests /\ \A i \in Id : Same(i)
         /\ \A x \in Worker :
              pc'[x] \in Recreating => /\ pc'[x] = pc[x] /\ cid'[x] = cid[x]
                                       /\ nm'[x] = nm[x] /\ stale'[x] = stale[x]
  <1> USE DEF fixed, locals, daemon, history
  <1>0. /\ pc \in [Worker -> Steps] /\ cid \in [Worker -> Id]
        BY DEF TypeOK
  <1> DEFINE Goal == /\ requests' = requests /\ \A i \in Id : Same(i)
                     /\ \A x \in Worker :
                          pc'[x] \in Recreating => /\ pc'[x] = pc[x] /\ cid'[x] = cid[x]
                                                   /\ nm'[x] = nm[x] /\ stale'[x] = stale[x]
  <1>1. ASSUME docker' = docker
        PROVE  \A i \in Id : Same(i)
        BY <1>1, StartsAndStops
  <1>2. ASSUME NEW w \in Worker, NEW i \in Id, NEW v \in Verbs, BeginAction(w, i, v)
        PROVE  Goal
    <2>1. /\ docker' = docker /\ requests' = requests /\ nm' = nm /\ stale' = stale
          /\ pc' = [pc EXCEPT ![w] = "get"] /\ cid' = [cid EXCEPT ![w] = i]
          BY <1>2 DEF BeginAction, BeginRequest, Goto
    <2> QED BY <1>0, <1>1, <2>1 DEF Recreating
  <1>3. ASSUME NEW w \in Worker, GetContainer(w) \/ Act(w)
        PROVE  Goal
    <2>1. pc' = [pc EXCEPT ![w] = pc'[w]] /\ pc'[w] \in {"act", "idle"}
          BY <1>3, LightFrame
    <2>2. /\ requests' = requests /\ nm' = nm /\ stale' = stale
          /\ cid' = cid \/ cid' = [cid EXCEPT ![w] = First]
          BY <1>3 DEF GetContainer, Act, EndAction
    <2>3. \A i \in Id : Same(i)
      <3>1. CASE GetContainer(w)
        <4>1. docker' = docker BY <3>1, LookupDocker DEF GetContainer
        <4> QED BY <1>1, <4>1
      <3>2. CASE Act(w)
        <4>1. \/ docker' = docker
              \/ Exists(cid[w]) /\ docker' = IF verb[w] = "stop" THEN AfterStop(cid[w])
                                                                 ELSE AfterStart(cid[w])
              BY <3>2 DEF Act, Call, Answered, Rejected, Refused, AnswerLost
        <4> QED BY <1>0, <4>1, StartsAndStops
      <3> QED BY <1>3, <3>1, <3>2
    <2> QED BY <1>0, <2>1, <2>2, <2>3 DEF Recreating
  <1>4. ASSUME NEW W \in SUBSET Worker, Forget(W), UNCHANGED <<daemon, requests>>
        PROVE  Goal
    <2>1. \A x \in Worker :
            pc'[x] \in Recreating => /\ pc'[x] = pc[x] /\ cid'[x] = cid[x]
                                     /\ nm'[x] = nm[x] /\ stale'[x] = stale[x]
          BY <1>4 DEF Forget, Recreating
    <2> QED BY <1>1, <1>4, <2>1
  <1>5. ASSUME NEW i \in Id, Reap(i) \/ Exit(i)
        PROVE  Goal
    <2>1. /\ requests' = requests /\ pc' = pc /\ cid' = cid /\ nm' = nm /\ stale' = stale
          /\ docker' = AfterStop(i)
          BY <1>5 DEF Reap, Exit
    <2> QED BY <2>1, StartsAndStops
  <1>6. ASSUME NEW w \in Worker, Return(w)
        PROVE  Goal
    <2>1. {w} \in SUBSET Worker OBVIOUS
    <2>2. Forget({w}) /\ UNCHANGED <<daemon, requests>> BY <1>6 DEF Return
    <2> QED BY <1>4, <2>1, <2>2
  <1>7. CASE GatewayRestart
    <2>1. Worker \in SUBSET Worker OBVIOUS
    <2>2. Forget(Worker) /\ UNCHANGED <<daemon, requests>> BY <1>7 DEF GatewayRestart
    <2> QED BY <1>4, <2>1, <2>2
  <1>8. CASE UNCHANGED vars
    <2>1. docker' = docker BY <1>8 DEF vars
    <2>2. /\ requests' = requests /\ pc' = pc /\ cid' = cid /\ nm' = nm /\ stale' = stale
          BY <1>8 DEF vars
    <2> QED BY <1>1, <2>1, <2>2
  <1> QED BY <1>2, <1>3, <1>5, <1>6, <1>7, <1>8

LEMMA AtWorkStep ==
  ASSUME TypeOK, AtWork, [Next]_vars
  PROVE  AtWork' /\ requests <= requests' /\ rm' = rm
  <1> USE DEF fixed, locals, daemon, history
  <1>0. /\ pc \in [Worker -> Steps] /\ requests \in Nat BY DEF TypeOK
  <1>1. ASSUME requests' = requests, \A x \in Worker : pc'[x] \in Recreating => pc[x] \in Recreating
        PROVE  AtWork'
        BY <1>1 DEF AtWork, NoneAtWork, OneAtWork, TwoAtWork
  <1>2. ASSUME NEW w \in Worker, NEW i \in Id, BeginRecreate(w, i)
        PROVE  AtWork' /\ requests <= requests' /\ rm' = rm
    <2>1. /\ pc' = [pc EXCEPT ![w] = "inspect"] /\ requests' = requests + 1 /\ rm' = rm
          BY <1>2 DEF BeginRecreate, Goto
    <2>2. \A x \in Worker : pc'[x] \in Recreating => x = w \/ pc[x] \in Recreating
          BY <1>0, <2>1
    <2>3. requests' = 1 => OneAtWork'
          BY <1>0, <2>1, <2>2 DEF AtWork, NoneAtWork, OneAtWork
    <2>4. requests' = 2 => TwoAtWork'
      <3> SUFFICES ASSUME requests' = 2, NEW u \in Worker, NEW v \in Worker, NEW x \in Worker,
                          {pc'[u], pc'[v], pc'[x]} \subseteq Recreating
                   PROVE  u = v \/ u = x \/ v = x
          BY DEF TwoAtWork
      <3>1. requests = 1 BY <1>0, <2>1
      <3>2. OneAtWork BY <3>1 DEF AtWork
      <3> QED BY <2>2, <3>2 DEF OneAtWork
    <2>5. requests' # 0 BY <1>0, <2>1
    <2> QED BY <1>0, <2>1, <2>3, <2>4, <2>5 DEF AtWork
  <1>3. ASSUME NEW w \in Worker, Advance(w)
        PROVE  AtWork' /\ requests <= requests' /\ rm' = rm
    <2>1. /\ pc[w] \in Recreating /\ requests' = requests /\ rm' = rm
          /\ \A v \in Others(w) : pc'[v] = pc[v]
          BY <1>3, AdvanceAlone
    <2>2. \A x \in Worker : pc'[x] \in Recreating => pc[x] \in Recreating
          BY <2>1 DEF Others
    <2> QED BY <1>0, <1>1, <2>1, <2>2
  <1>4. ASSUME NEW w \in Worker,
               GetContainer(w) \/ Act(w) \/ \E i \in Id, v \in Verbs : BeginAction(w, i, v)
        PROVE  AtWork' /\ requests <= requests' /\ rm' = rm
    <2>1. requests' = requests /\ rm' = rm BY <1>4 DEF GetContainer, Act, EndAction, BeginAction
    <2>2. CASE GetContainer(w) \/ Act(w)
      <3>1. pc' = [pc EXCEPT ![w] = pc'[w]] /\ pc'[w] \in {"act", "idle"} BY <2>2, LightFrame
      <3>2. \A x \in Worker : pc'[x] \in Recreating => pc[x] \in Recreating
            BY <1>0, <3>1 DEF Recreating
      <3> QED BY <1>0, <1>1, <2>1, <3>2
    <2>3. CASE \E i \in Id, v \in Verbs : BeginAction(w, i, v)
      <3>1. pc' = [pc EXCEPT ![w] = "get"] BY <2>3 DEF BeginAction, Goto
      <3>2. \A x \in Worker : pc'[x] \in Recreating => pc[x] \in Recreating
            BY <1>0, <3>1 DEF Recreating
      <3> QED BY <1>0, <1>1, <2>1, <3>2
    <2> QED BY <1>4, <2>2, <2>3
  <1>5. ASSUME NEW W \in SUBSET Worker, Forget(W), UNCHANGED <<daemon, requests>>
        PROVE  AtWork' /\ requests <= requests' /\ rm' = rm
    <2>1. \A x \in Worker : pc'[x] \in Recreating => pc[x] \in Recreating
          BY <1>5 DEF Forget, Recreating
    <2> QED BY <1>0, <1>1, <1>5, <2>1
  <1>6. ASSUME NEW w \in Worker, Return(w)
        PROVE  AtWork' /\ requests <= requests' /\ rm' = rm
    <2>1. {w} \in SUBSET Worker OBVIOUS
    <2> QED BY <1>5, <1>6, <2>1 DEF Return
  <1>7. CASE GatewayRestart
    <2>1. Worker \in SUBSET Worker OBVIOUS
    <2> QED BY <1>5, <1>7, <2>1 DEF GatewayRestart
  <1>8. ASSUME NEW i \in Id, Reap(i) \/ Exit(i)
        PROVE  AtWork' /\ requests <= requests' /\ rm' = rm
    <2>1. requests' = requests /\ rm' = rm /\ pc' = pc BY <1>8 DEF Reap, Exit
    <2> QED BY <1>0, <1>1, <2>1
  <1>9. CASE UNCHANGED vars
    <2>1. requests' = requests /\ rm' = rm /\ pc' = pc BY <1>9 DEF vars
    <2> QED BY <1>0, <1>1, <2>1
  <1> QED BY <1>2, <1>3, <1>4, <1>6, <1>7, <1>8, <1>9 DEF Next, Advance

LEMMA CopiesInit ==
  ASSUME Init
  PROVE  CopiesInv
  <1>1. TypeOK BY TypeInit
  <1>2. /\ requests = 0 /\ \A w \in Worker : pc[w] \notin Recreating
        BY DEF Init, Recreating
  <1>3. AtWork BY <1>2 DEF AtWork, NoneAtWork
  <1>4. Untouched BY DEF Init, Untouched, Exists
  <1>5. SomeCopy BY RecreateAssumption DEF Init, SomeCopy, Exists
  <1> QED BY <1>1, <1>2, <1>3, <1>4, <1>5 DEF CopiesInv, Alongside

LEMMA CopiesStep ==
  ASSUME CopiesInv, [Next]_vars
  PROVE  CopiesInv'
  <1>0. TypeOK /\ AtWork /\ requests \in Nat BY DEF CopiesInv, TypeOK
  <1>1. TypeOK' BY <1>0, TypeStep
  <1>2. AtWork' /\ requests <= requests' /\ rm' = rm BY <1>0, AtWorkStep
  <1>3. ASSUME ~rm', requests' <= 2
        PROVE  Alongside'
    <2>1. requests' \in Nat BY <1>1 DEF TypeOK
    <2>2. ~rm /\ requests <= 2 /\ Alongside BY <1>0, <1>2, <1>3, <2>1 DEF CopiesInv
    <2>3. CASE \E w \in Worker, i \in Id : BeginRecreate(w, i)
          BY <1>0, <1>3, <2>2, <2>3, BeginKeeps
    <2>4. CASE \E w \in Worker : Advance(w)
          BY <1>0, <2>2, <2>4, AdvanceKeeps
    <2>5. CASE \/ \E w \in Worker, i \in Id, v \in Verbs : BeginAction(w, i, v)
               \/ \E w \in Worker : GetContainer(w) \/ Act(w) \/ Return(w)
               \/ \E i \in Id : Reap(i) \/ Exit(i)
               \/ GatewayRestart
               \/ UNCHANGED vars
      <3>1. /\ requests' = requests /\ \A i \in Id : Same(i)
            /\ \A x \in Worker :
                 pc'[x] \in Recreating => /\ pc'[x] = pc[x] /\ cid'[x] = cid[x]
                                          /\ nm'[x] = nm[x] /\ stale'[x] = stale[x]
            BY <1>0, <2>2, <2>5, AsideStep
      <3> QED BY <1>0, <2>2, <3>1, AsideKeeps
    <2> QED BY <2>3, <2>4, <2>5 DEF Next, Advance
  <1> QED BY <1>1, <1>2, <1>3 DEF CopiesInv

\* Two updates of the same container, however they overlap with each other
\* and with starts and stops, fail and are cut off by restarts, leave a copy
\* of it (docker_hosts.py:478-562).
THEOREM CopySurvives == Spec => []SomeCopySurvives
  <1>1. Init => CopiesInv BY CopiesInit
  <1>2. CopiesInv /\ [Next]_vars => CopiesInv' BY CopiesStep
  <1>3. CopiesInv => SomeCopySurvives
        BY DEF CopiesInv, Alongside, SomeCopy, SomeCopySurvives
  <1> QED BY <1>1, <1>2, <1>3, PTL DEF Spec
=============================================================================
