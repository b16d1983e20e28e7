--------------------------- MODULE DockerRecreate ---------------------------
(***************************************************************************)
(* DockerHostClient.pull_recreate and container_action                     *)
(* (services/gateway/src/auzui_gateway/docker_hosts.py): replacing one     *)
(* container by a freshly pulled version of itself, one Docker API call at *)
(* a time.  Every call may be refused, or take effect while its answer is  *)
(* lost; the gateway process may die between two calls; several requests   *)
(* run at once (DockerService lets PER_HOST_CONCURRENCY of them reach one  *)
(* host); and the daemon reaps `--rm` containers by itself.                *)
(***************************************************************************)
EXTENDS Naturals, FiniteSets

CONSTANTS
  Worker,       \* gateway threads serving write requests for this host
  Id,           \* container ids the daemon can hand out
  First,        \* the container that exists at the start
  AutoRemove,   \* the possible HostConfig.AutoRemove of the container (docker run --rm)
  FaultKinds,   \* subset of {"refused", "lost"}
  MaxRequests,  \* bound: pull_recreate requests (each creates at most one container)
  MaxFaults,    \* bound: API calls of one request that go wrong
  MaxRelease    \* bound: versions the registry publishes

ASSUME RecreateAssumption ==
  /\ First \in Id
  /\ AutoRemove \subseteq BOOLEAN
  /\ FaultKinds \subseteq {"refused", "lost"}
  /\ {MaxRequests, MaxFaults, MaxRelease} \subseteq Nat

VARIABLES
  docker,    \* the daemon: docker[i] is the status, name and image of container i
  rm,        \* HostConfig.AutoRemove, which the replacement inherits
  latest,    \* the newest version the registry has served
  pc,        \* where each worker is in its request
  verb,      \* what container_action was asked to do
  cid,       \* `container`: the handle the request works on
  nm,        \* attrs["Name"] as inspected
  pulled,    \* the version `images.pull` returned
  repl,      \* set holding `new_container`'s id once the daemon has answered create
  stale,     \* what `containers.get(name)` found during the rollback
  wasUp,     \* history: the container was running when it was inspected
  calm,      \* history: nobody else touched the host since the request began
  refused,   \* history: calls of this request that failed without effect
  lost,      \* history: calls of this request that took effect but raised
  requests   \* pull_recreate requests so far

daemon  == <<docker, rm, latest>>
fixed   == <<rm, latest>>
locals  == <<verb, cid, nm, pulled, repl, stale, wasUp>>
history == <<calm, refused, lost>>
vars    == <<docker, rm, latest, pc, verb, cid, nm, pulled, repl, stale, wasUp,
             calm, refused, lost, requests>>

\* A restart leaves the container as a start does or, cut off halfway, as a
\* stop that raises; it is not a verb of its own here.
Verbs == {"start", "stop"}

Recreating ==
  {"inspect", "pull", "stop", "rename", "restartOld", "create", "startNew",
   "findStale", "removeStale", "renameBack", "startOld", "removeBackup",
   "unchanged", "updated", "failed"}

Steps == {"idle", "get", "act"} \cup Recreating

\* (mutant) the suffix is taken off instead of put on
BackupOf_stripsSuffix(n) == n - 1

\* Names are counted by the "-auzui-backup" suffixes they carry: 0 is the
\* container's own name, BackupOf(0) its backup's.
BackupOf(n) == n + 1

Status == {"unborn", "created", "running", "exited", "removed"}

Exists(i) == docker[i].status \in {"created", "running", "exited"}
Running   == {i \in Id : docker[i].status = "running"}
Named(n)  == {i \in Id : Exists(i) /\ docker[i].name = n}

TypeOK ==
  /\ docker \in [Id -> [status : Status, name : Nat, image : Nat]]
  /\ rm \in AutoRemove
  /\ latest \in Nat
  /\ pc \in [Worker -> Steps]
  /\ verb \in [Worker -> Verbs]
  /\ cid \in [Worker -> Id]
  /\ nm \in [Worker -> Nat]
  /\ pulled \in [Worker -> Nat]
  /\ repl \in [Worker -> SUBSET Id]
  /\ stale \in [Worker -> Id]
  /\ wasUp \in [Worker -> BOOLEAN]
  /\ calm \in [Worker -> BOOLEAN]
  /\ refused \in [Worker -> Nat]
  /\ lost \in [Worker -> Nat]
  /\ requests \in Nat

Init ==
  /\ \E s \in {"running", "exited"} :
       docker = [i \in Id |->
                   [status |-> IF i = First THEN s ELSE "unborn",
                    name |-> 0, image |-> 0]]
  /\ rm \in AutoRemove
  /\ rm => docker[First].status = "running"
  /\ latest = 0
  /\ requests = 0
  /\ pc = [w \in Worker |-> "idle"]
  /\ verb = [w \in Worker |-> "start"]
  /\ cid = [w \in Worker |-> First]
  /\ nm = [w \in Worker |-> 0]
  /\ pulled = [w \in Worker |-> 0]
  /\ repl = [w \in Worker |-> {}]
  /\ stale = [w \in Worker |-> First]
  /\ wasUp = [w \in Worker |-> FALSE]
  /\ calm = [w \in Worker |-> FALSE]
  /\ refused = [w \in Worker |-> 0]
  /\ lost = [w \in Worker |-> 0]

-----------------------------------------------------------------------------
(* The outcomes of one Docker API call by worker w.  The daemon accepts it *)
(* and answers; or rejects it (no such container, name taken); or the call *)
(* is refused on the way; or it takes effect and the answer is lost.       *)

Goto(w, l) == pc' = [pc EXCEPT ![w] = l]

FaultPossible(w, kind) ==
  /\ kind \in FaultKinds
  /\ refused[w] + lost[w] < MaxFaults

\* Only pull_recreate's faults are counted: a container_action has two calls.
Counted(w, count) ==
  IF pc[w] \in Recreating THEN [count EXCEPT ![w] = @ + 1] ELSE count

Answered(w, accepted, after, onOk) ==
  /\ accepted
  /\ docker' = after
  /\ Goto(w, onOk)
  /\ UNCHANGED <<refused, lost>>

Rejected(w, accepted, onErr) ==
  /\ ~accepted
  /\ Goto(w, onErr)
  /\ UNCHANGED <<docker, refused, lost>>

Refused(w, onErr) ==
  /\ FaultPossible(w, "refused")
  /\ refused' = Counted(w, refused)
  /\ Goto(w, onErr)
  /\ UNCHANGED <<docker, lost>>

AnswerLost(w, accepted, after, onErr) ==
  /\ FaultPossible(w, "lost")
  /\ accepted
  /\ docker' = after
  /\ lost' = Counted(w, lost)
  /\ Goto(w, onErr)
  /\ UNCHANGED refused

Call(w, accepted, after, onOk, onErr) ==
  \/ Answered(w, accepted, after, onOk)
  \/ Rejected(w, accepted, onErr)
  \/ Refused(w, onErr)
  \/ AnswerLost(w, accepted, after, onErr)

\* What the daemon makes of the calls.  Stopping a stopped container and
\* starting a running one answer 304, which docker-py does not raise; a name
\* can be taken only if it is free, and renaming to the present name errors.
AfterStart(i)     == [docker EXCEPT ![i].status = "running"]
AfterStop(i)      == [docker EXCEPT ![i].status =
                        IF @ = "running" THEN "exited" ELSE @]
AfterRename(i, n) == [docker EXCEPT ![i].name = n]
AfterRemove(i)    == [docker EXCEPT ![i].status = "removed", ![i].name = 0]
CanRename(i, n)   == Exists(i) /\ Named(n) = {}

\* Reads change nothing, so a lost answer is a refusal.
Lookup(w, accepted, onOk, onErr) ==
  \/ Answered(w, accepted, docker, onOk)
  \/ Rejected(w, accepted, onErr)
  \/ Refused(w, onErr)

-----------------------------------------------------------------------------
(* Requests.  The container is chosen from a list the user was shown.      *)

Others(w) == Worker \ {w}

BeginRequest(w, i) ==
  /\ pc[w] = "idle"
  /\ Exists(i)
  /\ cid' = [cid EXCEPT ![w] = i]
  /\ UNCHANGED <<refused, lost>>

\* Whoever begins a write request disturbs every other one in flight.  A
\* pull_recreate starts calm if it is alone and at most its own container runs.
BeginRecreate(w, i) ==
  /\ BeginRequest(w, i)
  /\ calm' = [v \in Worker |-> /\ v = w
                               /\ \A u \in Others(w) : pc[u] = "idle"
                               /\ Running \subseteq {i}]
  /\ requests < MaxRequests
  /\ requests' = requests + 1
  /\ Goto(w, "inspect")
  /\ UNCHANGED <<daemon, verb, nm, pulled, repl, stale, wasUp>>

BeginAction(w, i, v) ==
  /\ BeginRequest(w, i)
  /\ calm' = [u \in Worker |-> FALSE]
  /\ Goto(w, "get")
  /\ verb' = [verb EXCEPT ![w] = v]
  /\ UNCHANGED <<daemon, nm, pulled, repl, stale, wasUp, requests>>

-----------------------------------------------------------------------------
(* container_action: look the container up, then do it.                    *)

\* Once the call is over the thread returns, and its locals are gone.
EndAction(w) ==
  /\ cid'  = IF pc'[w] = "idle" THEN [cid EXCEPT ![w] = First] ELSE cid
  /\ verb' = IF pc'[w] = "idle" THEN [verb EXCEPT ![w] = "start"] ELSE verb
  /\ UNCHANGED <<fixed, nm, pulled, repl, stale, wasUp, calm, requests>>

GetContainer(w) ==
  /\ pc[w] = "get"
  /\ Lookup(w, Exists(cid[w]), "act", "idle")
  /\ EndAction(w)

Act(w) ==
  /\ pc[w] = "act"
  /\ Call(w, Exists(cid[w]),
          IF verb[w] = "stop" THEN AfterStop(cid[w]) ELSE AfterStart(cid[w]),
          "idle", "idle")
  /\ EndAction(w)

-----------------------------------------------------------------------------
(* pull_recreate up to the point of no return.                             *)

\* `containers.get(cid)` and `images.get`: attrs are read once, here.
Inspect(w) ==
  /\ pc[w] = "inspect"
  /\ Lookup(w, Exists(cid[w]), "pull", "failed")
  /\ nm' = [nm EXCEPT ![w] = docker[cid[w]].name]
  /\ wasUp' = [wasUp EXCEPT ![w] = docker[cid[w]].status = "running"]
  /\ UNCHANGED <<fixed, verb, cid, pulled, repl, stale, calm, requests>>

\* `images.pull` of whatever the registry serves by now, and the digest
\* comparison: the request ends here when both digests are known and equal.
Pull(w) ==
  /\ pc[w] = "pull"
  /\ \E release \in latest..MaxRelease, digestsKnown \in BOOLEAN :
       LET same == digestsKnown /\ docker[cid[w]].image = release
       IN  /\ latest' = release
           /\ pulled' = [pulled EXCEPT ![w] = release]
           /\ Lookup(w, TRUE, IF same THEN "unchanged" ELSE "stop", "failed")
  /\ UNCHANGED <<rm, verb, cid, nm, repl, stale, wasUp, calm, requests>>

StopOld(w) ==
  /\ pc[w] = "stop"
  /\ Call(w, Exists(cid[w]), AfterStop(cid[w]), "rename", "failed")
  /\ UNCHANGED <<fixed, locals, calm, requests>>

\* (mutant) the old container is removed at once instead of kept as a backup
RenameOld_removes(w) ==
  /\ pc[w] = "rename"
  /\ Call(w, Exists(cid[w]), AfterRemove(cid[w]), "create", "restartOld")
  /\ UNCHANGED <<fixed, locals, calm, requests>>

\* (mutant) a failed rename just raises
RenameOld_justRaises(w) ==
  /\ pc[w] = "rename"
  /\ Call(w, CanRename(cid[w], BackupOf(nm[w])),
          AfterRename(cid[w], BackupOf(nm[w])), "create", "failed")
  /\ UNCHANGED <<fixed, locals, calm, requests>>

RenameOld(w) ==
  /\ pc[w] = "rename"
  /\ Call(w, CanRename(cid[w], BackupOf(nm[w])),
          AfterRename(cid[w], BackupOf(nm[w])), "create", "restartOld")
  /\ UNCHANGED <<fixed, locals, calm, requests>>

\* After a failed rename: start the original again, whatever comes of it.
RestartOld(w) ==
  /\ pc[w] = "restartOld"
  /\ Call(w, Exists(cid[w]), AfterStart(cid[w]), "failed", "failed")
  /\ UNCHANGED <<fixed, locals, calm, requests>>

-----------------------------------------------------------------------------
(* The replacement.                                                        *)

CreateNew(w) ==
  /\ pc[w] = "create"
  /\ \E i \in Id :
       /\ docker[i].status = "unborn"
       /\ Call(w, Named(nm[w]) = {},
               [docker EXCEPT ![i] = [status |-> "created", name |-> nm[w],
                                      image |-> pulled[w]]],
               "startNew", "findStale")
       /\ repl' = [repl EXCEPT ![w] = IF pc'[w] = "startNew" THEN {i} ELSE {}]
  /\ UNCHANGED <<fixed, verb, cid, nm, pulled, stale, wasUp, calm, requests>>

\* (mutant) a replacement that does not start is taken for an update
StartNew_ignoresFailure(w) ==
  /\ pc[w] = "startNew"
  /\ \E i \in repl[w] :
       Call(w, Exists(i), AfterStart(i), "removeBackup", "removeBackup")
  /\ UNCHANGED <<fixed, locals, calm, requests>>

\* `containers.get(created["Id"])` and `start`.  Extra networks are attached
\* next, best effort: a failure there is logged and changes nothing below.
StartNew(w) ==
  /\ pc[w] = "startNew"
  /\ \E i \in repl[w] :
       Call(w, Exists(i), AfterStart(i), "removeBackup", "findStale")
  /\ UNCHANGED <<fixed, locals, calm, requests>>

RemoveBackup(w) ==
  /\ pc[w] = "removeBackup"
  /\ Call(w, Exists(cid[w]), AfterRemove(cid[w]), "updated", "updated")
  /\ UNCHANGED <<fixed, locals, calm, requests>>

-----------------------------------------------------------------------------
(* The rollback: clear the name, then rename back and start in one `try`.  *)

\* (mutant) the rollback clears away the container it should restore
FindStale_takesOriginal(w) ==
  /\ pc[w] = "findStale"
  /\ Lookup(w, Named(nm[w]) # {}, "removeStale", "renameBack")
  /\ stale' = [stale EXCEPT ![w] = cid[w]]
  /\ UNCHANGED <<fixed, verb, cid, nm, pulled, repl, wasUp, calm, requests>>

FindStale(w) ==
  /\ pc[w] = "findStale"
  /\ Lookup(w, Named(nm[w]) # {}, "removeStale", "renameBack")
  /\ \/ Named(nm[w]) = {} /\ UNCHANGED stale
     \/ \E i \in Named(nm[w]) : stale' = [stale EXCEPT ![w] = i]
  /\ UNCHANGED <<fixed, verb, cid, nm, pulled, repl, wasUp, calm, requests>>

RemoveStale(w) ==
  /\ pc[w] = "removeStale"
  /\ Call(w, Exists(stale[w]), AfterRemove(stale[w]), "renameBack", "renameBack")
  /\ UNCHANGED <<fixed, locals, calm, requests>>

\* (mutant) rename and start each in a `try` of its own
RenameBack_startsAnyway(w) ==
  /\ pc[w] = "renameBack"
  /\ Call(w, CanRename(cid[w], nm[w]), AfterRename(cid[w], nm[w]),
          "startOld", "startOld")
  /\ UNCHANGED <<fixed, locals, calm, requests>>

RenameBack(w) ==
  /\ pc[w] = "renameBack"
  /\ Call(w, CanRename(cid[w], nm[w]), AfterRename(cid[w], nm[w]),
          "startOld", "failed")
  /\ UNCHANGED <<fixed, locals, calm, requests>>

StartOld(w) ==
  /\ pc[w] = "startOld"
  /\ Call(w, Exists(cid[w]), AfterStart(cid[w]), "failed", "failed")
  /\ UNCHANGED <<fixed, locals, calm, requests>>

\* The thread returns or raises, and its locals are gone.
Forget(W) ==
  /\ pc'      = [w \in Worker |-> IF w \in W THEN "idle" ELSE pc[w]]
  /\ verb'    = [w \in Worker |-> IF w \in W THEN "start" ELSE verb[w]]
  /\ cid'     = [w \in Worker |-> IF w \in W THEN First ELSE cid[w]]
  /\ nm'      = [w \in Worker |-> IF w \in W THEN 0 ELSE nm[w]]
  /\ pulled'  = [w \in Worker |-> IF w \in W THEN 0 ELSE pulled[w]]
  /\ repl'    = [w \in Worker |-> IF w \in W THEN {} ELSE repl[w]]
  /\ stale'   = [w \in Worker |-> IF w \in W THEN First ELSE stale[w]]
  /\ wasUp'   = [w \in Worker |-> w \notin W /\ wasUp[w]]
  /\ calm'    = [w \in Worker |-> w \notin W /\ calm[w]]
  /\ refused' = [w \in Worker |-> IF w \in W THEN 0 ELSE refused[w]]
  /\ lost'    = [w \in Worker |-> IF w \in W THEN 0 ELSE lost[w]]

Return(w) ==
  /\ pc[w] \in {"unchanged", "updated", "failed"}
  /\ Forget({w})
  /\ UNCHANGED <<daemon, requests>>

-----------------------------------------------------------------------------
(* What happens around the requests.                                       *)

\* The daemon removes an exited `--rm` container some time after it exits.
Reap(i) ==
  /\ rm
  /\ docker[i].status = "exited"
  /\ docker' = AfterRemove(i)
  /\ UNCHANGED <<fixed, pc, locals, history, requests>>

\* A container's main process ends by itself.
Exit(i) ==
  /\ docker[i].status = "running"
  /\ docker' = AfterStop(i)
  /\ calm' = [w \in Worker |-> FALSE]
  /\ UNCHANGED <<fixed, pc, locals, refused, lost, requests>>

\* The gateway process dies and restarts: no request survives it, and
\* nothing about it is remembered.
GatewayRestart ==
  /\ \E w \in Worker : pc[w] # "idle"
  /\ Forget(Worker)
  /\ UNCHANGED <<daemon, requests>>

Next ==
  \/ \E w \in Worker :
       \/ \E i \in Id : BeginRecreate(w, i)
       \/ \E i \in Id, v \in Verbs : BeginAction(w, i, v)
       \/ GetContainer(w) \/ Act(w)
       \/ Inspect(w) \/ Pull(w) \/ StopOld(w) \/ RenameOld(w) \/ RestartOld(w)
       \/ CreateNew(w) \/ StartNew(w) \/ RemoveBackup(w)
       \/ FindStale(w) \/ RemoveStale(w) \/ RenameBack(w) \/ StartOld(w)
       \/ Return(w)
  \/ \E i \in Id : Reap(i) \/ Exit(i)
  \/ GatewayRestart

Spec == Init /\ [][Next]_vars

-----------------------------------------------------------------------------
(* Properties.                                                             *)

\* Two updates of the same container, however they overlap with each other
\* and with starts and stops, fail and are cut off by restarts, leave a copy
\* of it: they never force-remove both the original and the replacement
\* (docker_hosts.py:527-562).  A third one can (RollbackSparesOriginal).
SomeCopySurvives == ~rm /\ requests <= 2 => \E i \in Id : Exists(i)

\* While one undisturbed pull_recreate is at work, the original and the
\* replacement, which share volumes and ports, never run at the same time,
\* whatever calls fail: the rollback renames before it starts (541-544).
OneInstance ==
  \A w \in Worker :
    pc[w] \in Recreating /\ calm[w] => Cardinality(Running) <= 1

\* Until the replacement has been started, the original is still there,
\* under its own name or the backup name a log line can name: a crash or a
\* failed rollback can be repaired by hand (545-551).
OriginalRecoverable ==
  \A w \in Worker :
    /\ pc[w] \in Recreating \ {"inspect", "removeBackup", "updated"}
    /\ calm[w] /\ ~rm
    => /\ Exists(cid[w])
       /\ docker[cid[w]].name \in {nm[w], BackupOf(nm[w])}

\* A single refused call rolls back: the original runs again under its name,
\* and nothing of the replacement is left (527-552).  A backup left over from
\* an earlier request would be a second failure: its name refuses the rename.
RollbackRestores ==
  \A w \in Worker :
    /\ pc[w] = "failed" /\ calm[w] /\ wasUp[w] /\ ~rm
    /\ lost[w] = 0 /\ refused[w] <= 1
    /\ Named(BackupOf(nm[w])) \subseteq {cid[w]}
    => /\ docker[cid[w]].status = "running"
       /\ docker[cid[w]].name = nm[w]
       /\ \A i \in repl[w] : ~Exists(i)

\* "updated" is reported only when the replacement runs the pulled image
\* under the original name, and the old container is gone or stopped under
\* its backup name (553-562).
UpdateIsReal ==
  \A w \in Worker :
    pc[w] = "updated" /\ calm[w] =>
      /\ \E i \in repl[w] : docker[i] = [status |-> "running", name |-> nm[w],
                                         image |-> pulled[w]]
      /\ Exists(cid[w]) => docker[cid[w]].name = BackupOf(nm[w])

\* The docstring (450-453): a rollback removes "whatever partial replacement
\* exists", so never the original that it is about to restore.
RollbackSparesOriginal ==
  \A w \in Worker : pc[w] = "removeStale" => stale[w] # cid[w]

\* The docstring's claim (441-443): ANY failure after the old container is
\* stopped rolls back "instead of leaving the host with neither the old nor
\* the new one running".
FailureLeavesOneRunning ==
  \A w \in Worker :
    pc[w] = "failed" /\ calm[w] /\ wasUp[w] => Running # {}

=============================================================================
