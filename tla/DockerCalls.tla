----------------------------- MODULE DockerCalls -----------------------------
(***************************************************************************)
(* DockerService._call (docker_hosts.py): every blocking docker-py call of *)
(* the gateway runs in a thread, under one permit of the global semaphore  *)
(* and then one of its host's.  The task takes the global permit first and *)
(* keeps it while it queues for the host.                                  *)
(***************************************************************************)
EXTENDS AsyncSemaphore

CONSTANTS
  Task,    \* the tasks that serve requests
  Host,    \* the configured Docker hosts
  Global,  \* GLOBAL_CONCURRENCY
  PerHost  \* PER_HOST_CONCURRENCY

ASSUME CallsAssumption ==
  /\ IsFiniteSet(Task)
  /\ Host # {}
  /\ Global \in Nat \ {0}
  /\ PerHost \in Nat \ {0}

VARIABLES
  pc,      \* where each task is
  host,    \* the host its call goes to
  global,  \* _global_semaphore
  hosts    \* _host_semaphores

callVars == <<pc, host, global, hosts>>

\* "thread": handed to asyncio.to_thread; "answered": the daemon has served
\* the call and the thread is on its way back to the event loop; "reply": the
\* handler has its result.
Places == {"idle", "globalQueue", "hostQueue", "thread", "answered", "reply"}

HoldsGlobal(t) == pc[t] \in {"hostQueue", "thread", "answered"}
HoldsHost(t)   == pc[t] \in {"thread", "answered"}

CallsTypeOK ==
  /\ pc \in [Task -> Places]
  /\ host \in [Task -> Host]
  /\ global \in Semaphores(Task)
  /\ hosts \in [Host -> Semaphores(Task)]

\* A task between requests remembers nothing; AnyHost stands for its host.
AnyHost == CHOOSE h \in Host : TRUE

CallsInit ==
  /\ pc = [t \in Task |-> "idle"]
  /\ host = [t \in Task |-> AnyHost]
  /\ global = NewSemaphore(Global)
  /\ hosts = [h \in Host |-> NewSemaphore(PerHost)]

\* `async with self._host_semaphores[host_id]`, once the global permit is held.
AcquireHost(t, h) ==
  IF Locked(hosts[h])
    THEN /\ hosts' = [hosts EXCEPT ![h] = Wait(@, t)]
         /\ pc' = [pc EXCEPT ![t] = "hostQueue"]
    ELSE /\ hosts' = [hosts EXCEPT ![h] = Take(@)]
         /\ pc' = [pc EXCEPT ![t] = "thread"]

\* (mutant) the global cap is not asked for
Enter_neverWaits(t, h) ==
  /\ pc[t] = "idle"
  /\ host' = [host EXCEPT ![t] = h]
  /\ global' = Take(global)
  /\ AcquireHost(t, h)

\* `async with self._global_semaphore`: an uncontended acquire does not yield,
\* so the task goes straight on to the host's semaphore.
Enter(t, h) ==
  /\ pc[t] = "idle"
  /\ host' = [host EXCEPT ![t] = h]
  /\ IF Locked(global)
       THEN /\ global' = Wait(global, t)
            /\ pc' = [pc EXCEPT ![t] = "globalQueue"]
            /\ UNCHANGED hosts
       ELSE /\ global' = Take(global)
            /\ AcquireHost(t, h)

ResumeGlobal(t) ==
  /\ t \in global.granted
  /\ global' = Resume(global, t)
  /\ AcquireHost(t, host[t])
  /\ UNCHANGED host

ResumeHost(t) ==
  /\ t \in hosts[host[t]].granted
  /\ hosts' = [hosts EXCEPT ![host[t]] = Resume(@, t)]
  /\ pc' = [pc EXCEPT ![t] = "thread"]
  /\ UNCHANGED <<host, global>>

\* The thread's call ends, one way or the other.
Answer(t) ==
  /\ pc[t] = "thread"
  /\ pc' = [pc EXCEPT ![t] = "answered"]
  /\ UNCHANGED <<host, global, hosts>>

\* (mutant) the host's permit is not given back
Leave_keepsHost(t) ==
  /\ pc[t] = "answered"
  /\ global' = Release(global)
  /\ pc' = [pc EXCEPT ![t] = "reply"]
  /\ UNCHANGED <<host, hosts>>

\* (mutant) the global permit is not given back
Leave_keepsGlobal(t) ==
  /\ pc[t] = "answered"
  /\ hosts' = [hosts EXCEPT ![host[t]] = Release(@)]
  /\ pc' = [pc EXCEPT ![t] = "reply"]
  /\ UNCHANGED <<host, global>>

\* (mutant) the counter goes up and nobody is woken
Leave_wakesNobody(t) ==
  /\ pc[t] = "answered"
  /\ hosts' = [hosts EXCEPT ![host[t]].free = @ + 1]
  /\ global' = Release(global)
  /\ pc' = [pc EXCEPT ![t] = "reply"]
  /\ UNCHANGED host

\* Both `async with` blocks are left in one go, the host's first.
Leave(t) ==
  /\ pc[t] = "answered"
  /\ hosts' = [hosts EXCEPT ![host[t]] = Release(@)]
  /\ global' = Release(global)
  /\ pc' = [pc EXCEPT ![t] = "reply"]
  /\ UNCHANGED host

\* A request that needs no call has its result at once.
NoCall(t, h) ==
  /\ pc[t] = "idle"
  /\ host' = [host EXCEPT ![t] = h]
  /\ pc' = [pc EXCEPT ![t] = "reply"]
  /\ UNCHANGED <<global, hosts>>

Done(t) ==
  /\ pc[t] = "reply"
  /\ pc' = [pc EXCEPT ![t] = "idle"]
  /\ host' = [host EXCEPT ![t] = AnyHost]
  /\ UNCHANGED <<global, hosts>>

CallsNext ==
  \E t \in Task :
    \/ \E h \in Host : Enter(t, h) \/ NoCall(t, h)
    \/ ResumeGlobal(t) \/ ResumeHost(t) \/ Answer(t) \/ Leave(t) \/ Done(t)

CallsSafety == CallsInit /\ [][CallsNext]_callVars

\* The event loop runs every ready task, and docker-py's timeouts end every
\* call; nobody has to send requests.
CallsFairness ==
  \A t \in Task :
    /\ WF_callVars(ResumeGlobal(t)) /\ WF_callVars(ResumeHost(t))
    /\ WF_callVars(Answer(t)) /\ WF_callVars(Leave(t))

CallsSpec == CallsSafety /\ CallsFairness

-----------------------------------------------------------------------------
(* Properties.                                                             *)

Holders      == {t \in Task : HoldsGlobal(t)}
HoldersOf(h) == {t \in Task : HoldsHost(t) /\ host[t] = h}

\* No permit is ever lost or invented: the counter, the permits handed to
\* waiters that have not run yet and those in use add up to the capacity.
PermitsConserved ==
  /\ global.free + Cardinality(global.granted)
       + Cardinality(Holders) = Global
  /\ \A h \in Host :
       hosts[h].free + Cardinality(hosts[h].granted)
         + Cardinality(HoldersOf(h)) = PerHost

\* The two caps of docker_hosts.py:38-42 bound the threads in docker-py.
CapsHold ==
  /\ Cardinality(Holders) <= Global
  /\ \A h \in Host : Cardinality(HoldersOf(h)) <= PerHost

\* No wakeup is lost: somebody is left queueing only while every permit is
\* in use, or a woken task that will pass the rest on is about to run.
NoLostWakeup ==
  /\ global.queue # <<>> => global.free = 0 \/ global.granted # {}
  /\ \A h \in Host :
       hosts[h].queue # <<>> => hosts[h].free = 0 \/ hosts[h].granted # {}

\* No deadlock between the two semaphores (docker_hosts.py:1064-1073): a task that
\* queues will be found by whoever gives a permit back, and meanwhile a task it
\* waits for can go on, at its own host if that is where it queues.
Waiters(s)  == {s.queue[n] : n \in 1..Len(s.queue)}
Proceeds(t) == t \in global.granted \/ t \in hosts[host[t]].granted \/ HoldsHost(t)

SomeCallProceeds ==
  \A t \in Task :
    /\ pc[t] = "globalQueue" =>
         /\ t \in Waiters(global) \cup global.granted
         /\ \E u \in Task : Proceeds(u)
    /\ pc[t] = "hostQueue" =>
         /\ t \in Waiters(hosts[host[t]]) \cup hosts[host[t]].granted
         /\ \E u \in Task : host[u] = host[t] /\ Proceeds(u)

\* Every call that queues for a permit gets its thread: the two semaphores,
\* always taken in the same order and served first come first, neither
\* deadlock nor starve a caller.
EveryCallRuns ==
  \A t \in Task : pc[t] \in {"globalQueue", "hostQueue"} ~> pc[t] = "thread"

\* The comment at docker_hosts.py:38-40: with a per-host cap "a slow/overloaded
\* host can't starve the others", so no call waits for a global permit while a
\* single other host holds all of them.
SlowHostCannotStarve ==
  \A t \in Task, h \in Host :
    pc[t] = "globalQueue" /\ host[t] # h /\ PerHost < Global
      => \E u \in Task : (HoldsGlobal(u) \/ u \in global.granted) /\ host[u] # h
=============================================================================
