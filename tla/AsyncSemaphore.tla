--------------------------- MODULE AsyncSemaphore ---------------------------
(***************************************************************************)
(* asyncio.Semaphore as the gateway uses it (CPython 3.12): a counter, a   *)
(* FIFO of waiters whose future is not done yet, and the waiters that were *)
(* handed a permit but have not run again.  A permit is taken off the      *)
(* counter when it is handed over, and newcomers queue behind both.        *)
(***************************************************************************)
EXTENDS Naturals, Sequences, FiniteSets

Semaphores(T) == [free : Nat, queue : Seq(T), granted : SUBSET T]

NewSemaphore(n) == [free |-> n, queue |-> <<>>, granted |-> {}]

\* Semaphore.locked(): no permit left, or somebody is still to be served.
Locked(s) == s.free = 0 \/ s.queue # <<>> \/ s.granted # {}

Take(s)    == [s EXCEPT !.free = @ - 1]
Wait(s, t) == [s EXCEPT !.queue = Append(@, t)]

\* The first n waiters are handed a permit each.
Served(q, n) == {q[j] : j \in 1..n}

Serve(s, n) ==
  [free    |-> s.free - n,
   queue   |-> SubSeq(s.queue, n + 1, Len(s.queue)),
   granted |-> s.granted \cup Served(s.queue, n)]

AtMost(n, m) == IF n <= m THEN n ELSE m

\* release(): one permit back, one waiter woken.
Release(s) == Serve([s EXCEPT !.free = @ + 1], AtMost(1, Len(s.queue)))

\* The end of acquire() for a woken waiter: it leaves the queue, and as many
\* others are woken as there are permits, because newcomers queued behind it.
Resume(s, t) ==
  Serve([s EXCEPT !.granted = @ \ {t}], AtMost(s.free, Len(s.queue)))
=============================================================================
