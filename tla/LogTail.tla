------------------------------- MODULE LogTail -------------------------------
(***************************************************************************)
(* The log tab of a container (use-docker-logs.ts, ContainerDetailPanel):  *)
(* a history load replaces the buffer, and live polls ask for what is      *)
(* newer than the cursor and merge it in.  The gateway reads stdout and    *)
(* stderr one after the other (docker_hosts.py), while the container goes  *)
(* on writing.  Time is the number of lines written; any request may be    *)
(* slow or fail.                                                           *)
(***************************************************************************)
EXTENDS Integers, Sequences, FiniteSets, FiniteSetsExt, SequencesExt

CONSTANTS
  Writes,    \* the containers, and the streams each writes to
  MaxTime,   \* bound: lines written altogether
  Polls,     \* the polls that may be in flight at a time
  LogsTail,  \* LOGS_TAIL
  Cap        \* DOCKER_LOG_BUFFER_CAP

Container == DOMAIN Writes
Stream    == {"stdout", "stderr"}

TailAssumption ==
  /\ \A c \in Container : Writes[c] \in SUBSET Stream
  /\ MaxTime \in Nat \ {0} /\ LogsTail \in Nat \ {0} /\ Cap \in Nat \ {0}

VARIABLES
  log,     \* per time the line written: its container and stream
  target,  \* the container whose panel is open
  range,   \* the range picked: everything up to a time, or Live
  load,    \* the history load of the panel, or Nothing
  poll,    \* the polls of the panel in flight
  lines,   \* the buffer: times of lines
  cursor,  \* cursorRef, 0 for null
  from     \* history: the first time the load covered; 0 before it has answered,
           \*  and when it has with polls under way that began before it did

vars == <<log, target, range, load, poll, lines, cursor, from>>

Live  == 0
Now   == Len(log)
Times == 1..MaxTime

\* A request: the lines it asks for, the streams still to be read, and what
\* has been read.
Nothing == [left |-> <<>>]
Request == [left : {<<"stdout", "stderr">>, <<"stderr">>, <<>>},
            since : Times \cup {0, MaxTime + 1}, until : Times,
            tail : {LogsTail, MaxTime}, got : SUBSET Times]

TypeOK ==
  /\ log \in Seq([by : Container, to : Stream]) /\ Now <= MaxTime
  /\ \A t \in 1..Now : log[t].to \in Writes[log[t].by]
  /\ target \in Container
  /\ range \in Times \cup {Live}
  /\ load \in Request \cup {Nothing}
  /\ poll \in [Polls -> Request \cup {Nothing}]
  /\ lines \in Seq(Times) /\ Len(lines) <= Cap
  /\ cursor \in 0..MaxTime + 1 /\ from \in 0..MaxTime

Ask(since, until, tail) ==
  [left |-> <<"stdout", "stderr">>, since |-> since, until |-> until, tail |-> tail, got |-> {}]

History(r) == Ask(0, IF r = Live THEN MaxTime ELSE r, LogsTail)
Idle == [k \in Polls |-> Nothing]

Init ==
  /\ log = <<>> /\ target \in Container /\ range = Live
  /\ load = History(Live) /\ poll = Idle
  /\ lines = <<>> /\ cursor = 0 /\ from = 0

\* A container writes a line.
Write(c, s) ==
  /\ Now < MaxTime /\ s \in Writes[c]
  /\ log' = Append(log, [by |-> c, to |-> s])
  /\ UNCHANGED <<target, range, load, poll, lines, cursor, from>>

-----------------------------------------------------------------------------
(* DockerHostClient.logs: one call for each stream, which answers its last *)
(* `tail` lines from `since` to `until`.                                   *)
On(s) == {t \in 1..Now : log[t].by = target /\ log[t].to = s}
NewestOf(T, n) == {t \in T : Cardinality({u \in T : u > t}) < n}

Read(q) ==
  LET asked == {t \in On(Head(q.left)) : q.since <= t /\ t <= q.until}
  IN  [q EXCEPT !.left = Tail(@), !.got = @ \cup NewestOf(asked, q.tail)]

ServeLoad ==
  /\ load.left # <<>> /\ load' = Read(load)
  /\ UNCHANGED <<log, target, range, poll, lines, cursor, from>>

ServePoll(k) ==
  /\ poll[k].left # <<>> /\ poll' = [poll EXCEPT ![k] = Read(@)]
  /\ UNCHANGED <<log, target, range, load, lines, cursor, from>>

\* _parse_log_lines: the i-th line has i - 1 before it.
Sorted(T) ==
  [i \in 1..Cardinality(T) |-> CHOOSE t \in T : Cardinality({u \in T : u < t}) = i - 1]
CursorOf(T) == IF T = {} THEN 0 ELSE Max(T) + 1

-----------------------------------------------------------------------------
(* The hook's two effects.                                                 *)

\* Another container, or another range: the load and the polls under way are
\* cancelled and a new load begins; buffer and cursor stay until it answers.
Show(c, r) ==
  /\ <<c, r>> # <<target, range>> /\ r <= Now
  /\ target' = c /\ range' = r
  /\ load' = History(r) /\ poll' = Idle /\ from' = 0
  /\ UNCHANGED <<log, lines, cursor>>

Loaded ==
  /\ load # Nothing /\ load.left = <<>>
  /\ lines' = Sorted(NewestOf(load.got, Cap))
  /\ cursor' = CursorOf(load.got)
  /\ from' = IF poll # Idle THEN 0
             ELSE Max({1} \cup {Min(load.got \cap On(s)) :
                    s \in {s \in Stream : Cardinality(load.got \cap On(s)) = load.tail}})
  /\ load' = Nothing
  /\ UNCHANGED <<log, target, range, poll>>

LoadFails ==
  /\ load # Nothing /\ load' = Nothing
  /\ UNCHANGED <<log, target, range, poll, lines, cursor, from>>

Poll(k, since) ==
  /\ range = Live /\ poll[k] = Nothing
  /\ poll' = [poll EXCEPT ![k] = Ask(since, MaxTime, MaxTime)]
  /\ UNCHANGED <<log, target, range, load, lines, cursor, from>>

\* (mutant) the cursor, which is the next time already, is counted up
Tick_next(k) == \E since \in {cursor + 1, cursor} \cap Times : Poll(k, since)

\* Every 2.5 s, whether or not the load or the poll before has answered.  The
\* cursor is a nanosecond, `since` the millisecond it is in.
Tick(k) == \E since \in {cursor, cursor - 1} \cap Nat : Poll(k, since)

\* mergeLogLines
Merged(new) ==
  LET all == lines \o Sorted(new \ ToSet(lines))
  IN  IF Len(all) > Cap THEN SubSeq(all, Len(all) - Cap + 1, Len(all)) ELSE all

Polled(k) ==
  /\ poll[k] # Nothing /\ poll[k].left = <<>>
  /\ lines' = Merged(poll[k].got)
  /\ cursor' = IF poll[k].got = {} THEN cursor ELSE CursorOf(poll[k].got)
  /\ poll' = [poll EXCEPT ![k] = Nothing]
  /\ UNCHANGED <<log, target, range, load, from>>

PollFails(k) ==
  /\ poll[k] # Nothing /\ poll' = [poll EXCEPT ![k] = Nothing]
  /\ UNCHANGED <<log, target, range, load, lines, cursor, from>>

Next ==
  \/ \E c \in Container : \/ \E s \in Stream : Write(c, s)
                          \/ \E r \in Times \cup {Live} : Show(c, r)
  \/ ServeLoad \/ Loaded \/ LoadFails
  \/ \E k \in Polls : ServePoll(k) \/ Tick(k) \/ Polled(k) \/ PollFails(k)

Spec == Init /\ [][Next]_vars

-----------------------------------------------------------------------------
(* Properties.                                                             *)

\* Once the history of what is shown has loaded, and as long as the buffer has
\* room, it holds every line between the oldest one loaded and the cursor, the
\* lines no poll will ask for again.  docker_hosts.py:290-298 says that reading
\* the streams by two calls "costs one extra round trip and nothing else"; it
\* costs lines: what is written to stdout between the two calls, before a line
\* that the second one sees, is never asked for again.
NoLineSkipped ==
  (from > 0 /\ Len(lines) < Cap)
    => \A t \in from..cursor - 1 : log[t].by = target => t \in ToSet(lines)

\* The panel turns the buffer over for display, "the buffer itself stays
\* chronological" (ContainerDetailPanel.tsx:343-344).  It does not when a poll
\* answers after a load that it was not started from, or when an older poll
\* answers again with lines that a full buffer has dropped.
BufferChronological == \A i, j \in DOMAIN lines : i < j => lines[i] < lines[j]

OneStream == Cardinality(Writes[target]) = 1

\* Both do hold for a container that writes to one stream only, unless polls
\* were under way when the load answered, and as long as the buffer has room:
\* however polls overlap and whatever is shown and fails in between
\* (use-docker-logs.ts:52-106, docker.ts:360-376, docker_hosts.py:276-314,
\* 892-937).
OneStreamIsWhole ==
  (from > 0 /\ OneStream /\ Len(lines) < Cap) => NoLineSkipped /\ BufferChronological

\* Why: lines, loads and polls hold every line written from some time on up to
\* their newest one, and a poll begins where the buffer ends or before.
Written == {t \in 1..Now : log[t].by = target}
Unbroken(T, a) ==
  /\ T \subseteq Written
  /\ \A g \in T : \A t \in Written : a <= t /\ t <= g => t \in T

LoadWhole ==
  /\ load.since = 0
  /\ \A g \in load.got : Unbroken(load.got, g)
  /\ Cardinality(load.got) <= load.tail
  /\ Cardinality(load.got) < load.tail => Unbroken(load.got, 0)
  /\ (\E n \in DOMAIN load.left : load.left[n] \in Writes[target]) => load.got = {}

PollWhole(q) ==
  /\ Unbroken(q.got, q.since) /\ \A g \in q.got : from <= g
  /\ (from <= q.since \/ from = 1) /\ q.since <= Now + 1
  /\ \A t \in Written : from <= t /\ t < q.since => t \in ToSet(lines)

BufferWhole ==
  /\ BufferChronological
  /\ Unbroken(ToSet(lines), from) /\ \A t \in ToSet(lines) : from <= t
  /\ cursor - 1 \in ToSet(lines) \/ (cursor = 0 /\ from = 1)
  /\ \A k \in Polls : poll[k] # Nothing => PollWhole(poll[k])

WholeInv ==
  /\ load # Nothing => LoadWhole
  /\ from > 0 /\ Len(lines) < Cap => BufferWhole

\* Nothing is covered while a load is under way, and a poll asks for everything.
RequestsInv ==
  /\ load # Nothing => from = 0
  /\ \A k \in Polls : poll[k] # Nothing => poll[k].tail = MaxTime /\ poll[k].until = MaxTime

TailInv == TypeOK /\ RequestsInv /\ (OneStream => WholeInv)
=============================================================================
