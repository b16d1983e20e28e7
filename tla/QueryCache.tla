----------------------------- MODULE QueryCache -----------------------------
(***************************************************************************)
(* One entry of the browser's query cache, as the pages use it: TanStack   *)
(* Query 5, a library.  An entry holds the last data, and at most one      *)
(* fetch.  What a page does to an entry is one operator here; the pages'   *)
(* modules say when.                                                       *)
(*                                                                         *)
(* The two rules that bite: a refetch does not replace a fetch that is     *)
(* still bringing the entry's first data, it joins it; and any data that   *)
(* arrives or is written clears the mark an invalidation left.             *)
(***************************************************************************)

CONSTANT NoData

Idle    == "idle"
Asked   == "asked"      \* the server has not answered yet

Empty == [data |-> NoData, fetch |-> Idle, answer |-> NoData,
          invalid |-> FALSE, failed |-> FALSE]

Queries(Data) ==
    [data    : Data \cup {NoData},
     fetch   : {Idle, Asked, "answered"},
     answer  : Data \cup {NoData},
     invalid : BOOLEAN,
     failed  : BOOLEAN]

Loaded(q)   == q.data # NoData
Fetching(q) == q.fetch # Idle

Restart(q) == [q EXCEPT !.fetch = Asked, !.answer = NoData,
                        !.failed = @ /\ Loaded(q)]

(* A poll, a focus, an observer that finds the data old.                   *)
Fetch(q) == IF Fetching(q) THEN q ELSE Restart(q)

(* A component starts to watch the entry: it fetches what is missing,      *)
(* marked, or older than the stale time.                                   *)
Observe(q, old) == IF ~Loaded(q) \/ q.invalid \/ old THEN Fetch(q) ELSE q

(* The last component stops watching: a fetch that listens to its abort    *)
(* signal ends and leaves the entry as it was.                             *)
Cancel(q) == [q EXCEPT !.fetch = Idle, !.answer = NoData]

(* invalidateQueries: the entry is marked, and refetched if it is watched. *)
Marked(q) == [q EXCEPT !.invalid = TRUE]

Invalidate(q, watched) ==
    IF ~watched THEN Marked(q)
    ELSE IF Loaded(q) THEN Restart(Marked(q)) ELSE Fetch(Marked(q))

(* setQueryData: an entry without data stays without.                      *)
Write(q, data) ==
    IF ~Loaded(q) \/ data = NoData THEN q
    ELSE [q EXCEPT !.data = data, !.invalid = FALSE, !.failed = FALSE]

(* The server reads, the answer travels back, or the fetch fails for good. *)
Answer(q, value) == [q EXCEPT !.fetch = "answered", !.answer = value]

CanArrive(q) == q.fetch = "answered"
Arrive(q) == [q EXCEPT !.data = q.answer, !.fetch = Idle, !.answer = NoData,
                       !.invalid = FALSE, !.failed = FALSE]

Fail(q) == [q EXCEPT !.fetch = Idle, !.answer = NoData, !.failed = TRUE]
=============================================================================
