---------------------------- MODULE GraylogSearch ----------------------------
(***************************************************************************)
(* GraylogService.search (graylog.py): one page of a log search that fans  *)
(* out to several Graylog servers, merges by time, collapses the copies a  *)
(* host shipped to more than one server, and cuts the page.  The user      *)
(* turns the pages of LogsPage; any server may fail to answer any search.  *)
(* A message is a line (its content identity), a time and its place in one *)
(* server's log; a row is the set of the copies it stands for.  What is    *)
(* sorted is a set with its order; queries and formatting are left out.    *)
(***************************************************************************)
EXTENDS Integers, Sequences, FiniteSets

CONSTANTS
  Server,   \* the configured servers, in the order of GRAYLOG_SERVERS
  Line,     \* content identities (_dedupe_key)
  MaxTime,  \* bound: message times are 0..MaxTime
  MaxLog,   \* bound: messages one server holds
  MaxPage,  \* bound: the last page the user turns to
  Limit,    \* rows per page
  Pad,      \* DEDUP_FETCH_PAD
  Cap,      \* MAX_DEDUP_FETCH
  Window    \* log_dedup_window_seconds

SearchAssumption ==
  /\ Server \in Seq(STRING) /\ Server # <<>>
  /\ {MaxTime, MaxLog, Pad, Window, Cap} \subseteq Nat
  /\ {MaxPage, Limit} \subseteq Nat \ {0} /\ Cap >= Limit

VARIABLES
  log,     \* what each server holds, newest first; fixed for one time range
  dedupe,  \* the page's toggle, and the gateway's flag
  page,    \* the page shown, 0 before the first search
  failed,  \* the servers that did not answer the search for it
  shown,   \* its rows
  before   \* the rows of the page before it, if the user came from there

vars == <<log, dedupe, page, failed, shown, before>>

Message == [ts : 0..MaxTime, line : Line]
Newest(s) == \A i, j \in DOMAIN s : i <= j => s[i].ts >= s[j].ts
Logs == {s \in UNION {[1..n -> Message] : n \in 0..MaxLog} : Newest(s)}

\* A message as the gateway gets it, tagged with where it is stored.
Stored(s, i) == [ts |-> log[s][i].ts, line |-> log[s][i].line, srv |-> s, at |-> i]

\* The servers that answer, each from the same offset, in one merge.
Answer(s, limit, offset) ==
  {Stored(s, i) : i \in {i \in DOMAIN log[s] : offset < i /\ i <= offset + limit}}

Fetch(down, limit, offset) == UNION {Answer(s, limit, offset) : s \in DOMAIN log \ down}

\* The oldest time of every answer that was cut off at `limit'.
Cutoffs(down, limit) ==
  {log[s][limit].ts : s \in {s \in DOMAIN log \ down : Len(log[s]) >= limit}}

\* Newest first.  Python's sort is stable: equal times keep the order of the
\* servers, and that of each server's answer.
Before(m, n) ==
  \/ m.ts > n.ts
  \/ m.ts = n.ts /\ (m.srv < n.srv \/ (m.srv = n.srv /\ m.at < n.at))

Nth(ms, n) == CHOOSE m \in ms : Cardinality({k \in ms : Before(k, m)}) = n - 1

\* The anchor of a row and its representative, the last that joined.
First(row) == CHOOSE m \in row : \A n \in row \ {m} : Before(m, n)
Last(row)  == CHOOSE m \in row : \A n \in row \ {m} : Before(n, m)

\* Rows by the time they show, else in the order in which they were begun.
Above(r, q) ==
  \/ Last(r).ts > Last(q).ts
  \/ Last(r).ts = Last(q).ts /\ Before(First(r), First(q))

-----------------------------------------------------------------------------
(* dedupe_messages: a message joins the first row with its line that has   *)
(* no copy from its server and whose newest member is within the window.   *)
Join_anyTime(rows, m) ==  \* (mutant) the window is not looked at
  LET fits  == {r \in rows : First(r).line = m.line /\ \A c \in r : c.srv # m.srv}
      match == CHOOSE r \in fits : \A q \in fits \ {r} : Before(First(r), First(q))
  IN  IF fits = {} THEN rows \cup {{m}} ELSE (rows \ {match}) \cup {match \cup {m}}

Join(rows, m) ==
  LET fits  == {r \in rows : /\ First(r).line = m.line /\ \A c \in r : c.srv # m.srv
                             /\ First(r).ts - m.ts <= Window}
      match == CHOOSE r \in fits : \A q \in fits \ {r} : Before(First(r), First(q))
  IN  IF fits = {} THEN rows \cup {{m}} ELSE (rows \ {match}) \cup {match \cup {m}}

Deduped(ms) ==
  LET rows[n \in 0..Cardinality(ms)] ==
        IF n = 0 THEN {} ELSE Join(rows[n - 1], Nth(ms, n))
  IN  rows[Cardinality(ms)]

Rows(ms) == {{m} : m \in ms}

\* The messages every answer covers: those at or above the watermark.
Covered(ms, cutoffs) == {m \in ms : \A c \in cutoffs : m.ts >= c + Window}

\* The covered rows fill the page, or nothing was cut off.
Enough(down, need, limit) ==
  \/ Cutoffs(down, limit) = {}
  \/ Cardinality(Deduped(Covered(Fetch(down, limit, 0), Cutoffs(down, limit)))) >= need

\* The loop doubles the fetch until it is enough, and stops at the cap; other
\* servers may fail in each round, and if all do there is no page.
Tried(need) == {l \in 1..Cap : l = Cap \/ \E k \in 0..Cap : l = (need + Pad) * 2^k}

Final(down, need) ==
  {l \in Tried(need) :
     /\ l = Cap \/ Enough(down, need, l)
     /\ \A k \in Tried(need) : k < l =>
          \E d \in SUBSET DOMAIN log \ {DOMAIN log} : ~Enough(d, need, k)}

\* What the last round gives; at the cap, all it has fetched.
Merged(down, need, limit) ==
  LET ms == Fetch(down, limit, 0)
  IN  IF Enough(down, need, limit) THEN Deduped(Covered(ms, Cutoffs(down, limit))) ELSE Deduped(ms)

Cut(rows, offset) ==
  {r \in rows : Cardinality({q \in rows : Above(q, r)}) \in offset..offset + Limit - 1}

(* search(): the page at `offset`, when not every server is down.          *)
Pages(p, down) ==
  LET offset == (p - 1) * Limit
      need   == offset + Limit
  IN  IF dedupe /\ Len(Server) > 1
      THEN {Cut(Merged(down, need, l), offset) : l \in Final(down, need)}
      ELSE {Cut(Rows(Fetch(down, Limit, offset)), 0)}

-----------------------------------------------------------------------------
Init ==
  /\ log \in [1..Len(Server) -> Logs]
  /\ dedupe \in BOOLEAN
  /\ page = 0 /\ failed = {} /\ shown = {} /\ before = {}

(* The user goes to page p; every server of `down` fails, and if all do    *)
(* the search is a 502 and the page keeps what it showed.                  *)
Turn(p, down) ==
  /\ down # DOMAIN log
  /\ page' = p
  /\ failed' = down
  /\ shown' \in Pages(p, down)
  /\ before' = IF p = page + 1 /\ down = failed THEN shown ELSE {}
  /\ UNCHANGED <<log, dedupe>>

Next == \E p \in {1, page + 1} \cap 1..MaxPage, down \in SUBSET DOMAIN log : Turn(p, down)

Spec == Init /\ [][Next]_vars

-----------------------------------------------------------------------------
(* Properties.                                                             *)

\* The rows of a page, and those of the page before it, are of messages that the
\* servers which answered hold (graylog.py:436-507).
TypeOK ==
  /\ log \in [1..Len(Server) -> Logs]
  /\ dedupe \in BOOLEAN /\ page \in 0..MaxPage
  /\ failed \in SUBSET DOMAIN log /\ failed # DOMAIN log
  /\ \A r \in shown \cup before : r # {} /\ r \subseteq Fetch(failed, MaxLog, 0)

\* Turning the pages goes back in time: no row of a page is newer than one of
\* the page before it.  docs/logs.md:39-41 and the docstring of search say so
\* of every search; with deduplication the code breaks it, since a page that
\* cannot be filled falls back to a different set of rows (470-507).
PagesDescend == \A r \in before, q \in shown : Last(r).ts >= Last(q).ts

\* Without deduplication it does hold, and no message is shown on two pages:
\* every server skips the same offset, and stable sorting keeps each server's
\* order (467-468).
PlainPagesDescend ==
  ~dedupe => PagesDescend /\ \A r \in before, q \in shown : r \cap q = {}

\* On one page deduplication neither merges too much nor too little: the copies
\* of a row are one line within the window and a server has one at most, no
\* message is in two rows, and no two rows could still be merged (150-205).
MergeSound ==
  /\ \A r \in shown : \A m, n \in r :
       m.line = n.line /\ m.ts - n.ts <= Window /\ (m.srv = n.srv => m = n)
  /\ \A r, q \in shown :
       r # q => /\ r \cap q = {}
                /\ (dedupe /\ First(r).line = First(q).line /\ First(r).ts - First(q).ts \in 0..Window)
                     => \E m \in r, n \in q : m.srv = n.srv

\* The first page shows the newest lines of the servers that answered: nothing
\* newer by more than the window than a row it has is missing, and a page that
\* is not full has everything (467-507).
FirstPageIsNewest ==
  page = 1 =>
    \A s \in DOMAIN log \ failed : \A k \in DOMAIN log[s] :
      (Cardinality(shown) < Limit \/ \E r \in shown : log[s][k].ts > Last(r).ts + Window)
        => \E r \in shown : Stored(s, k) \in r
=============================================================================
