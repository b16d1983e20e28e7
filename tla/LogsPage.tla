------------------------------ MODULE LogsPage -------------------------------
(***************************************************************************)
(* The logs page (LogsPage.tsx): its filters are in the URL, the user's    *)
(* last ones in localStorage, level and text in the page.  Its effects run *)
(* after a commit, see the values of that commit and may navigate; a       *)
(* navigation takes place later, and of several the last one does.  The    *)
(* user leaves and comes back, streams come late or from the cache, and a  *)
(* filter set is saved meanwhile.                                          *)
(***************************************************************************)
EXTENDS Naturals, TLC

CONSTANTS
  Stream,    \* the streams the gateway lists
  Default,   \* the one flagged is_default, or NoStream
  NoStream,  \* no ?stream=: "all streams"
  Value,     \* field:value pairs to filter by
  Clicks     \* bound: what the user does

ASSUME PageAssumption ==
  NoStream \notin Stream /\ Default \in Stream \cup {NoStream} /\ Clicks \in Nat

VARIABLES
  url,      \* the search parameters committed
  nav,      \* where a navigation under way leads, or url
  page,     \* the component: mounted, hydrated, level, typed and debounced text
  seen,     \* the values the effects last ran for
  stored,   \* what log-filter-storage holds for the user
  streams,  \* the streams have been fetched and are cached
  saved,    \* a set was saved: the parameters then, while the list is fetched anew
  clicks,   \* what the user has done
  opened    \* the filters stored when the page was opened without any, until a click

vars == <<url, nav, page, seen, stored, streams, saved, clicks, opened>>

Filters == [stream : Stream \cup {NoStream}, include : SUBSET Value, exclude : SUBSET Value,
            dedupe : BOOLEAN]
Search  == [f : Filters, n : {1, 2}, q : BOOLEAN, set : BOOLEAN]

NoFilters == [stream |-> NoStream, include |-> {}, exclude |-> {}, dedupe |-> TRUE]
Plain     == [f |-> NoFilters, n |-> 1, q |-> FALSE, set |-> FALSE]
Unmounted == [up |-> FALSE, hydrated |-> FALSE, level |-> FALSE, typed |-> FALSE, text |-> FALSE]
Deps      == [f |-> url.f, q |-> url.q, streams |-> streams, hydrated |-> page.hydrated,
              key |-> <<page.text, page.level>>]
NotYet    == [f |-> NoFilters, q |-> FALSE, streams |-> FALSE, hydrated |-> FALSE,
              key |-> <<FALSE, FALSE>>]

TypeOK ==
  /\ {url, nav, saved} \subseteq Search
  /\ page \in [up : BOOLEAN, hydrated : BOOLEAN, level : BOOLEAN, typed : BOOLEAN, text : BOOLEAN]
  /\ seen.f \in Filters
  /\ {stored, opened} \subseteq Filters
  /\ streams \in BOOLEAN
  /\ clicks \in 0..Clicks

Init ==
  /\ url = Plain /\ nav = Plain /\ saved = Plain
  /\ page = Unmounted /\ seen = NotYet
  /\ \E s \in Stream \cup {NoStream}, V \in SUBSET Value, d \in BOOLEAN :
       stored = [stream |-> s, include |-> V, exclude |-> {}, dedupe |-> d]
  /\ streams \in BOOLEAN
  /\ clicks = 0 /\ opened = NoFilters

Flushed == seen = Deps
AtRest  == page.up /\ Flushed /\ nav = url

-----------------------------------------------------------------------------
(* The effects of a commit.  Each sees the URL of the commit, whatever the *)
(* ones before it have navigated to.                                       *)

\* Stored filters are taken over when the page is opened without any.
Hydrated(target) ==
  IF ~page.hydrated /\ url.f = NoFilters /\ stored # NoFilters
  THEN [Plain EXCEPT !.f = stored, !.q = url.q] ELSE target

Preselected(target) ==
  IF url.f.stream = NoStream /\ streams /\ Default # NoStream
     /\ <<seen.f.stream, seen.streams, page.hydrated>> # <<NoStream, TRUE, TRUE>>
  THEN [url EXCEPT !.f.stream = Default] ELSE target

\* Another text or level goes back to page 1.
PageReset(target) ==
  IF seen.key # Deps.key /\ page.hydrated /\ url.n > 1 THEN [url EXCEPT !.n = 1] ELSE target

Stored_streamOnly ==           \* (mutant) the effect depends on the stream alone
  IF page.hydrated /\ (~seen.hydrated \/ seen.f.stream # url.f.stream) THEN url.f ELSE stored

Stored ==
  IF page.hydrated /\ (~seen.hydrated \/ seen.f # url.f) THEN url.f ELSE stored

Effects ==
  /\ page.up /\ ~Flushed
  /\ nav' = PageReset(Preselected(Hydrated(nav)))
  /\ stored' = Stored
  /\ page' = [page EXCEPT !.hydrated = TRUE, !.typed = IF url.q /\ ~seen.q THEN TRUE ELSE @]
  /\ seen' = Deps
  /\ UNCHANGED <<url, streams, saved, clicks, opened>>

\* The navigation takes place.
Commit ==
  /\ page.up /\ Flushed /\ nav # url
  /\ url' = nav
  /\ UNCHANGED <<nav, page, seen, stored, streams, saved, clicks, opened>>

\* useDebouncedValue
Debounce ==
  /\ page.up /\ Flushed /\ page.text # page.typed
  /\ page' = [page EXCEPT !.text = page.typed]
  /\ UNCHANGED <<url, nav, seen, stored, streams, saved, clicks, opened>>

\* useLogStreams; the cache is dropped while the page is not open.
StreamsArrive ==
  /\ page.up /\ Flushed /\ ~streams /\ streams' = TRUE
  /\ UNCHANGED <<url, nav, page, seen, stored, saved, clicks, opened>>

-----------------------------------------------------------------------------
(* What the user does.                                                     *)
Click == clicks < Clicks /\ clicks' = clicks + 1

\* From the menu, or by a link that brings a text or filters of its own.
Open(deep, f) ==
  /\ ~page.up /\ Click
  /\ url' = [Plain EXCEPT !.f = f, !.q = deep] /\ nav' = url'
  /\ page' = [Unmounted EXCEPT !.up = TRUE, !.typed = deep, !.text = deep]
  /\ seen' = [NotYet EXCEPT !.key = <<deep, FALSE>>, !.streams = ~streams]
  /\ opened' = IF f = NoFilters THEN stored ELSE NoFilters
  /\ UNCHANGED <<stored, streams, saved>>

Leave ==
  /\ AtRest /\ Click
  /\ page' = Unmounted /\ url' = Plain /\ nav' = Plain /\ saved' = Plain
  /\ streams' \in {streams, FALSE}
  /\ opened' = NoFilters
  /\ UNCHANGED <<seen, stored>>

Acts == page.up /\ Flushed /\ Click /\ opened' = NoFilters

GoTo(search) ==
  /\ Acts
  /\ nav' = search
  /\ UNCHANGED <<url, page, seen, stored, streams, saved>>

\* patchSearch
Patch(f) == GoTo([url EXCEPT !.f = f, !.n = 1])

SelectStream == \E s \in Stream \cup {NoStream} : Patch([url.f EXCEPT !.stream = s])

\* keepPage
ToggleDedupe == GoTo([url EXCEPT !.f.dedupe = ~@])

SetHosts == \E V \in SUBSET Value : Patch([url.f EXCEPT !.include = V])

\* handleFilter and toggleFilter: a value is in one of the two lists at most.
Toggle(v, list, other) ==
  Patch([url.f EXCEPT ![list] = IF v \in @ THEN @ \ {v} ELSE @ \cup {v},
                      ![other] = @ \ {v}])

HandleFilter == \E v \in Value : Toggle(v, "include", "exclude") \/ Toggle(v, "exclude", "include")

GoToPage == GoTo([url EXCEPT !.n = 3 - @])

SetLevel ==
  /\ Acts /\ page' = [page EXCEPT !.level = ~@]
  /\ UNCHANGED <<url, nav, seen, stored, streams, saved>>

Type ==
  /\ Acts /\ page' = [page EXCEPT !.typed = ~@]
  /\ UNCHANGED <<url, nav, seen, stored, streams, saved>>

ResetFilters ==
  /\ Acts
  /\ stored' = NoFilters
  /\ nav' = [Plain EXCEPT !.f.stream = url.f.stream]
  /\ page' = [page EXCEPT !.level = FALSE, !.typed = FALSE]
  /\ UNCHANGED <<url, seen, streams, saved>>

ApplySet ==
  /\ Acts
  /\ \E V \in SUBSET Value, s \in Stream \cup {NoStream}, l \in BOOLEAN :
       /\ nav' = [Plain EXCEPT !.f.stream = s, !.f.include = V, !.set = TRUE]
       /\ page' = [page EXCEPT !.level = l]
  /\ UNCHANGED <<url, seen, stored, streams, saved>>

\* The gateway has saved the set; once the list of sets has been fetched too,
\* the set is marked in the URL there was when it was saved.
SaveSet ==
  /\ Acts /\ ~saved.set
  /\ saved' = [url EXCEPT !.set = TRUE]
  /\ UNCHANGED <<url, nav, page, seen, stored, streams>>

Activate ==
  /\ page.up /\ Flushed /\ saved.set
  /\ nav' = saved /\ saved' = Plain
  /\ UNCHANGED <<url, page, seen, stored, streams, clicks, opened>>

User ==
  \/ \E deep \in BOOLEAN, f \in Filters : Open(deep, f)
  \/ Leave \/ SelectStream \/ ToggleDedupe \/ SetHosts \/ HandleFilter \/ GoToPage
  \/ SetLevel \/ Type \/ ResetFilters \/ ApplySet \/ SaveSet

Next == User \/ Effects \/ Commit \/ Debounce \/ StreamsArrive \/ Activate

Fairness == WF_vars(Effects) /\ WF_vars(Commit) /\ WF_vars(Debounce)

Spec == Init /\ [][Next]_vars /\ Fairness

-----------------------------------------------------------------------------
(* Properties.                                                             *)

\* However clicks, navigations, the debounced text and late streams interleave,
\* the effects come to rest: no two of them send each other from one URL to
\* another for ever (LogsPage.tsx:120-122, 162-236, 266-274).
EffectsSettle == <>[](page.up => AtRest)

\* When they have, what the storage would bring back are the filters on the
\* screen, unless the user has just reset them (162-222, 291-296).
StoredIsShown == AtRest => stored = url.f \/ stored = NoFilters

\* A user finds the filters again when the page is opened next without others in
\* the URL, which take precedence (162-191), as the head of
\* log-filter-storage.ts says (1-7).  Not so with a default stream and the
\* streams still in the cache: both effects of the first commit navigate, and
\* the later one leaves the stored filters out, and they are overwritten.
FiltersComeBack ==
  (AtRest /\ opened # NoFilters /\ ~url.q)
    => /\ url.f.include = opened.include
       /\ url.f.exclude = opened.exclude
       /\ url.f.dedupe = opened.dedupe
=============================================================================
