--------------------------- MODULE MetricsBrowser ---------------------------
(***************************************************************************)
(* The metrics page: a search whose hits make a matrix of metrics by hosts,*)
(* a selection of items, kept in the URL, that the matrix toggles by cell, *)
(* row and column, and the sets that were selected before, kept for each   *)
(* user in the browser's storage.                                          *)
(*                                                                         *)
(* A click on a row's head asks for the row's items on every host of the   *)
(* matrix and toggles them when they arrive, with the selection that was   *)
(* on the screen when it was clicked: the answer runs the callback of that *)
(* rendering.  The bar the query is typed in is QueryBar's; charts are     *)
(* left out.  Navigation takes effect at once.                             *)
(***************************************************************************)
EXTENDS Integers, FiniteSets, FiniteSetsExt, SequencesExt, Filtered

CONSTANTS
    Item,           \* [id, host, key, name]
    Query,          \* [of -> the items it matches, scope -> the hosts its
                    \*  host: or group: token means, or Absent]
    NoQuery,        \* the empty one
    Recipe,         \* the query of the recipe cards
    Users,
    Links,          \* the selections a link may open the page with
    MaxColumns, MaxRecentSets, MaxRecipes,
    Absent,
    MaxTurns        \* bound: turns of the user and failed lookups

VARIABLES
    selection,      \* ?items=, in order
    author,         \* who made it: signed in at the link or the click it comes
                    \*  from (not kept by the code, for the properties)
    query, asked,   \* as typed, and 400 ms later (?q=)
    lookup,         \* [Query -> the ids of its scope: "none", "ok", "failed"]
    hits,           \* the last answer of the search and what it was asked for
    extra, more,    \* hosts added by hand, and the last answer for them
    rows,           \* clicks on a row's head under way
    labels,         \* the selected items whose details were loaded last
    user, loaded,   \* who is signed in; whose sets are in memory
    recent, stored, \* those sets; [Users -> the storage's]
    recorded,       \* the selection, and how many of its items were known,
                    \*  when the effect last ran
    turns

vars == <<selection, author, query, asked, lookup, hits, extra, more, rows, labels, user,
          loaded, recent, stored, recorded, turns>>

\* Ids in their order.
Sorted(ids) ==
    [n \in 1 .. Cardinality(ids) |-> CHOOSE d \in ids : Cardinality({e \in ids : e < d}) = n - 1]
IdsOf(items) == {i.id : i \in items}

\* A link gives each id once (metrics-facets.ts:57-60), also of items that are no more.
MetricsAssumption ==
    /\ IsFiniteSet(Item) /\ IdsOf(Item) \subseteq Int
    /\ {NoQuery, Recipe} \subseteq Query /\ \A q \in Query : q.of \subseteq Item
    /\ \A l \in Links : l \in Seq(Int) /\ \A n \in 1 .. Len(l) : \A m \in 1 .. n - 1 : l[m] # l[n]
    /\ MaxRecentSets \in Nat \ {0} /\ MaxRecipes \in Nat

---------------------------------------------------------------------------
(* The search and the matrix.                                              *)

Scoped == asked.scope # Absent

\* What the search is asked for with; no ids while they are not known.
SearchKey == <<asked, IF Scoped /\ lookup[asked] = "ok" THEN asked.scope ELSE {}>>

Enabled_unresolved ==               \* (mutant) it does not wait for the ids
    asked # NoQuery

Enabled ==
    asked # NoQuery /\ (Scoped => lookup[asked] # "none")

\* The hits on the screen: those for the present key.
Visible == IF hits # Absent /\ hits.key = SearchKey THEN hits.items ELSE {}

MoreKey == <<extra, {i.key : i \in Visible}>>
Listed  == Visible \cup (IF more # Absent /\ more.key = MoreKey THEN more.items ELSE {})

\* The hosts in the order they turn up, the search's before the added ones.
Columns ==
    LET order(items) == Sorted({Min(IdsOf({i \in items : i.host = h})) : h \in {i.host : i \in items}})
        byHand == {i \in Listed : \A v \in Visible : v.host # i.host}
        firsts == order(Visible) \o order(byHand)
    IN  [n \in 1 .. Min({Len(firsts), MaxColumns}) |->
           (CHOOSE i \in Item : i.id = firsts[n]).host]

\* One cell for each row and host: the first item of that key and name there.
RowIds(row) ==
    {Min(IdsOf({i \in Listed : i.host = h /\ <<i.key, i.name>> = row}))
       : h \in {j.host : j \in {i \in Listed : <<i.key, i.name>> = row /\ i.host \in ToSet(Columns)}}}
Rows == {<<i.key, i.name>> : i \in {j \in Listed : j.host \in ToSet(Columns)}}
CellIds == UNION {RowIds(r) : r \in Rows}
ColumnIds(h) == {i.id : i \in {j \in Listed : j.host = h}} \cap CellIds

---------------------------------------------------------------------------
(* The selection.                                                          *)

\* Adds what is not selected, or removes all when everything is.
Toggled(order, ids) ==
    IF ids \subseteq ToSet(order)
    THEN Kept(order, ToSet(order) \ ids)
    ELSE order \o Sorted(ids \ ToSet(order))

Turn == turns < MaxTurns /\ turns' = turns + 1

\* The details of the selection: for its ids, never for an earlier one's.
Known == IF labels = ToSet(selection) THEN labels \cap IdsOf(Item) ELSE {}

\* What the effects depend on has changed.
Due == loaded # user \/ recorded # <<ToSet(selection), Cardinality(Known)>>

Init ==
    /\ selection \in Links
    /\ query \in Query /\ asked = query
    /\ lookup = [q \in Query |-> "none"] /\ hits = Absent
    /\ extra = {} /\ more = Absent /\ rows = {} /\ labels = {}
    /\ user \in Users /\ author = user /\ loaded = Absent /\ recent = <<>>
    /\ stored = [u \in Users |-> <<>>]
    /\ recorded = Absent /\ turns = 0

Idle  == UNCHANGED <<user, loaded, recent, stored, recorded>>
Still == UNCHANGED <<asked, lookup, hits, more, labels>>

\* A cell, a hit picked in the query bar, a chip of a panel, a column's head.
Toggle ==
    /\ ~Due /\ Turn
    /\ \/ \E d \in CellIds \cup ToSet(selection) : selection' = Toggled(selection, {d})
       \/ \E h \in ToSet(Columns) : selection' = Toggled(selection, ColumnIds(h))
    /\ author' = user
    /\ UNCHANGED <<query, extra, rows>> /\ Idle /\ Still

ToggleRow ==
    /\ ~Due /\ Turn
    /\ \E r \in Rows : rows' = rows \cup
         {[n |-> turns, by |-> user, key |-> r[1], hosts |-> ToSet(Columns), own |-> RowIds(r),
           order |-> selection]}
    /\ UNCHANGED <<selection, author, query, extra>> /\ Idle /\ Still

\* The row's own cells when nothing is found, or when the request fails.
RowAnswered(r) ==
    /\ ~Due
    /\ LET found == IdsOf({i \in Item : i.key = r.key /\ i.host \in r.hosts})
       IN  \/ selection' = Toggled(r.order, IF found # {} THEN found ELSE r.own)
           \/ selection' = Toggled(r.order, r.own)
    /\ rows' = rows \ {r} /\ author' = r.by
    /\ UNCHANGED <<query, extra, turns>> /\ Idle /\ Still

AddHost ==
    /\ ~Due /\ Turn
    /\ \E h \in {i.host : i \in Item} \ extra : extra' = extra \cup {h}
    /\ UNCHANGED <<selection, author, query, rows>> /\ Idle /\ Still

\* The cards are shown while there is neither a query nor a selection.
ApplyRecipe ==
    /\ ~Due /\ Turn
    /\ asked = NoQuery /\ selection = <<>>
    /\ \/ query' = Recipe /\ selection' = <<>>
       \/ \E n \in 1 .. Min({Len(recent), MaxRecipes - 2}) :
            query' = recent[n].query /\ selection' = recent[n].items
    /\ extra' = {} /\ author' = user
    /\ UNCHANGED rows /\ Idle /\ Still

Type ==
    /\ ~Due /\ Turn
    /\ query' \in Query \ {query}
    /\ UNCHANGED <<selection, author, extra, rows>> /\ Idle /\ Still

---------------------------------------------------------------------------
(* Answers.                                                                *)

Debounce ==
    /\ ~Due /\ asked # query
    /\ asked' = query
    /\ UNCHANGED <<selection, author, query, lookup, hits, extra, more, rows, labels, turns>> /\ Idle

LookupEnds ==
    /\ ~Due /\ Scoped /\ lookup[asked] # "ok"
    /\ \/ lookup' = [lookup EXCEPT ![asked] = "ok"] /\ UNCHANGED turns
       \/ lookup[asked] = "none" /\ lookup' = [lookup EXCEPT ![asked] = "failed"] /\ Turn
    /\ UNCHANGED <<selection, author, query, asked, hits, extra, more, rows, labels>> /\ Idle

\* Ids that a failed lookup did not give are no ids: nothing matches them.
HitsArrive ==
    /\ ~Due /\ Enabled
    /\ hits' = [key |-> SearchKey,
                items |-> {i \in asked.of : Scoped => i.host \in SearchKey[2]}]
    /\ hits' # hits
    /\ UNCHANGED <<selection, author, query, asked, lookup, extra, more, rows, labels, turns>> /\ Idle

MoreArrive ==
    /\ ~Due /\ extra # {} /\ MoreKey[2] # {}
    /\ more' = [key |-> MoreKey, items |-> {i \in Item : i.host \in extra /\ i.key \in MoreKey[2]}]
    /\ more' # more
    /\ UNCHANGED <<selection, author, query, asked, lookup, hits, extra, rows, labels, turns>> /\ Idle

LabelsArrive ==
    /\ ~Due /\ selection # <<>>
    /\ labels' = ToSet(selection) /\ labels' # labels
    /\ UNCHANGED <<selection, author, query, asked, lookup, hits, extra, more, rows, turns>> /\ Idle

\* A silent renewal may sign in another user.  What the queries answered goes
\* with the user that was signed in; what the page itself holds stays.
SignIn ==
    /\ ~Due /\ Turn
    /\ user' \in Users \ {user}
    /\ lookup' = [q \in Query |-> "none"] /\ hits' = Absent /\ more' = Absent /\ labels' = {}
    /\ UNCHANGED <<selection, author, query, asked, extra, rows, loaded, recent, stored, recorded>>

---------------------------------------------------------------------------
(* The sets used before.                                                   *)

Entry == [items |-> selection, query |-> asked, by |-> author]

\* In front of the others, without another of the same items, and no more
\* than so many.
AddRecent(sets) ==
    LET others == Kept(sets, {e \in ToSet(sets) : ToSet(e.items) # ToSet(selection)})
    IN  SubSeq(<<Entry>> \o others, 1, Min({Len(others) + 1, MaxRecentSets}))

\* A selection is recorded when the details of all its items are known: when the
\* selection has changed, and when their number has, as after a change of user.
Records ==
    /\ recorded # <<ToSet(selection), Cardinality(Known)>>
    /\ selection # <<>> /\ Cardinality(Known) >= Len(selection)

RunEffects_onMount ==               \* (mutant) the sets are loaded once only
    /\ Due
    /\ LET mine == IF loaded = Absent THEN stored[user] ELSE recent
       IN  /\ recent' = IF Records THEN AddRecent(mine) ELSE mine
           /\ stored' = IF Records THEN [stored EXCEPT ![user] = recent'] ELSE stored
    /\ loaded' = user /\ recorded' = <<ToSet(selection), Cardinality(Known)>>
    /\ UNCHANGED <<selection, author, query, extra, rows, user, turns>> /\ Still

\* The sets of the user are loaded, then the selection is recorded.
RunEffects ==
    /\ Due
    /\ LET mine == IF loaded # user THEN stored[user] ELSE recent
       IN  /\ recent' = IF Records THEN AddRecent(mine) ELSE mine
           /\ stored' = IF Records THEN [stored EXCEPT ![user] = recent'] ELSE stored
    /\ loaded' = user /\ recorded' = <<ToSet(selection), Cardinality(Known)>>
    /\ UNCHANGED <<selection, author, query, extra, rows, user, turns>> /\ Still

Next ==
    \/ Toggle \/ ToggleRow \/ AddHost \/ ApplyRecipe \/ Type \/ SignIn
    \/ Debounce \/ LookupEnds \/ HitsArrive \/ MoreArrive \/ LabelsArrive
    \/ \E r \in rows : RowAnswered(r)
    \/ RunEffects

Spec == Init /\ [][Next]_vars

---------------------------------------------------------------------------
(* Properties.                                                             *)

\* The variables keep their types; nothing is selected twice.
TypeOK ==
    /\ query \in Query /\ asked \in Query /\ lookup \in [Query -> {"none", "ok", "failed"}]
    /\ hits = Absent \/ hits.items \subseteq Item
    /\ Cardinality(ToSet(selection)) = Len(selection)
    /\ user \in Users /\ author \in Users /\ loaded \in Users \cup {Absent}
    /\ \A u \in Users : Len(stored[u]) <= MaxRecentSets

\* An empty matrix means that nothing matches: the items are not asked for
\* before the ids of a host: or group: token are known, so that no answer
\* without them passes for the query's own (use-metrics.ts:74-131).  A lookup
\* that failed does give an empty answer, and is left out.
MatrixIsTheQuery ==
    hits # Absent /\ hits.key = SearchKey /\ lookup[asked] # "failed" =>
        Visible = {i \in asked.of : Scoped => i.host \in asked.scope}

\* The sets on the recipe cards are those stored for the user who is signed in,
\* also when another user is signed in while the page is open and a selection is
\* recorded in the same moment; and no two of them have the same items
\* (MetricsPage.tsx:174-205, recent-sets.ts:24-76).
RecentSetsAreKept ==
    /\ loaded = user => recent = stored[user]
    /\ \A u \in Users : \A n \in DOMAIN stored[u] : \A m \in 1 .. n - 1 :
           ToSet(stored[u][m].items) # ToSet(stored[u][n].items)

\* A change of user does not, on its own, record the selection again
\* (MetricsPage.tsx:197-198): what is stored for the user who selected it is not
\* stored for another, who has not.
NotRecordedAgain ==
    \A u \in Users : \A n \in DOMAIN stored[u] :
        LET set == stored[u][n]
        IN  set.by # u =>
              \A m \in DOMAIN stored[set.by] : ToSet(stored[set.by][m].items) # ToSet(set.items)

\* "Add all `ids` if not already all selected, else remove them all (used by
\* row/column headers)" (MetricsPage.tsx:110): when a row's items arrive, all or
\* none of them are selected, and whatever else was selected still is.
RowToggleIsLocal ==
    \A r \in rows : r \notin rows' =>
        LET ids == IdsOf({i \in Item : i.key = r.key /\ i.host \in r.hosts}) \cup r.own
        IN  ToSet(selection') \ ids = ToSet(selection) \ ids
=============================================================================
