---------------------------- MODULE HostDashboard ----------------------------
(***************************************************************************)
(* The page of one host: the dashboard built from its items, filtered by   *)
(* text and template, and the sections that mount a card per chart when it *)
(* comes into view, ask for its points, hide the charts without any, and   *)
(* give way to a thin bar when there is nothing else.                      *)
(*                                                                         *)
(* A render and the effects after it are part of the step that causes      *)
(* them.  Charts are ordered by the name of their first item, interfaces   *)
(* first.  Problems, logs, thresholds and the counters are left out.       *)
(***************************************************************************)
EXTENDS AutoDashboard

CONSTANTS
    ItemLists,      \* what item.get may return for the host
    Filters,        \* the ids of the items a filter text occurs in
    Ranges,
    Worlds,         \* [id of an item -> [Ranges -> "none", "flat" or "varying"]]
    Eager,          \* EAGER_CHART_COUNT
    Moves           \* bound: what the user and item.get do in one behaviour

VARIABLES
    world,          \* what the history holds
    items,
    dashboard,      \* the charts built from them
    text,           \* the filter: the ids it leaves, or None
    template,       \* the template chosen, or None
    mapped,         \* templateItemsReady
    range,
    part,           \* [section -> its component's state, Away while not on the page]
    blank,          \* the charts that were answered with no points, ever
    moves

vars == <<world, items, dashboard, text, template, mapped, range, part, blank, moves>>

All       == UNION ItemLists
Templates == {i.template : i \in All} \ {None}
Parts     == {Section(i) : i \in All} \cup {ContainerPart}
Ids       == {c.id : c \in dashboard}

(* A chart is kept by each filter for itself: for one of its items.        *)
Kept(c, f, t) ==
    /\ f # None => \E i \in c.items : i.id \in f
    /\ t # None => \E i \in c.items : i.template = t

ChartsOf(p, all, f, t) == {c \in all : c.section = p /\ Kept(c, f, t)}

---------------------------------------------------------------------------
(* A card, or the placeholder in its place: `data' is what its query says  *)
(* now, the last answer while the next is awaited; an error says nothing.  *)
Placeholder == [mounted |-> FALSE, busy |-> FALSE, data |-> "unknown", last |-> "unknown"]

NewCard == [Placeholder EXCEPT !.mounted = TRUE, !.busy = TRUE]

NoCards == [id \in {} |-> Placeholder]
Fresh   == [open |-> TRUE, showEmpty |-> FALSE, empty |-> {}, flat |-> {}, cards |-> NoCards]
Away    == [Fresh EXCEPT !.open = FALSE]

(* The key of a query changes: the last answer stays, if there is one.     *)
Asking(s, ids) ==
    LET cards == s.cards
    IN  [s EXCEPT !.cards = [id \in DOMAIN cards |->
            IF id \in ids /\ cards[id].mounted
            THEN [cards[id] EXCEPT !.busy = TRUE, !.data = cards[id].last]
            ELSE cards[id]]]

Mounted(s, what) ==
    {id \in DOMAIN s.cards : s.cards[id].mounted /\ s.cards[id].data = what}

Hidden(s, id) == (id \in s.empty /\ ~s.showEmpty) \/ id \in s.flat

(* (mutant) reports are counted, not looked up                             *)
Collapsed_counts(s, ids) ==
    /\ ids # {}
    /\ Cardinality(s.empty) + Cardinality(s.flat) = Cardinality(ids)
    /\ s.flat = {}
    /\ ~s.showEmpty

(* allReported, allEmpty, sectionCollapsed                                 *)
Collapsed(s, ids) ==
    /\ ids # {}
    /\ Cardinality(s.empty) + Cardinality(s.flat) = Cardinality(ids)
    /\ ids \subseteq s.empty
    /\ ~s.showEmpty

Before(c, d) ==
    \/ c.id[1] = "iface" /\ d.id[1] # "iface"
    \/ (c.id[1] = "iface") = (d.id[1] = "iface")
           /\ First(c.items).id < First(d.items).id

(* The charts that mount at once, wherever they are on the screen.         *)
Leading(cs) == {c.id : c \in {d \in cs : Cardinality({b \in cs : Before(b, d)}) < Eager}}

Rendered(s, cs) ==
    LET ids == {c.id : c \in cs}
    IN  [s EXCEPT !.cards =
            IF ~s.open \/ Collapsed(s, ids) THEN NoCards
            ELSE [id \in ids |-> IF id \in DOMAIN s.cards THEN s.cards[id]
                                 ELSE IF id \in Leading(cs) THEN NewCard ELSE Placeholder]]

(* (mutant) a report is only ever added                                    *)
Reported_adds(s) == [s EXCEPT !.empty = @ \cup Mounted(s, "none"),
                              !.flat  = @ \cup Mounted(s, "flat")]

(* onEmptyChange, onConstantChange: the mounted cards say what they are.   *)
Reported(s) ==
    LET here == {id \in DOMAIN s.cards : s.cards[id].mounted}
    IN  [s EXCEPT !.empty = (@ \ here) \cup Mounted(s, "none"),
                  !.flat  = (@ \ here) \cup Mounted(s, "flat")]

Settled(s, cs) == Rendered(Reported(Rendered(s, cs)), cs)

(* The sections after a step: those that have gone forget everything.      *)
Page(old, all, f, t) ==
    [p \in Parts |-> LET cs == ChartsOf(p, all, f, t)
                     IN  IF cs = {} THEN Away
                         ELSE Settled(IF old[p] = Away THEN Fresh ELSE old[p], cs)]

Chosen(t, ready) == IF ready THEN t ELSE None

Redraw(old) == part' = Page(old, dashboard', text', Chosen(template', mapped'))

Here(p) == ChartsOf(p, dashboard, text, Chosen(template, mapped))

(* isChartEmpty and isSeriesConstant for the chart's items together.       *)
Points(c, r) ==
    LET got == {world[i.id][r] : i \in c.items}
    IN  CASE got \subseteq {"none"}         -> "none"
          [] "varying" \in got              -> "varying"
          [] OTHER                          -> "flat"

---------------------------------------------------------------------------
Init ==
    /\ world \in Worlds
    /\ items = {} /\ dashboard = {} /\ text = None /\ template = None /\ mapped = FALSE
    /\ range \in Ranges
    /\ part = [p \in Parts |-> Away]
    /\ blank = {} /\ moves = 0

Turn == moves < Moves /\ moves' = moves + 1

(* item.get answers: discovery adds and removes items, and a chart that    *)
(* has other items under its old id asks for all of them.                  *)
Load(l) ==
    LET Of(p, list) == ChartsOf(p, list, text, Chosen(template, mapped))
        Changed(p) == { c.id : c \in Of(p, dashboard') \ Of(p, dashboard) }
    IN  /\ Turn /\ l # items
        /\ items' = l /\ dashboard' = Charts(l)
        /\ UNCHANGED <<world, text, template, mapped, range, blank>>
        /\ Redraw([p \in Parts |-> Asking(part[p], Changed(p))])

SetFilterText(f) ==
    /\ Turn /\ f # text
    /\ text' = f
    /\ UNCHANGED <<world, items, dashboard, template, mapped, range, blank>>
    /\ Redraw(part)

SelectTemplate(t) ==
    /\ Turn
    /\ mapped => \E i \in items : i.template = t
    /\ template' = IF template = t THEN None ELSE t
    /\ UNCHANGED <<world, items, dashboard, text, mapped, range, blank>>
    /\ Redraw(part)

TemplatesArrive ==
    /\ ~mapped
    /\ mapped' = TRUE
    /\ UNCHANGED <<world, items, dashboard, text, template, range, blank, moves>>
    /\ Redraw(part)

(* The picker, the brush, the live tick.                                   *)
SetRange(r) ==
    /\ Turn /\ r # range
    /\ range' = r
    /\ UNCHANGED <<world, items, dashboard, text, template, mapped, blank>>
    /\ Redraw([p \in Parts |-> Asking(part[p], Ids)])

(* The header, which a collapsed section does not have.                    *)
ToggleOpen(p) ==
    /\ Turn /\ Here(p) # {} /\ ~Collapsed(part[p], {c.id : c \in Here(p)})
    /\ UNCHANGED <<world, items, dashboard, text, template, mapped, range, blank>>
    /\ Redraw([part EXCEPT ![p].open = ~@])

ToggleShowEmpty(p) ==
    /\ Turn
    /\ \E c \in Here(p) : c.id \in part[p].empty
    /\ part[p].open \/ Collapsed(part[p], {c.id : c \in Here(p)})
    /\ UNCHANGED <<world, items, dashboard, text, template, mapped, range, blank>>
    /\ Redraw([part EXCEPT ![p].showEmpty = ~@])

(* A placeholder scrolls into view: one that is not displayed never does.  *)
Scroll(p, id) ==
    /\ id \in DOMAIN part[p].cards
    /\ ~part[p].cards[id].mounted /\ ~Hidden(part[p], id)
    /\ UNCHANGED <<world, items, dashboard, text, template, mapped, range, blank, moves>>
    /\ Redraw([part EXCEPT ![p].cards[id] = NewCard])

Arrive(p, id) ==
    /\ id \in DOMAIN part[p].cards /\ part[p].cards[id].busy
    /\ UNCHANGED <<world, items, dashboard, text, template, mapped, range, moves>>
    /\ LET got == Points(CHOOSE c \in Here(p) : c.id = id, range)
       IN  /\ Redraw([part EXCEPT ![p].cards[id] =
                  [@ EXCEPT !.busy = FALSE, !.data = got, !.last = got]])
           /\ blank' = IF got = "none" THEN blank \cup {<<p, id>>} ELSE blank

(* An error, or nothing within QUERY_TIMEOUT_MS.                           *)
Fail(p, id) ==
    /\ id \in DOMAIN part[p].cards /\ part[p].cards[id].busy
    /\ UNCHANGED <<world, items, dashboard, text, template, mapped, range, blank, moves>>
    /\ Redraw([part EXCEPT ![p].cards[id] = [@ EXCEPT !.busy = FALSE, !.data = "unknown"]])

Next ==
    \/ \E l \in ItemLists : Load(l)
    \/ \E f \in Filters \cup {None} : SetFilterText(f)
    \/ \E t \in Templates : SelectTemplate(t)
    \/ TemplatesArrive
    \/ \E r \in Ranges : SetRange(r)
    \/ \E p \in Parts : \/ ToggleOpen(p) \/ ToggleShowEmpty(p)
                        \/ \E id \in Ids : Scroll(p, id) \/ Arrive(p, id) \/ Fail(p, id)

Spec == Init /\ [][Next]_vars

---------------------------------------------------------------------------
TypeOK ==
    /\ world \in Worlds /\ range \in Ranges /\ mapped \in BOOLEAN
    /\ items \in ItemLists \cup {{}}
    /\ text \in Filters \cup {None} /\ template \in Templates \cup {None}
    /\ \A p \in Parts :
         /\ part[p].open \in BOOLEAN /\ part[p].showEmpty \in BOOLEAN
         /\ part[p].empty \cap part[p].flat = {}
         /\ DOMAIN part[p].cards \subseteq {c.id : c \in Here(p)}
    /\ \A e \in blank : e[1] \in Parts
    /\ moves \in 0 .. Moves

(* NothingIsLost of every list of items the page gets: see AutoDashboard.  *)
EveryItemHasItsPlace == NothingIsLost(items)

(* Through every change of items, filter, range and view: a section gives  *)
(* way to the bar that says it has no data only when each chart it now has *)
(* was asked, and was answered with no points at least once.               *)
CollapseIsEarned ==
    \A p \in Parts :
        Here(p) # {} /\ Collapsed(part[p], {c.id : c \in Here(p)})
            => \A c \in Here(p) : <<p, c.id>> \in blank

(* DashboardSection.tsx:28-33: a card without data stays mounted, so that  *)
(* "as soon as data do arrive" it reports and is shown again; unmounting   *)
(* it, before, "has hidden it for ever".  So once every query has been     *)
(* answered, no chart is hidden whose points vary.                         *)
HiddenChartsComeBack ==
    \A p \in Parts :
        (/\ part[p].open
         /\ \A id \in DOMAIN part[p].cards : ~part[p].cards[id].busy)
            => \A c \in Here(p) : c.id \in part[p].empty /\ ~part[p].showEmpty
                                      => Points(c, range) # "varying"
=============================================================================
