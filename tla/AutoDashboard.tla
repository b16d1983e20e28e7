---------------------------- MODULE AutoDashboard ----------------------------
(***************************************************************************)
(* From the items of a host to its dashboard: which items make a chart     *)
(* together, under which id and in which section.                          *)
(*                                                                         *)
(* An item is a record of what the rules look at, after its key has been   *)
(* parsed: `base' is the key with its direction word cut out, `params' its *)
(* parameters, `idle' a CPU mode the bundle drops.  Titles, labels, units' *)
(* wording and thresholds are left out; `id' stands for the order of names.*)
(***************************************************************************)
EXTENDS Integers, FiniteSets

CONSTANTS
    Cap,            \* MAX_CHARTS_PER_SECTION
    None            \* no such tag, unit or rule

Other          == "Sonstige"    \* NO_COMPONENT_SECTION
ContainerPart  == "container"   \* CONTAINER_SECTION

(* classifyItem: the component tag, the unit, the key, in this order.      *)
Section(i) ==
    CASE i.component # None                     -> i.component
      [] i.component = None /\ i.ofUnit # None  -> i.ofUnit
      [] i.component = None /\ i.ofUnit = None /\ i.ofKey # None -> i.ofKey
      [] OTHER                                  -> Other

First(S) == CHOOSE i \in S : \A j \in S : i.id <= j.id

Groups(S, Key(_)) == { {i \in S : Key(i) = k} : k \in {Key(i) : i \in S} }

---------------------------------------------------------------------------
(* The stages, each on what the ones before it left.                       *)

TextItems(items) == {i \in items : i.kind \in {"text", "state"}}

Numeric(items) == {i \in items : i.kind = "number"}

Contained(items) == {i \in Numeric(items) : i.container}
HostItems(items) == Numeric(items) \ Contained(items)
Ported(items)    == {i \in HostItems(items) : i.port # None}
Bundled(items)   == {i \in HostItems(items) \ Ported(items) : i.bundle # None}
Plain(items)     == HostItems(items) \ (Ported(items) \cup Bundled(items))

Chart(id, section, items, more) ==
    [id |-> id, section |-> section, items |-> items, more |-> more]

BundleCharts(items) ==
    LET Of(i) == <<i.bundle, Section(i)>>
    IN  { Chart(<<"bundle", First(g).bundle, Section(First(g))>>,
                Section(First(g)), g, 0)
          : g \in Groups({i \in Bundled(items) : ~i.idle}, Of) }

PortCharts(items) ==
    LET Of(i) == <<i.port, Section(i)>>
    IN  { Chart(<<"iface", First(g).port>>, Section(First(g)), g, 0)
          : g \in Groups(Ported(items), Of) }

(* An instance: the directions of one thing.  A family: the instances of   *)
(* one quantity.                                                           *)
Instances(S) == LET Of(i) == <<i.base, i.params, i.units>> IN Groups(S, Of)

FamilyKey(inst) ==
    <<First(inst).base, First(inst).units, First(inst).category>>

Families(S) == Groups(Instances(S), FamilyKey)

LastValue(inst) ==
    CHOOSE v \in {i.value : i \in inst} : \A i \in inst : i.value <= v

Ranked_ascending(a, b) ==      \* (mutant) the instances are sorted the other way
    \/ LastValue(a) < LastValue(b)
    \/ LastValue(a) = LastValue(b) /\ First(a).id < First(b).id

Ranked(a, b) ==
    \/ LastValue(a) > LastValue(b)
    \/ LastValue(a) = LastValue(b) /\ First(a).id < First(b).id

Shown(family) ==
    {a \in family : Cardinality({b \in family : Ranked(b, a)}) < Cap}

(* A chart each for file systems, disks and containers; one chart for the  *)
(* other families, with the instances that rank highest.                   *)
FamilyChart(family, section) ==
    LET first == First(UNION family)
        Token(i) == i.params[1]
    IN  CASE first.split ->
                { Chart(<<"split", FamilyKey({first}), Token(First(g))>>, section, g, 0)
                  : g \in Groups(UNION family, Token) }
          [] ~first.split /\ Cardinality(family) = 1 ->
                { Chart(<<"item", first.id>>, section, UNION family, 0) }
          [] OTHER ->
                { Chart(<<"family", FamilyKey({first})>>, section, UNION Shown(family),
                        Cardinality(family) - Cardinality(Shown(family))) }

FamilyCharts(S, section) ==
    UNION {FamilyChart(family, section) : family \in Families(S)}

(* buildDashboard *)
Charts(items) ==
    BundleCharts(items) \cup PortCharts(items)
        \cup (UNION {FamilyCharts({i \in Plain(items) : Section(i) = s}, s)
                     : s \in {Section(i) : i \in Plain(items)}})
        \cup FamilyCharts(Contained(items), ContainerPart)

---------------------------------------------------------------------------
(* Whatever the host has: an item with a text or a number is in the status *)
(* list or in exactly one chart, but for the idle CPU time and the         *)
(* instances a chart counts as left out, which are never those of a        *)
(* greater value than an instance it shows; and no two charts of a section *)
(* share an id, by which the page remembers what it hides.                 *)
NothingIsLost(items) ==
    LET charts  == Charts(items)
        Home(i) == {c \in charts : i \in c.items}
        Idle    == {i \in Bundled(items) : i.idle}
        Missing == {i \in Numeric(items) \ Idle : Home(i) = {}}
        Kin(c, i) == /\ <<i.base, i.units>> = <<First(c.items).base, First(c.items).units>>
                     /\ i.container = First(c.items).container
                     /\ i.container \/ Section(i) = c.section
    IN  /\ \A i \in items :
             Cardinality(Home(i)) + (IF i \in TextItems(items) THEN 1 ELSE 0) <= 1
        /\ \A i \in Missing :
             \E c \in charts : /\ Kin(c, i) /\ c.more > 0
                               /\ \A a \in Instances(c.items) : i.value <= LastValue(a)
        /\ \A c \in charts : Cardinality(Instances({i \in Missing : Kin(c, i)})) >= c.more
        /\ \A c, d \in charts :
             c # d => <<c.section, c.id>> # <<d.section, d.id>>
=============================================================================
