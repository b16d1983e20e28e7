------------------------------ MODULE Topology ------------------------------
(***************************************************************************)
(* The topology page: hosts are clustered by what links them, a Zabbix map,*)
(* a subnet or a proxy, one tab for each; a list sorted by severity picks  *)
(* the cluster that the stage shows as a ring.  A large cluster shows      *)
(* families of names in place of their hosts, or else one node for all its *)
(* hosts without a problem.  Severities come from two queries: the         *)
(* problems, and the triggers that name their hosts, asked for by the ids  *)
(* of the first answer and unknown while a new set of ids is asked for.    *)
(*                                                                         *)
(* Clusters of a kind are named in the order of their ids.  Coordinates,   *)
(* zoom but for its level, tooltips and the world map are left out.        *)
(***************************************************************************)
EXTENDS Integers, FiniteSets, FiniteSetsExt, Sequences

CONSTANTS
    HostLists,      \* what host.get may answer: sets of [id, by, proxy, group,
                    \*  nets, prefixes, domain]
    Maps,           \* [map -> the hosts on it]
    ProblemLists,   \* what problem.get may answer: sets of [trigger, severity]
    TriggerHosts,   \* [trigger -> its hosts' ids]
    Queries,        \* [hosts -> ids whose name matches, clusters -> ids of those]
    Absent,         \* no cluster, no family, no answer, no address, no field
    MinFamily,      \* NAME_FAMILY_MIN_SIZE
    Threshold,      \* OK_COLLAPSE_THRESHOLD, SEMANTIC_MIN_HOSTS
    MaxTurns        \* bound: turns of the user and refetches

\* The severities are those of Zabbix.
TopologyAssumption == \A l \in ProblemLists : \A p \in l : p.severity \in 0 .. 5

VARIABLES
    hosts,          \* the last answer
    problems, triggers,
    tab, cluster,   \* ?tab= and ?cluster= of the URL
    query, jumped,  \* the list's filter, and when its effect last ran
    stage,          \* the stage's own [of, open, family, level], or Absent
    turns

vars == <<hosts, problems, triggers, tab, cluster, query, jumped, stage, turns>>

NoQuery == [hosts |-> {}, clusters |-> {}]
Tabs    == {"maps", "l3", "proxies", "geo"}
Ids     == {h.id : h \in UNION HostLists}

---------------------------------------------------------------------------
(* Severities; -1 is none.                                                 *)

Key == {p.trigger : p \in problems}
Joined == {p \in problems : triggers # Absent /\ triggers = Key}
SeverityOf(h) == Max({-1} \cup {p.severity : p \in {q \in Joined : h.id \in TriggerHosts[q.trigger]}})
Worst(members) == Max({-1} \cup {SeverityOf(h) : h \in members})

---------------------------------------------------------------------------
(* Clusters.                                                               *)

\* The first interface with an IPv4 address counts.
SubnetOf(h) ==
    LET known == SelectSeq(h.nets, LAMBDA n : n # Absent)
    IN  IF known = <<>> THEN Absent ELSE known[1]

\* 0 is Zabbix's "none".  What monitors a host is told by `by' (2: a group of
\* proxies), or by the ids where the server does not send it.
AnchorOf(h) ==
    CASE (h.by = 2 \/ h.by = Absent) /\ h.group # 0 -> <<"proxygroup", h.group>>
      [] h.by = 2 /\ h.group = 0 -> <<"proxy", 0>>
      [] OTHER -> <<"proxy", h.proxy>>

ClusterOf(id, members) == [id |-> id, hosts |-> members, severity |-> Worst(members)]

Clusters(t) ==
    CASE t = "maps" -> {ClusterOf(<<"map", m>>, {h \in hosts : h.id \in Maps[m]}) : m \in DOMAIN Maps}
      [] t = "l3" -> LET nets == {SubnetOf(h) : h \in hosts} \ {Absent}
                     IN  {ClusterOf(<<"subnet", n>>, {h \in hosts : SubnetOf(h) = n}) : n \in nets}
      [] t = "proxies" -> {ClusterOf(a, {h \in hosts : AnchorOf(h) = a}) : a \in {AnchorOf(h) : h \in hosts}}
      [] OTHER -> {}

\* In the list: the worst first, then by name.
Rank(id) == IF id[1] = "proxygroup" THEN 100 + id[2] ELSE id[2]
Above(c, d) == \/ c.severity > d.severity
               \/ c.severity = d.severity /\ Rank(c.id) < Rank(d.id)

Named(c, q) == \E h \in c.hosts : h.id \in q.hosts
Listed == {c \in Clusters(tab) : query = NoQuery \/ c.id \in query.clusters \/ Named(c, query)}

\* The first of the list that has a host of that name, or Absent.
Hit(q) ==
    LET named == {c \in Clusters(tab) : Named(c, q)}
    IN  IF named = {} THEN Absent ELSE CHOOSE c \in named : \A d \in named \ {c} : Above(c, d)

Selected == {c \in Clusters(tab) : c.id = cluster}      \* one or none
Focus    == IF Selected = {} THEN Absent ELSE cluster

---------------------------------------------------------------------------
(* The stage.                                                              *)

\* The families of a cluster: the longest prefix of a host's name that enough
\* names share, if enough of them choose it; else its domain, if enough of the
\* rest have it; else the miscellaneous.
Chosen(members, h) ==
    LET shared(p) == Cardinality({m \in members : \E n \in DOMAIN m.prefixes : m.prefixes[n] = p}) >= MinFamily
        enough    == SelectSeq(h.prefixes, shared)
    IN  IF enough = <<>> THEN Absent ELSE enough[1]

Fits(members, h) ==
    LET p == Chosen(members, h)
    IN  p # Absent /\ Cardinality({m \in members : Chosen(members, m) = p}) >= MinFamily
Rest(members) == {h \in members : ~Fits(members, h)}

FamilyOf(members, h) ==
    LET alike == {m \in Rest(members) : m.domain = h.domain}
    IN  IF Fits(members, h) THEN <<"prefix", Chosen(members, h)>>
        ELSE IF h.domain # Absent /\ Cardinality(alike) >= MinFamily THEN <<"domain", h.domain>>
        ELSE <<"misc", 0>>

Families_chosenOnly(members) ==     \* (mutant) a prefix that too few choose is dropped
    [h \in {m \in members : Fits(members, m) \/ Chosen(members, m) = Absent} |-> FamilyOf(members, h)]

Families(members) == [h \in members |-> FamilyOf(members, h)]

Large(members) == Cardinality(members) > Threshold
Semantic(members) ==
    Large(members) /\ LET f == Families(members) IN Cardinality({f[h] : h \in DOMAIN f}) >= 2

\* Average or worse.
StaysAlone(h) == SeverityOf(h) >= 3

Alone(h) == [node |-> <<"host", h.id>>, hosts |-> {h}]
Ok == <<"ok", 0>>

Quiet(members) == {h \in members : SeverityOf(h) = -1}
Collapsible(members) == ~Semantic(members) /\ Cardinality(Quiet(members)) > Threshold

\* The nodes of the ring, each with the hosts that it stands for.
Ring(members, open) ==
    LET family == Families(members)
        folded == {h \in DOMAIN family : ~StaysAlone(h)}
    IN  IF Semantic(members)
        THEN {Alone(h) : h \in DOMAIN family \ folded}
                 \cup {[node |-> f, hosts |-> {h \in folded : family[h] = f}] : f \in {family[h] : h \in folded}}
        ELSE IF ~open /\ Collapsible(members)
             THEN {Alone(h) : h \in members \ Quiet(members)} \cup {[node |-> Ok, hosts |-> Quiet(members)]}
             ELSE {Alone(h) : h \in members}

\* A family is opened by a click, or by coming close enough.
Opened(node) == stage.level = 3 \/ stage.family = node

OnStage == IF Selected = {} THEN {} ELSE (CHOOSE c \in Selected : TRUE).hosts

---------------------------------------------------------------------------
(* Steps.                                                                  *)

HasStage == tab \in {"l3", "proxies"}
Blank == [of |-> Focus, open |-> FALSE, family |-> Absent, level |-> 1]

\* Effects wait for nobody.
Due == \/ jumped # query
       \/ HasStage # (stage # Absent)
       \/ stage # Absent /\ stage.of # Focus
Turn == ~Due /\ turns < MaxTurns /\ turns' = turns + 1

Init ==
    /\ hosts \in HostLists /\ problems = {} /\ triggers = Absent
    /\ tab \in Tabs
    /\ cluster \in {Absent} \cup {c.id : c \in UNION {Clusters(t) : t \in Tabs}}
    /\ query = NoQuery /\ jumped = NoQuery
    /\ stage = Absent /\ turns = 0

SetTab ==
    /\ Turn
    /\ tab' \in Tabs
    /\ query' = NoQuery /\ cluster' = Absent
    /\ UNCHANGED <<hosts, problems, triggers, jumped, stage>>

SetCluster ==
    /\ Turn
    /\ \E c \in Listed : cluster' = c.id
    /\ UNCHANGED <<hosts, problems, triggers, tab, query, jumped, stage>>

Type ==
    /\ Turn /\ tab # "geo"
    /\ query' \in Queries \ {query}
    /\ UNCHANGED <<hosts, problems, triggers, tab, cluster, jumped, stage>>

\* The effect of a query: it jumps to the cluster of a host of that name.
Jump ==
    /\ jumped # query
    /\ jumped' = query
    /\ cluster' = IF tab # "geo" /\ Hit(query) # Absent THEN Hit(query).id ELSE cluster
    /\ UNCHANGED <<hosts, problems, triggers, tab, query, stage, turns>>

\* The stage is mounted with the tabs of subnets and proxies, and begins anew
\* with another cluster.
ResetStage ==
    /\ jumped = query
    /\ \/ HasStage /\ stage = Absent /\ stage' = Blank
       \/ HasStage /\ stage # Absent /\ stage.of # Focus /\ stage' = Blank
       \/ ~HasStage /\ stage # Absent /\ stage' = Absent
    /\ UNCHANGED <<hosts, problems, triggers, tab, cluster, query, jumped, turns>>

ExpandOk ==
    /\ Turn /\ stage # Absent /\ Collapsible(OnStage)
    /\ stage' = [stage EXCEPT !.open = ~stage.open]
    /\ UNCHANGED <<hosts, problems, triggers, tab, cluster, query, jumped>>

\* A click on a family zooms in on it; the breadcrumb and "fit" zoom out.
FocusFamily ==
    /\ Turn /\ stage # Absent /\ Selected # {}
    /\ \/ \E e \in Ring(OnStage, stage.open) :
            /\ e.node[1] \in {"prefix", "domain", "misc"} /\ ~Opened(e.node)
            /\ stage' = [stage EXCEPT !.family = e.node, !.level = 2]
       \/ stage' = [stage EXCEPT !.family = Absent, !.level = 1]
    /\ UNCHANGED <<hosts, problems, triggers, tab, cluster, query, jumped>>

Zoom ==
    /\ Turn /\ stage # Absent /\ Selected # {}
    /\ \E l \in 1 .. 3 : stage' = [stage EXCEPT !.level = l]
    /\ UNCHANGED <<hosts, problems, triggers, tab, cluster, query, jumped>>

HostsArrive ==
    /\ Turn
    /\ hosts' \in HostLists \ {hosts}
    /\ UNCHANGED <<problems, triggers, tab, cluster, query, jumped, stage>>

\* Every 30 s.
ProblemsArrive ==
    /\ Turn
    /\ problems' \in ProblemLists \ {problems}
    /\ UNCHANGED <<hosts, triggers, tab, cluster, query, jumped, stage>>

\* An answer is for the ids it was asked with; the cache may give it at once.
TriggersArrive ==
    /\ ~Due /\ Key # {} /\ triggers # Key
    /\ triggers' = Key
    /\ UNCHANGED <<hosts, problems, tab, cluster, query, jumped, stage, turns>>

Next ==
    \/ SetTab \/ SetCluster \/ Type \/ Jump \/ ResetStage \/ ExpandOk \/ FocusFamily \/ Zoom
    \/ HostsArrive \/ ProblemsArrive \/ TriggersArrive

Spec == Init /\ [][Next]_vars

---------------------------------------------------------------------------
(* Properties.                                                             *)

\* The variables keep their types; no two clusters have an id.
TypeOK ==
    /\ hosts \in HostLists /\ problems \in ProblemLists \cup {{}} /\ tab \in Tabs
    /\ \A c, d \in Clusters(tab) : c.id = d.id => c = d
    /\ stage = Absent \/ (stage.open \in BOOLEAN /\ stage.level \in 1 .. 3)

\* No host is lost on the way from the answer to the stage.  The subnets and the
\* proxies each divide the hosts that have one, a group of proxies being one of
\* its own; a cluster's ring stands for each of its hosts once, however few of
\* them share a name, with a node of its own for each that is badly off and for
\* each that has a problem while the quiet ones are put together
\* (topology.ts:84-99, 301-387, radial-layout.ts:153-279, FocusStage.tsx:104-140).
StageShowsAll ==
    /\ \A t \in {"l3", "proxies"} : \A h \in hosts :
         LET of == {c \in Clusters(t) : h \in c.hosts}
         IN  /\ Cardinality(of) = IF t = "l3" /\ SubnetOf(h) = Absent THEN 0 ELSE 1
             /\ \A c \in of : t = "proxies" /\ h.by = 2 /\ h.group # 0 => c.id = <<"proxygroup", h.group>>
    /\ stage # Absent =>
         LET ring == Ring(OnStage, stage.open)
         IN  /\ \A h \in OnStage : Cardinality({e \in ring : h \in e.hosts}) = 1
             /\ UNION {e.hosts : e \in ring} = OnStage
             /\ \A e \in ring : Cardinality(e.hosts) > 1 =>
                  \A h \in e.hosts : SeverityOf(h) < (IF e.node = Ok THEN 0 ELSE 3)
=============================================================================
