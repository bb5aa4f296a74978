----------------------------- MODULE ServiceGraph -----------------------------
(***************************************************************************)
(* What is computed from the dependencies and their associations: the full *)
(* graph, the graph of a team and the subgraph of a service (GraphService  *)
(* with DependencyGraphBuilder and ExternalNodeBuilder), the wallboard     *)
(* (WallboardService) and the aggregated health of a service               *)
(* (utils/serviceHealth).                                                  *)
(*                                                                         *)
(* Requests read the whole database in one step, so the views are          *)
(* operators of the state; the steps are what changes it.                  *)
(***************************************************************************)
EXTENDS Integers, FiniteSets, FiniteSetsExt

CONSTANTS
    Services,
    TeamOfService,
    IsExternal,     \* services without polls that a user declared external
    Rows,           \* dependencies, numbered in the order they were created
    OwnerOf,        \* the service that reports a dependency
    NameOf,         \* canonical_name ?? name, in lower case and trimmed
    TypeOf,         \* the type of a dependency
    LinkChoices,    \* the services a dependency may be linked to
    Toggled,        \* services that users deactivate and reactivate
    Kinds,          \* healthy, health_state and skipped in the reports
    NoTarget        \* NULL in target_service_id

Kind == [healthy : BOOLEAN, state : 0..2, skipped : BOOLEAN]

ASSUME GraphConstants ==
    /\ Rows = 1..Cardinality(Rows) /\ IsFiniteSet(Rows) /\ IsFiniteSet(Services)
    /\ OwnerOf \in [Rows -> Services]
    /\ LinkChoices \in [Rows -> SUBSET Services]
    /\ IsExternal \subseteq Services /\ Toggled \subseteq Services
    /\ Kinds \subseteq Kind /\ Kinds # {}
    /\ NoTarget \notin Services

VARIABLES
    kind,    \* the last report of each dependency
    links,   \* dependency_associations of each dependency, dismissed or not
    active   \* services.is_active

graphVars == <<kind, links, active>>

----------------------------------------------------------------------------
(* Rows of a query with LEFT JOIN: one for each association.               *)

TargetsOfRow(r) == IF links[r] = {} THEN {NoTarget} ELSE links[r]
Joined(rows) == UNION {{[row |-> r, target |-> t] : t \in TargetsOfRow(r)} : r \in rows}
RowsOf(services) == {r \in Rows : OwnerOf[r] \in services}
ActiveRows == RowsOf(active)

\* The virtual node of the dependencies of one name without association.
External(name) == <<"external", name>>
Node(s) == <<"service", s>>
Nodes(services) == {Node(s) : s \in services}
ExternalNodes(joined) == {External(NameOf[j.row]) : j \in {x \in joined : x.target = NoTarget}}
SourceOf(j) == IF j.target = NoTarget THEN External(NameOf[j.row]) ELSE Node(j.target)
TargetsOf(joined) == {j.target : j \in joined} \ {NoTarget}

\* addEdge: one edge for all dependencies of one type between two nodes.
Edge(j) == [source |-> SourceOf(j), target |-> Node(OwnerOf[j.row]), type |-> TypeOf[j.row]]
Graph(services, joined) ==
    LET nodes == Nodes(services) \cup ExternalNodes(joined)
    IN  [nodes |-> nodes, edges |-> {Edge(j) : j \in {x \in joined : SourceOf(x) \in nodes}}]

----------------------------------------------------------------------------
(* The graphs. *)

\* buildGraph: services that are only associated are added, inactive or not.
FullGraph ==
    LET joined == Joined(ActiveRows)
    IN  Graph((active \ IsExternal) \cup TargetsOf(joined), joined)

TeamServices(t) == {s \in active : TeamOfService[s] = t}
TeamGraph(t) ==
    LET joined == Joined(RowsOf(TeamServices(t)))
    IN  Graph(TeamServices(t) \cup TargetsOf(joined), joined)

\* One round of traverseUpstream: the services visited after it.
NextFrontier(visited) == visited \cup TargetsOf(Joined(RowsOf(visited)))
\* traverseUpstream ends when a round visits nothing new.
Upstream(s) ==
    LET visited[n \in 0..Cardinality(Services)] ==
            IF n = 0 THEN {s} ELSE NextFrontier(visited[n - 1])
    IN  visited[Cardinality(Services)]
\* The subgraph of a service, active or not.
Subgraph(s) == Graph(Upstream(s), Joined(RowsOf(Upstream(s))))

----------------------------------------------------------------------------
(* The wallboard and the health of a service. *)

\* Mutant: a check that is unhealthy in state 0 counts as healthy.
StatusByState(k) ==
    CASE k.skipped -> -1
      [] ~k.skipped /\ k.state = 2 -> 3
      [] ~k.skipped /\ k.state = 1 -> 2
      [] OTHER -> 1
\* STATUS_PRIORITY of resolveHealthStatus: skipped, healthy, warning, critical.
Status(k) ==
    CASE k.skipped -> -1
      [] ~k.skipped /\ k.state = 2 -> 3
      [] ~k.skipped /\ k.state = 1 -> 2
      [] OTHER -> IF k.healthy THEN 1 ELSE 3

\* The group of a linked service, for the teams whose services are shown.
Group(s, teams) == {r \in ActiveRows : s \in links[r] /\ TeamOfService[OwnerOf[r]] \in teams}
WorstStatus(group) == Max({Status(kind[r]) : r \in group})

\* calculateAggregatedHealth from the dependents' reports, or from the
\* service's own dependencies if there are none.  It does not look at skipped.
ReportsOn(s) == {r \in ActiveRows : s \in links[r]}
Considered(s) == IF ReportsOn(s) # {} THEN ReportsOn(s) ELSE {r \in Rows : OwnerOf[r] = s}
Counted(rows, healthy) == Cardinality({r \in rows :
    healthy => kind[r].state = 0 /\ kind[r].healthy})
AggregatedHealth(s) ==
    LET all == Counted(Considered(s), FALSE)
        good == Counted(Considered(s), TRUE)
    IN  CASE all = 0 -> "unknown"
          [] all > 0 /\ 100 * good >= 80 * all -> "healthy"
          [] all > 0 /\ 100 * good < 80 * all /\ 100 * good >= 50 * all -> "warning"
          [] OTHER -> "critical"

----------------------------------------------------------------------------
(* What changes the database. *)

\* A poll of an active service, or a push to any.
ReportKind(r, k) ==
    /\ kind[r] # k
    /\ kind' = [kind EXCEPT ![r] = k]
    /\ UNCHANGED <<links, active>>

ToggleLink(r, s) ==
    /\ links' = [links EXCEPT ![r] = IF s \in @ THEN @ \ {s} ELSE @ \cup {s}]
    /\ UNCHANGED <<kind, active>>

ToggleService(s) ==
    /\ active' = IF s \in active THEN active \ {s} ELSE active \cup {s}
    /\ UNCHANGED <<kind, links>>

GraphInit ==
    /\ kind = [r \in Rows |-> CHOOSE k \in Kinds : TRUE]
    /\ links = [r \in Rows |-> {}]
    /\ active = Services

GraphNext ==
    \/ \E r \in Rows : \/ \E k \in Kinds : ReportKind(r, k)
                       \/ \E s \in LinkChoices[r] : ToggleLink(r, s)
    \/ \E s \in Toggled : ToggleService(s)

GraphSpec == GraphInit /\ [][GraphNext]_graphVars

----------------------------------------------------------------------------
(* Properties. *)

GraphTypeOK ==
    /\ kind \in [Rows -> Kinds]
    /\ links \in [Rows -> SUBSET Services]
    /\ \A r \in Rows : links[r] \subseteq LinkChoices[r]
    /\ active \subseteq Services

\* The subgraph of a service shows it and exactly the services reachable from
\* it along associations, cycles and self-links included, each with all its
\* dependencies: what is in every set that contains it and is closed.
SubgraphComplete == \A s \in Services :
    LET g == Subgraph(s)
        closed == {set \in SUBSET Services :
            s \in set /\ \A r \in RowsOf(set) : links[r] \subseteq set}
        shown == {x \in Services : Node(x) \in g.nodes}
    IN  /\ shown = {x \in Services : \A set \in closed : x \in set}
        /\ \A j \in Joined(RowsOf(shown)) :
              Edge(j) \in g.edges /\ Edge(j).source \in g.nodes

\* Every edge of the graph of a team is an edge of the full graph between
\* nodes of the full graph, unless it shows a dependency of an external
\* service (pushed over OTLP), which has no node of its own there.
TeamWithinFull == \A t \in {TeamOfService[s] : s \in Services} : \A e \in TeamGraph(t).edges :
    /\ e \in FullGraph.edges
    /\ {e.source, e.target} \subseteq TeamGraph(t).nodes
    /\ {e.source, e.target} \subseteq FullGraph.nodes \/ e.target \in Nodes(IsExternal)

\* The two judgements of a service that others report on, of the wallboard
\* and of its page, agree: nothing is wrong on the wallboard of all teams
\* exactly if every report is good, and then its page says healthy.
WallboardAgrees == \A s \in Services :
    LET group == Group(s, {TeamOfService[x] : x \in Services})
    IN  (group # {} /\ \A r \in group : ~kind[r].skipped) =>
        /\ WorstStatus(group) = 1 <=> Counted(Considered(s), TRUE) = Cardinality(group)
        /\ WorstStatus(group) = 1 => AggregatedHealth(s) = "healthy"
        /\ AggregatedHealth(s) \in {"warning", "critical"} => WorstStatus(group) > 1
=============================================================================
