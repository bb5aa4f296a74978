----------------------------- MODULE ViewsProofs -----------------------------
(***************************************************************************)
(* Proofs about what is shown of the whole database: the graphs and the    *)
(* wallboard (ServiceGraph), the page of associations, and what follows for*)
(* the parts of the server together.                                       *)
(*                                                                         *)
(* The subgraph of a service is the result of a recursion, and what it is  *)
(* for any number of services is proved by induction on the rounds of      *)
(* traverseUpstream.  The library's theorems of induction take predicates, *)
(* which the provers here cannot instantiate; UpTo (MigrationsProofs) is   *)
(* induction on a set, from the least element of a set of numbers.         *)
(***************************************************************************)
EXTENDS MCServer, ServerProofs, MigrationsProofs, FiniteSetTheorems, TLAPS

----------------------------------------------------------------------------
(* ServiceGraph. *)

LEMMA FrontierIs ==
    ASSUME GraphTypeOK, NEW set \in SUBSET Services
    PROVE  /\ NextFrontier(set) \in SUBSET Services
           /\ set \subseteq NextFrontier(set)
           /\ \A r \in RowsOf(set) : links[r] \subseteq NextFrontier(set)
           /\ \A big \in SUBSET Services :
                 set \subseteq big /\ (\A r \in RowsOf(big) : links[r] \subseteq big)
                    => NextFrontier(set) \subseteq big
  <1>1. \A r \in Rows : links[r] \subseteq Services
    BY DEF GraphTypeOK
  <1>2. \A t \in TargetsOf(Joined(RowsOf(set))) : \E r \in RowsOf(set) : t \in links[r]
    BY DEF TargetsOf, Joined, TargetsOfRow
  <1>3. \A r \in RowsOf(set) : \A t \in links[r] : t \in TargetsOf(Joined(RowsOf(set)))
    <2> SUFFICES ASSUME NEW r \in RowsOf(set), NEW t \in links[r]
                 PROVE  t \in TargetsOf(Joined(RowsOf(set)))
      OBVIOUS
    <2>1. t \in TargetsOfRow(r) /\ t # NoTarget
      BY <1>1, GraphConstants DEF TargetsOfRow, RowsOf
    <2>2. [row |-> r, target |-> t] \in Joined(RowsOf(set))
      BY <2>1 DEF Joined
    <2> QED
      BY <2>1, <2>2 DEF TargetsOf
  <1>4. RowsOf(set) \subseteq Rows /\ \A big : set \subseteq big => RowsOf(set) \subseteq RowsOf(big)
    BY DEF RowsOf
  <1> QED
    BY <1>1, <1>2, <1>3, <1>4 DEF NextFrontier

\* The rounds of traverseUpstream.
RoundsTo(g, s, n) ==
    /\ g \in [0..n -> SUBSET Services]
    /\ \A k \in 0..n : g[k] = IF k = 0 THEN {s} ELSE NextFrontier(g[k - 1])

LEMMA RoundsExist ==
    ASSUME GraphTypeOK, NEW s \in Services, NEW n \in Nat
    PROVE  \E g : RoundsTo(g, s, n)
  <1> DEFINE T == {k \in 0..n : \E g : RoundsTo(g, s, k)}
  <1>1. 0 \in T
    <2>1. RoundsTo([k \in 0..0 |-> {s}], s, 0)
      BY DEF RoundsTo
    <2> QED
      BY <2>1
  <1>2. ASSUME NEW k \in 0..n, k \in T, k < n
        PROVE  k + 1 \in T
    <2>1. PICK g : RoundsTo(g, s, k)
      BY <1>2
    <2> DEFINE h == [i \in 0..(k + 1) |-> IF i = k + 1 THEN NextFrontier(g[k]) ELSE g[i]]
    <2>2. NextFrontier(g[k]) \in SUBSET Services
      BY <2>1, FrontierIs DEF RoundsTo
    <2>3. h \in [0..(k + 1) -> SUBSET Services]
      BY <2>1, <2>2 DEF RoundsTo
    <2>4. \A i \in 0..(k + 1) : h[i] = IF i = 0 THEN {s} ELSE NextFrontier(h[i - 1])
      <3> SUFFICES ASSUME NEW i \in 0..(k + 1)
                   PROVE  h[i] = IF i = 0 THEN {s} ELSE NextFrontier(h[i - 1])
        OBVIOUS
      <3>1. CASE i = k + 1
        <4>1. h[i] = NextFrontier(g[k]) /\ h[i - 1] = g[k] /\ i # 0
          BY <3>1
        <4> QED
          BY <4>1
      <3>2. CASE i # k + 1 /\ i # 0
        <4>1. h[i] = g[i] /\ h[i - 1] = g[i - 1] /\ i \in 0..k
          BY <3>2
        <4> QED
          BY <4>1, <3>2, <2>1 DEF RoundsTo
      <3>3. CASE i # k + 1 /\ i = 0
        <4>1. h[i] = g[i] /\ i \in 0..k
          BY <3>3
        <4> QED
          BY <4>1, <3>3, <2>1 DEF RoundsTo
      <3> QED
        BY <3>1, <3>2, <3>3
    <2>5. RoundsTo(h, s, k + 1)
      BY <2>3, <2>4 DEF RoundsTo
    <2> QED
      BY <1>2, <2>5
  <1> HIDE DEF T
  <1>3. n \in T
    BY <1>1, <1>2, UpTo
  <1> QED
    BY <1>3 DEF T

LEMMA UpstreamRounds ==
    ASSUME GraphTypeOK, NEW s \in Services
    PROVE  \E g : RoundsTo(g, s, Cardinality(Services)) /\ Upstream(s) = g[Cardinality(Services)]
  <1> DEFINE C == Cardinality(Services)
             Is(g) == g = [n \in 0..C |-> IF n = 0 THEN {s} ELSE NextFrontier(g[n - 1])]
  <1>1. C \in Nat
    BY GraphConstants, FS_CardinalityType
  <1>2. PICK g : RoundsTo(g, s, C)
    BY <1>1, RoundsExist
  <1>3. Is(g)
    BY <1>2 DEF RoundsTo
  <1> DEFINE f == CHOOSE h : Is(h)
  <1>4. Is(f)
    BY <1>3
  <1>5. Upstream(s) = f[C]
    BY DEF Upstream
  <1> HIDE DEF f
  <1>6. \A n \in 0..C : f[n] = IF n = 0 THEN {s} ELSE NextFrontier(f[n - 1])
    BY <1>4
  <1>7. ASSUME NEW n \in 0..C
        PROVE  f[n] \in SUBSET Services
    <2> DEFINE T == {k \in 0..n : f[k] \in SUBSET Services}
    <2>1. 0 \in T
      BY <1>6, <1>1
    <2>2. ASSUME NEW k \in 0..n, k \in T, k < n
          PROVE  k + 1 \in T
      <3>1. f[k + 1] = NextFrontier(f[k])
        BY <1>6, <1>1, <2>2
      <3> QED
        BY <3>1, <2>2, FrontierIs
    <2> HIDE DEF T
    <2>3. n \in T
      BY <1>1, <2>1, <2>2, UpTo
    <2> QED
      BY <2>3 DEF T
  <1>8. f \in [0..C -> SUBSET Services]
    BY <1>4, <1>7
  <1>9. RoundsTo(f, s, C)
    BY <1>6, <1>8 DEF RoundsTo
  <1> QED
    BY <1>5, <1>9

\* Closed: whatever a dependency of the set is associated with is in it.
Closed(set) == \A r \in RowsOf(set) : links[r] \subseteq set

\* A round that visits nothing new is the last one, and each of the others
\* visits a service more, of which there are no more than rounds.
LEMMA UpstreamIsLeast ==
    ASSUME GraphTypeOK, NEW s \in Services
    PROVE  /\ Upstream(s) \in SUBSET Services /\ s \in Upstream(s) /\ Closed(Upstream(s))
           /\ \A set \in SUBSET Services : s \in set /\ Closed(set) => Upstream(s) \subseteq set
  <1> DEFINE C == Cardinality(Services)
  <1>1. C \in Nat /\ IsFiniteSet(Services)
    BY GraphConstants, FS_CardinalityType
  <1>2. PICK g : RoundsTo(g, s, C) /\ Upstream(s) = g[C]
    BY UpstreamRounds
  <1>3. /\ \A n \in 0..C : g[n] \in SUBSET Services
        /\ g[0] = {s}
        /\ \A n \in 0..C : n < C => g[n + 1] = NextFrontier(g[n])
    BY <1>1, <1>2 DEF RoundsTo
  <1>4. ASSUME NEW n \in 0..C
        PROVE  IsFiniteSet(g[n]) /\ Cardinality(g[n]) \in Nat /\ Cardinality(g[n]) <= C
    BY <1>1, <1>3, FS_Subset, FS_CardinalityType
  <1>5. s \in g[C]
    <2> DEFINE T == {n \in 0..C : s \in g[n]}
    <2>1. 0 \in T
      BY <1>1, <1>3
    <2>2. ASSUME NEW k \in 0..C, k \in T, k < C
          PROVE  k + 1 \in T
      BY <1>1, <1>3, <2>2, FrontierIs
    <2> HIDE DEF T
    <2>3. C \in T
      BY <1>1, <2>1, <2>2, UpTo
    <2> QED
      BY <2>3 DEF T
  <1>6. Closed(g[C])
    <2> DEFINE T == {n \in 0..C : Closed(g[n]) \/ Cardinality(g[n]) > n}
    <2>1. 0 \in T
      <3>1. Cardinality({s}) = 1
        BY FS_Singleton
      <3> QED
        BY <3>1, <1>1, <1>3
    <2>2. ASSUME NEW k \in 0..C, k \in T, k < C
          PROVE  k + 1 \in T
      <3>1. /\ g[k + 1] = NextFrontier(g[k]) /\ k + 1 \in 0..C
            /\ g[k] \in SUBSET Services /\ g[k + 1] \in SUBSET Services
        BY <1>1, <1>3, <2>2
      <3>2. g[k] \subseteq g[k + 1]
        BY <3>1, FrontierIs
      <3>3. CASE g[k] = g[k + 1]
        <4>1. Closed(g[k])
          BY <3>1, <3>3, FrontierIs DEF Closed
        <4> QED
          BY <4>1, <3>1, <3>3
      <3>4. CASE g[k] # g[k + 1]
        <4>1. ~Closed(g[k])
          BY <3>1, <3>2, <3>4, FrontierIs DEF Closed
        <4>2. Cardinality(g[k]) > k
          BY <4>1, <2>2
        <4>3. Cardinality(g[k]) < Cardinality(g[k + 1])
          BY <1>4, <3>1, <3>2, <3>4, FS_Subset
        <4> QED
          BY <4>2, <4>3, <3>1, <1>4, <1>1
      <3> QED
        BY <3>3, <3>4
    <2> HIDE DEF T
    <2>3. C \in T
      BY <1>1, <2>1, <2>2, UpTo
    <2>4. Closed(g[C]) \/ Cardinality(g[C]) > C
      BY <2>3 DEF T
    <2> QED
      BY <2>4, <1>1, <1>4
  <1>7. ASSUME NEW set \in SUBSET Services, s \in set, Closed(set)
        PROVE  g[C] \subseteq set
    <2> DEFINE T == {n \in 0..C : g[n] \subseteq set}
    <2>1. 0 \in T
      BY <1>1, <1>3, <1>7
    <2>2. ASSUME NEW k \in 0..C, k \in T, k < C
          PROVE  k + 1 \in T
      BY <1>1, <1>3, <1>7, <2>2, FrontierIs DEF Closed
    <2> HIDE DEF T
    <2>3. C \in T
      BY <1>1, <2>1, <2>2, UpTo
    <2> QED
      BY <2>3 DEF T
  <1>8. g[C] \in SUBSET Services
    BY <1>1, <1>3
  <1> QED
    BY <1>2, <1>5, <1>6, <1>7, <1>8

LEMMA SubgraphIsComplete ==
    ASSUME GraphTypeOK
    PROVE  SubgraphComplete
  <1> SUFFICES ASSUME NEW s \in Services
               PROVE  LET g == Subgraph(s)
                          closed == {set \in SUBSET Services :
                              s \in set /\ \A r \in RowsOf(set) : links[r] \subseteq set}
                          shown == {x \in Services : Node(x) \in g.nodes}
                      IN  /\ shown = {x \in Services : \A set \in closed : x \in set}
                          /\ \A j \in Joined(RowsOf(shown)) :
                                Edge(j) \in g.edges /\ Edge(j).source \in g.nodes
    BY DEF SubgraphComplete
  <1> DEFINE g == Subgraph(s)
             up == Upstream(s)
             closed == {set \in SUBSET Services :
                           s \in set /\ \A r \in RowsOf(set) : links[r] \subseteq set}
             shown == {x \in Services : Node(x) \in g.nodes}
             joined == Joined(RowsOf(up))
  <1>1. /\ up \in SUBSET Services /\ s \in up /\ Closed(up)
        /\ \A set \in SUBSET Services : s \in set /\ Closed(set) => up \subseteq set
    BY UpstreamIsLeast
  <1>2. /\ g.nodes = Nodes(up) \cup ExternalNodes(joined)
        /\ g.edges = {Edge(j) : j \in {x \in joined : SourceOf(x) \in g.nodes}}
    BY DEF Subgraph, Graph
  <1> HIDE DEF g, up, joined
  <1>3. shown = up
    <2>1. \A x \in up : Node(x) \in Nodes(up)
      BY DEF Nodes
    <2>2. \A x \in Services : Node(x) \in Nodes(up) => x \in up
      BY DEF Nodes, Node
    <2>3. \A x \in Services : Node(x) \notin ExternalNodes(joined)
      BY DEF ExternalNodes, External, Node
    <2> QED
      BY <1>1, <1>2, <2>1, <2>2, <2>3
  <1>4. up = {x \in Services : \A set \in closed : x \in set}
    BY <1>1 DEF Closed
  <1>5. \A r \in Rows : links[r] \subseteq Services
    BY DEF GraphTypeOK
  <1>6. ASSUME NEW j \in joined
        PROVE  Edge(j) \in g.edges /\ Edge(j).source \in g.nodes
    <2>1. PICK r \in RowsOf(up) : \E t \in TargetsOfRow(r) : j = [row |-> r, target |-> t]
      BY DEF joined, Joined
    <2>2. j.target # NoTarget => j.target \in up
      BY <1>1, <2>1 DEF TargetsOfRow, Closed
    <2>3. SourceOf(j) \in g.nodes
      BY <1>2, <2>2 DEF SourceOf, ExternalNodes, Nodes
    <2> QED
      BY <1>2, <2>3 DEF Edge
  <1> QED
    BY <1>3, <1>4, <1>6 DEF g, joined

LEMMA TeamIsWithinFull ==
    ASSUME GraphTypeOK
    PROVE  TeamWithinFull
  <1> SUFFICES ASSUME NEW t \in {TeamOfService[s] : s \in Services}, NEW e \in TeamGraph(t).edges
               PROVE  /\ e \in FullGraph.edges
                      /\ {e.source, e.target} \subseteq TeamGraph(t).nodes
                      /\ \/ {e.source, e.target} \subseteq FullGraph.nodes
                         \/ e.target \in Nodes(IsExternal)
    BY DEF TeamWithinFull
  <1> DEFINE mine == TeamServices(t)
             ofTeam == Joined(RowsOf(mine))
             ofAll == Joined(ActiveRows)
             tNodes == Nodes(mine \cup TargetsOf(ofTeam)) \cup ExternalNodes(ofTeam)
             fNodes == Nodes((active \ IsExternal) \cup TargetsOf(ofAll)) \cup ExternalNodes(ofAll)
  <1>1. /\ TeamGraph(t).nodes = tNodes
        /\ TeamGraph(t).edges = {Edge(j) : j \in {x \in ofTeam : SourceOf(x) \in tNodes}}
    BY DEF TeamGraph, Graph
  <1>2. /\ FullGraph.nodes = fNodes
        /\ FullGraph.edges = {Edge(j) : j \in {x \in ofAll : SourceOf(x) \in fNodes}}
    BY DEF FullGraph, Graph
  <1>3. PICK j \in ofTeam : e = Edge(j) /\ SourceOf(j) \in tNodes
    BY <1>1
  <1>4. j.row \in RowsOf(mine) /\ j \in ofAll
    <2>1. mine \subseteq active
      BY DEF TeamServices
    <2> QED
      BY <2>1 DEF Joined, RowsOf, ActiveRows
  <1>5. OwnerOf[j.row] \in mine /\ OwnerOf[j.row] \in active
    BY <1>4 DEF RowsOf, TeamServices
  <1>6. SourceOf(j) \in fNodes
    <2>1. CASE j.target = NoTarget
      BY <2>1, <1>4 DEF SourceOf, ExternalNodes
    <2>2. CASE j.target # NoTarget
      BY <2>2, <1>4 DEF SourceOf, TargetsOf, Nodes
    <2> QED
      BY <2>1, <2>2
  <1>7. e.source = SourceOf(j) /\ e.target = Node(OwnerOf[j.row])
    BY <1>3 DEF Edge
  <1>8. e.target \in tNodes /\ (e.target \in fNodes \/ e.target \in Nodes(IsExternal))
    BY <1>5, <1>7 DEF Nodes
  <1> HIDE DEF tNodes, fNodes, ofTeam, ofAll
  <1> QED
    BY <1>1, <1>2, <1>3, <1>4, <1>6, <1>7, <1>8

\* The worst status of reports of which none was skipped is good only if each is.
LEMMA WorstIsGood ==
    ASSUME GraphTypeOK, NEW group \in SUBSET Rows, group # {},
           \A r \in group : ~kind[r].skipped
    PROVE  /\ WorstStatus(group) \in {1, 2, 3}
           /\ WorstStatus(group) = 1 <=>
                 \A r \in group : kind[r].state = 0 /\ kind[r].healthy
  <1> DEFINE all == {Status(kind[r]) : r \in group}
  <1>1. \A r \in group : kind[r] \in [healthy : BOOLEAN, state : 0..2, skipped : BOOLEAN]
    BY GraphConstants DEF GraphTypeOK, Kind
  <1>2. \A r \in group : /\ Status(kind[r]) \in {1, 2, 3}
                         /\ Status(kind[r]) = 1 <=> kind[r].state = 0 /\ kind[r].healthy
    <2> SUFFICES ASSUME NEW r \in group
                 PROVE  /\ Status(kind[r]) \in {1, 2, 3}
                        /\ Status(kind[r]) = 1 <=> kind[r].state = 0 /\ kind[r].healthy
      OBVIOUS
    <2>1. kind[r].state \in 0..2 /\ ~kind[r].skipped
      BY <1>1
    <2>2. CASE kind[r].state = 2
      BY <2>1, <2>2 DEF Status
    <2>3. CASE kind[r].state = 1
      BY <2>1, <2>3 DEF Status
    <2>4. CASE kind[r].state = 0 /\ kind[r].healthy
      BY <2>1, <2>4 DEF Status
    <2>5. CASE kind[r].state = 0 /\ ~kind[r].healthy
      BY <2>1, <2>5 DEF Status
    <2> QED
      BY <2>1, <2>2, <2>3, <2>4, <2>5
  <1>3. all # {} /\ all \subseteq {1, 2, 3}
    <2>1. \A r \in group : Status(kind[r]) \in {1, 2, 3}
      BY <1>2
    <2>2. all # {}
      OBVIOUS
    <2> QED
      BY <2>1, <2>2
  <1>4. \E x \in all : \A y \in all : x >= y
    <2> HIDE DEF all
    <2>1. CASE 3 \in all
      BY <2>1, <1>3
    <2>2. CASE 3 \notin all /\ 2 \in all
      BY <2>2, <1>3
    <2>3. CASE 3 \notin all /\ 2 \notin all
      <3>1. PICK x \in all : TRUE
        BY <1>3
      <3>2. \A y \in all : y = 1
        BY <2>3, <1>3
      <3> QED
        BY <3>1, <3>2
    <2> QED
      BY <2>1, <2>2, <2>3
  <1>5. WorstStatus(group) \in all /\ \A y \in all : WorstStatus(group) >= y
    BY <1>4 DEF WorstStatus, Max
  <1>6. WorstStatus(group) = 1 <=> \A r \in group : Status(kind[r]) = 1
    BY <1>2, <1>3, <1>5
  <1> QED
    BY <1>2, <1>3, <1>5, <1>6

LEMMA WallboardDoesAgree ==
    ASSUME GraphTypeOK
    PROVE  WallboardAgrees
  <1> DEFINE teams == {TeamOfService[x] : x \in Services}
  <1> SUFFICES ASSUME NEW s \in Services, Group(s, teams) # {},
                      \A r \in Group(s, teams) : ~kind[r].skipped
               PROVE  LET group == Group(s, teams)
                      IN  /\ WorstStatus(group) = 1 <=>
                                Counted(Considered(s), TRUE) = Cardinality(group)
                          /\ WorstStatus(group) = 1 => AggregatedHealth(s) = "healthy"
                          /\ AggregatedHealth(s) \in {"warning", "critical"} =>
                                WorstStatus(group) > 1
    BY DEF WallboardAgrees
  <1> DEFINE group == Group(s, teams)
             good == {r \in group : kind[r].state = 0 /\ kind[r].healthy}
  <1>1. group = ReportsOn(s) /\ group \subseteq Rows
    <2>1. ActiveRows \subseteq Rows /\ \A r \in ActiveRows : OwnerOf[r] \in Services
      BY GraphConstants DEF ActiveRows, RowsOf
    <2> QED
      BY <2>1 DEF Group, ReportsOn
  <1>2. Considered(s) = group /\ group # {} /\ \A r \in group : ~kind[r].skipped
    BY <1>1 DEF Considered
  <1> HIDE DEF group
  <1>3. Counted(group, FALSE) = Cardinality(group) /\ Counted(group, TRUE) = Cardinality(good)
    BY DEF Counted
  <1>4. /\ WorstStatus(group) \in {1, 2, 3}
        /\ WorstStatus(group) = 1 <=> good = group
    BY <1>1, <1>2, WorstIsGood
  <1>5. IsFiniteSet(group) /\ Cardinality(group) \in Nat /\ Cardinality(group) # 0
    BY <1>1, <1>2, GraphConstants, FS_Subset, FS_CardinalityType, FS_EmptySet
  <1>6. Cardinality(good) = Cardinality(group) <=> good = group
    BY <1>5, FS_Subset
  <1>7. good = group => AggregatedHealth(s) = "healthy"
    <2> SUFFICES ASSUME good = group
                 PROVE  AggregatedHealth(s) = "healthy"
      OBVIOUS
    <2> DEFINE n == Cardinality(group)
               a == Counted(Considered(s), FALSE)
               b == Counted(Considered(s), TRUE)
    <2>1. a = n /\ b = n
      BY <1>2, <1>3
    <2>2. n \in Nat /\ n > 0 /\ 100 * n >= 80 * n
      BY <1>5
    <2>3. ~(a = 0) /\ a > 0 /\ 100 * b >= 80 * a
      <3> HIDE DEF n, a, b
      <3> QED
        BY <2>1, <2>2
    <2>4. AggregatedHealth(s) =
             CASE a = 0 -> "unknown"
               [] a > 0 /\ 100 * b >= 80 * a -> "healthy"
               [] a > 0 /\ 100 * b < 80 * a /\ 100 * b >= 50 * a -> "warning"
               [] OTHER -> "critical"
      BY DEF AggregatedHealth
    <2> HIDE DEF n, a, b
    <2>5. a \in Nat /\ b \in Nat
      BY <2>1, <2>2
    <2> QED
      BY <2>3, <2>4, <2>5
  <1>8. AggregatedHealth(s) \in {"warning", "critical"} => WorstStatus(group) > 1
    BY <1>4, <1>7
  <1> QED
    BY <1>2, <1>3, <1>4, <1>6, <1>7, <1>8 DEF group

LEMMA GraphStarts == GraphInit => GraphTypeOK
  BY GraphConstants DEF GraphInit, GraphTypeOK

LEMMA GraphSteps ==
    ASSUME GraphTypeOK, GraphNext \/ UNCHANGED graphVars
    PROVE  GraphTypeOK'
  <1>1. CASE \E r \in Rows, k \in Kinds : ReportKind(r, k)
    BY <1>1 DEF GraphTypeOK, ReportKind
  <1>2. CASE \E r \in Rows : \E s \in LinkChoices[r] : ToggleLink(r, s)
    <2>1. PICK r \in Rows : \E s \in LinkChoices[r] : ToggleLink(r, s)
      BY <1>2
    <2>2. LinkChoices[r] \subseteq Services
      BY GraphConstants
    <2>3. links[r] \in SUBSET Services /\ links[r] \subseteq LinkChoices[r]
      BY DEF GraphTypeOK
    <2> QED
      BY <2>1, <2>2, <2>3 DEF GraphTypeOK, ToggleLink
  <1>3. CASE \E s \in Toggled : ToggleService(s)
    BY <1>3, GraphConstants DEF GraphTypeOK, ToggleService
  <1>4. CASE UNCHANGED graphVars
    BY <1>4 DEF GraphTypeOK, graphVars
  <1> QED
    BY <1>1, <1>2, <1>3, <1>4 DEF GraphNext

----------------------------------------------------------------------------
(* AssociationsPage. *)

AllRows == UNION {Entries(l) : l \in Lists}
PageCalls ==
    [kind : {"link"}, dep : PageDeps, target : LinkTargets, mounted : BOOLEAN]
    \cup [kind : {"unlink"}, dep : PageDeps, target : LinkTargets]
    \cup [kind : {"alias"}, alias : AliasNames, name : CanonicalNames]
    \cup [kind : {"unalias", "delete"}, id : RowIds]
    \cup [kind : {"save"}, name : CanonicalNames, text : OverrideTexts]
    \cup [kind : {"clear"}, name : CanonicalNames]
    \cup [kind : {"create"}, name : ExternalNames]
    \cup [kind : {"update"}, id : RowIds, name : ExternalNames]
ListLoad == [state : {"none", "asked", "read", "failed", "names"}, rows : SUBSET AllRows,
             missed : BOOLEAN, then : BOOLEAN]
ShownLists == [Lists -> {Nothing} \cup SUBSET AllRows]
ListMarks == [Lists -> BOOLEAN]
ListLoads == [Lists -> [Loads -> ListLoad]]
PageRequests == SUBSET PageCalls
OpenDeps == SUBSET PageDeps
FilterNames == StatusFilters \cup {"all"}
MaybeDep == PageDeps \cup {Nothing}
MaybeTarget == LinkTargets \cup {""}
MaybeLink == (PageDeps \X LinkTargets) \cup {Nothing}
MaybeAlias == AliasNames \cup {Nothing}
MaybeCanonical == CanonicalNames \cup {Nothing}
MaybeId == RowIds \cup {Nothing}
CanonicalInput == CanonicalNames \cup {""}
OverrideInput == OverrideTexts \cup {""}
ExternalInput == ExternalNames \cup {""}
LinkPages ==
    [shown : ShownLists, behind : ListMarks, loads : ListLoads, calls : PageRequests,
     opened : OpenDeps, filter : FilterNames, adding : MaybeDep, chosen : MaybeTarget,
     target : MaybeLink, aliasOf : MaybeAlias, aliasInput : CanonicalInput,
     overrideOf : MaybeCanonical, overrideInput : OverrideInput, newName : ExternalInput,
     editing : MaybeId, editName : ExternalInput]

\* Every list is shown and read as rows of its own, and the lists that are
\* empty at first are never missing.
ListShape(p) ==
    /\ p \in LinkPages
    /\ \A l \in Lists : /\ p.shown[l] \in {Nothing} \cup SUBSET Entries(l)
                        /\ \A i \in Loads : p.loads[l][i].rows \in SUBSET Entries(l)
    /\ p.shown["aliases"] # Nothing /\ p.shown["overrides"] # Nothing
\* An answer that missed nothing since it was read is the table.
AnswersCurrent(p, tabs) == \A l \in Lists, i \in Loads :
    p.loads[l][i].state = "read" /\ ~p.loads[l][i].missed => p.loads[l][i].rows = tabs[l]
\* A list is behind, or is the table.
ShownCurrent(p, tabs) == \A l \in Lists :
    p.shown[l] # Nothing /\ ~p.behind[l] => Compared(l, p.shown[l]) = Compared(l, tabs[l])
\* Only what is shown is removed, and external services are changed only
\* once they are shown.
HasList(p, c) ==
    /\ c.kind = "unlink" => p.shown[c.dep] # Nothing
    /\ c.kind \in {"create", "update", "delete"} => p.shown["external"] # Nothing
RequestsHaveLists(p) ==
    /\ \A c \in p.calls : HasList(p, c)
    /\ p.target # Nothing => p.target \in PageDeps \X LinkTargets /\ p.shown[p.target[1]] # Nothing
    /\ p.newName # "" => p.shown["external"] # Nothing
ListPage(p, tabs) ==
    ListShape(p) /\ AnswersCurrent(p, tabs) /\ ShownCurrent(p, tabs) /\ RequestsHaveLists(p)

\* The ids of rows are their own.
ListTables(tabs, ids) ==
    /\ tabs \in [Lists -> SUBSET AllRows]
    /\ \A l \in Lists : tabs[l] \in SUBSET Entries(l)
    /\ ids \in SUBSET RowIds
    /\ \A l \in {"aliases", "external"} :
          /\ \A r \in tabs[l] : r.id \in ids
          /\ \A r1, r2 \in tabs[l] : r1.id = r2.id => r1 = r2

LinkInv == ListTables(tables, usedIds) /\ ListPage(linkPage, tables)

LEMMA ListNames ==
    /\ PageDeps \subseteq Lists /\ {"aliases", "overrides", "external"} \subseteq Lists
    /\ \A d \in PageDeps : /\ Entries(d) = LinkTargets
                           /\ d # "aliases" /\ d # "overrides" /\ d # "external"
    /\ Entries("aliases") = AliasRow
    /\ Entries("overrides") = OverrideRow
    /\ Entries("external") = ExternalRow
    /\ \A l \in Lists : Entries(l) \in SUBSET AllRows
  <1>1. \A d \in PageDeps : d # "aliases" /\ d # "overrides" /\ d # "external"
    BY PageConstants
  <1>2. \A d \in PageDeps : Entries(d) = LinkTargets
    BY <1>1 DEF Entries
  <1>3. /\ Entries("aliases") = AliasRow
        /\ Entries("overrides") = OverrideRow
        /\ Entries("external") = ExternalRow
    BY DEF Entries
  <1>4. \A l \in Lists : Entries(l) \in SUBSET AllRows
    BY DEF AllRows
  <1> QED
    BY <1>1, <1>2, <1>3, <1>4 DEF Lists

\* A page that only differs in its forms and requests.
LEMMA FormsOnly ==
    ASSUME NEW p, NEW q, NEW tabs, ListPage(p, tabs), q \in LinkPages,
           q.shown = p.shown, q.behind = p.behind, q.loads = p.loads,
           \A c \in q.calls : HasList(p, c),
           q.target = p.target \/ q.target = Nothing
              \/ (q.target \in PageDeps \X LinkTargets /\ p.shown[q.target[1]] # Nothing),
           q.newName # "" => p.newName # "" \/ p.shown["external"] # Nothing
    PROVE  ListPage(q, tabs)
  <1>1. ListShape(q)
    BY DEF ListPage, ListShape
  <1>2. AnswersCurrent(q, tabs) /\ ShownCurrent(q, tabs)
    BY DEF ListPage, AnswersCurrent, ShownCurrent
  <1>3. RequestsHaveLists(q)
    BY DEF ListPage, RequestsHaveLists, HasList
  <1> QED
    BY <1>1, <1>2, <1>3 DEF ListPage

\* Leaving the page, the form loses its input and its request its form.
LEMMA UnmountedPage ==
    ASSUME NEW p, NEW tabs, ListPage(p, tabs)
    PROVE  ListPage(Unmounted(p), tabs) /\ ListPage(Drawn(p), tabs)
  <1> DEFINE of(c) == IF c.kind = "link" THEN [c EXCEPT !.mounted = FALSE] ELSE c
             q == Unmounted(p)
  <1>1. p \in LinkPages /\ \A c \in p.calls : HasList(p, c) /\ c \in PageCalls
    <2>1. p.calls \in PageRequests
      BY DEF ListPage, ListShape, LinkPages
    <2> QED
      BY <2>1 DEF ListPage, ListShape, RequestsHaveLists, PageRequests
  <1>2. q = [p EXCEPT !.chosen = "", !.calls = {of(c) : c \in p.calls}]
    BY DEF Unmounted
  <1>3. \A c \in p.calls : of(c) \in PageCalls /\ of(c).kind = c.kind /\ (c.kind # "link" => of(c) = c)
    BY <1>1 DEF PageCalls
  <1>4. \A c \in p.calls : HasList(p, of(c))
    BY <1>1, <1>3 DEF HasList
  <1> DEFINE calls == {of(c) : c \in p.calls}
  <1>7. calls \in PageRequests
    BY <1>3 DEF PageRequests
  <1>8. \A c \in calls : HasList(p, c)
    BY <1>4
  <1> HIDE DEF of, q, calls
  <1>5. /\ q \in LinkPages /\ q.shown = p.shown /\ q.behind = p.behind /\ q.loads = p.loads
        /\ q.calls = calls /\ q.target = p.target /\ q.newName = p.newName
    <2>1. "" \in MaybeTarget /\ q = [p EXCEPT !.chosen = "", !.calls = calls]
      BY <1>2 DEF MaybeTarget, calls
    <2> QED
      BY <1>1, <1>7, <2>1 DEF LinkPages
  <1>6. ListPage(q, tabs)
    BY <1>5, <1>8, FormsOnly
  <1> QED
    BY <1>6 DEF Drawn, q

LEMMA PageSteps ==
    ASSUME NEW p, LinkInv, ListPage(p, tables), ToPage(p)
    PROVE  LinkInv'
  <1>1. ListPage(Drawn(p), tables)
    BY UnmountedPage
  <1> QED
    BY <1>1 DEF LinkInv, ToPage

LEMMA CallEnds ==
    ASSUME NEW p, NEW tabs, NEW c, ListPage(p, tabs)
    PROVE  /\ ListPage(Ended(p, c), tabs)
           /\ Ended(p, c).shown = p.shown /\ Ended(p, c).behind = p.behind
  <1> DEFINE q == Ended(p, c)
  <1>1. p \in LinkPages /\ \A x \in p.calls : HasList(p, x)
    BY DEF ListPage, ListShape, RequestsHaveLists
  <1>2. /\ q \in LinkPages /\ q.shown = p.shown /\ q.behind = p.behind /\ q.loads = p.loads
        /\ q.calls \subseteq p.calls /\ q.target = p.target /\ q.newName = p.newName
    <2>1. p.calls \ {c} \in PageRequests
      BY <1>1 DEF LinkPages, PageRequests
    <2> DEFINE calls == p.calls \ {c}
    <2>2. q = [p EXCEPT !.calls = calls] /\ calls \subseteq p.calls
      BY DEF Ended
    <2> HIDE DEF q, calls
    <2> QED
      BY <1>1, <2>1, <2>2 DEF calls, LinkPages
  <1> HIDE DEF q
  <1>3. ListPage(q, tabs)
    BY <1>1, <1>2, FormsOnly
  <1> QED
    BY <1>2, <1>3 DEF q

\* A list whose table changes: answers read before miss it.
LEMMA TableChanges ==
    ASSUME NEW p, NEW l \in Lists, NEW entries \in SUBSET Entries(l), NEW follows \in BOOLEAN,
           ListPage(p, tables), tables \in [Lists -> SUBSET AllRows]
    PROVE  LET q == Changed(p, l, follows)
           IN  /\ ListShape(q) /\ AnswersCurrent(q, [tables EXCEPT ![l] = entries])
               /\ RequestsHaveLists(q)
               /\ q.shown = p.shown
               /\ q.behind = [p.behind EXCEPT ![l] = @ \/ ~follows]
               /\ \A i \in Loads : p.loads[l][i] = NoLoad => q.loads[l][i] = NoLoad
               /\ ~follows => ListPage(q, [tables EXCEPT ![l] = entries])
  <1> DEFINE q == Changed(p, l, follows)
             new == [i \in Loads |-> [p.loads[l][i] EXCEPT !.missed = p.loads[l][i].state = "read"]]
             tabs == [tables EXCEPT ![l] = entries]
  <1>1. /\ p \in LinkPages
        /\ \A k \in Lists : /\ p.shown[k] \in {Nothing} \cup SUBSET Entries(k)
                            /\ \A i \in Loads : /\ p.loads[k][i].rows \in SUBSET Entries(k)
                                                /\ p.loads[k][i] \in ListLoad
        /\ p.shown["aliases"] # Nothing /\ p.shown["overrides"] # Nothing
        /\ p.loads \in ListLoads /\ p.behind \in ListMarks
    <2>1. p \in LinkPages
      BY DEF ListPage, ListShape
    <2>2. p.loads \in ListLoads /\ p.behind \in ListMarks
      BY <2>1 DEF LinkPages
    <2> QED
      BY <2>1, <2>2 DEF ListPage, ListShape, ListLoads
  <1>2. \A i \in Loads : /\ new[i] \in ListLoad /\ new[i].state = p.loads[l][i].state
                         /\ new[i].rows = p.loads[l][i].rows
                         /\ new[i].missed <=> p.loads[l][i].state = "read"
    BY <1>1 DEF ListLoad
  <1>3. \A i \in Loads : p.loads[l][i] = NoLoad => new[i] = NoLoad
    <2> SUFFICES ASSUME NEW i \in Loads, p.loads[l][i] = NoLoad
                 PROVE  new[i] = NoLoad
      OBVIOUS
    <2>1. new[i] = [NoLoad EXCEPT !.missed = NoLoad.state = "read"]
      OBVIOUS
    <2>2. NoLoad.state # "read"
      BY DEF NoLoad, Load
    <2>3. new[i] = [NoLoad EXCEPT !.missed = FALSE]
      BY <2>1, <2>2
    <2> QED
      BY <2>3 DEF NoLoad, Load
  <1>4. new \in [Loads -> ListLoad]
    BY <1>2
  <1>5. /\ tabs[l] = entries /\ \A k \in Lists : k # l => tabs[k] = tables[k]
    OBVIOUS
  <1>6. q = [p EXCEPT !.loads[l] = new, !.behind[l] = @ \/ ~follows]
    BY DEF Changed
  <1> HIDE DEF q, new, tabs
  <1>7. /\ q \in LinkPages
        /\ q.shown = p.shown /\ q.behind = [p.behind EXCEPT ![l] = @ \/ ~follows]
        /\ q.loads = [p.loads EXCEPT ![l] = new]
        /\ q.calls = p.calls /\ q.target = p.target /\ q.newName = p.newName
    <2>1. /\ [p.loads EXCEPT ![l] = new] \in ListLoads
          /\ [p.behind EXCEPT ![l] = @ \/ ~follows] \in ListMarks
      BY <1>1, <1>4 DEF ListLoads, ListMarks
    <2> DEFINE loads == [p.loads EXCEPT ![l] = new]
               behind == [p.behind EXCEPT ![l] = @ \/ ~follows]
    <2>2. q = [p EXCEPT !.loads = loads, !.behind = behind]
      BY <1>6
    <2>3. loads = [p.loads EXCEPT ![l] = new] /\ behind = [p.behind EXCEPT ![l] = @ \/ ~follows]
      OBVIOUS
    <2> HIDE DEF loads, behind
    <2>4. loads \in ListLoads /\ behind \in ListMarks
      BY <2>1, <2>3
    <2>5. /\ q \in LinkPages /\ q.shown = p.shown /\ q.behind = behind /\ q.loads = loads
          /\ q.calls = p.calls /\ q.target = p.target /\ q.newName = p.newName
      BY <1>1, <2>2, <2>4 DEF LinkPages
    <2> QED
      BY <2>3, <2>5
  <1>8. q.loads[l] = new /\ \A k \in Lists : k # l => q.loads[k] = p.loads[k]
    BY <1>1, <1>7 DEF ListLoads
  <1>9. ListShape(q)
    BY <1>1, <1>2, <1>7, <1>8 DEF ListShape
  <1>10. AnswersCurrent(q, tabs)
    BY <1>2, <1>5, <1>8 DEF AnswersCurrent, ListPage
  <1>11. RequestsHaveLists(q)
    BY <1>7 DEF RequestsHaveLists, HasList, ListPage
  <1>12. ~follows => ShownCurrent(q, tabs)
    <2>1. ~follows => q.behind[l] /\ \A k \in Lists : k # l => q.behind[k] = p.behind[k]
      BY <1>1, <1>7 DEF ListMarks
    <2> QED
      BY <2>1, <1>5, <1>7 DEF ShownCurrent, ListPage
  <1> QED
    BY <1>3, <1>7, <1>8, <1>9, <1>10, <1>11, <1>12 DEF ListPage, q, tabs

\* One load of a list changes.
LEMMA LoadChanges ==
    ASSUME NEW p, NEW tabs, NEW l \in Lists, NEW i \in Loads, NEW load \in ListLoad,
           ListPage(p, tabs), load.rows \in SUBSET Entries(l),
           load.state = "read" /\ ~load.missed => load.rows = tabs[l]
    PROVE  LET q == [p EXCEPT !.loads[l][i] = load]
           IN  ListPage(q, tabs) /\ q.shown = p.shown /\ q.behind = p.behind
  <1> DEFINE loads == [p.loads EXCEPT ![l][i] = load]
             q == [p EXCEPT !.loads[l][i] = load]
  <1>1. p \in LinkPages /\ p.loads \in ListLoads
    BY DEF ListPage, ListShape, LinkPages
  <1>2. /\ loads \in ListLoads /\ loads[l][i] = load
        /\ \A k \in Lists, j \in Loads : k # l \/ j # i => loads[k][j] = p.loads[k][j]
    BY <1>1 DEF ListLoads
  <1>3. q = [p EXCEPT !.loads = loads]
    OBVIOUS
  <1> HIDE DEF loads, q
  <1>4. /\ q \in LinkPages /\ q.loads = loads /\ q.shown = p.shown /\ q.behind = p.behind
        /\ q.calls = p.calls /\ q.target = p.target /\ q.newName = p.newName
    BY <1>1, <1>2, <1>3 DEF LinkPages
  <1>5. ListShape(q)
    BY <1>2, <1>4 DEF ListShape, ListPage
  <1>6. AnswersCurrent(q, tabs)
    BY <1>2, <1>4 DEF AnswersCurrent, ListPage
  <1>7. ShownCurrent(q, tabs)
    BY <1>4 DEF ShownCurrent, ListPage
  <1>8. RequestsHaveLists(q)
    BY <1>4 DEF RequestsHaveLists, HasList, ListPage
  <1> QED
    BY <1>4, <1>5, <1>6, <1>7, <1>8 DEF ListPage, q

LEMMA FreeLoad == NoLoad \in ListLoad /\ NoLoad.state = "none" /\ NoLoad.rows = {}
  BY DEF NoLoad, Load, ListLoad

LEMMA ListIsLoaded ==
    ASSUME NEW p, NEW tabs, NEW l \in Lists, NEW then \in BOOLEAN,
           ListPage(p, tabs), FreeSlots(p, l) # {}
    PROVE  ListPage(LoadList(p, l, then), tabs)
  <1> DEFINE i == CHOOSE x \in FreeSlots(p, l) : TRUE
             load == Load("asked", then)
  <1>1. i \in Loads
    BY DEF FreeSlots
  <1>2. load \in ListLoad /\ load.state = "asked" /\ load.rows = {}
    BY DEF Load, ListLoad
  <1>3. LoadList(p, l, then) = [p EXCEPT !.loads[l][i] = load]
    BY DEF LoadList
  <1> HIDE DEF i, load
  <1> QED
    BY <1>1, <1>2, <1>3, LoadChanges

\* A list is shown anew, with its mark.
LEMMA ShownChanges ==
    ASSUME NEW p, NEW tabs, NEW l \in Lists, NEW entries \in SUBSET Entries(l), NEW mark \in BOOLEAN,
           ListShape(p), AnswersCurrent(p, tabs), RequestsHaveLists(p),
           \A k \in Lists \ {l} : p.shown[k] # Nothing /\ ~p.behind[k] =>
                Compared(k, p.shown[k]) = Compared(k, tabs[k]),
           ~mark => Compared(l, entries) = Compared(l, tabs[l])
    PROVE  ListPage([p EXCEPT !.shown[l] = entries, !.behind[l] = mark], tabs)
  <1> DEFINE shown == [p.shown EXCEPT ![l] = entries]
             behind == [p.behind EXCEPT ![l] = mark]
             q == [p EXCEPT !.shown[l] = entries, !.behind[l] = mark]
  <1>1. p \in LinkPages /\ p.shown \in ShownLists /\ p.behind \in ListMarks
    BY DEF ListShape, LinkPages
  <1>2. entries \in SUBSET AllRows /\ entries # Nothing
    BY ListNames, NullIsNoList
  <1>3. /\ shown \in ShownLists /\ shown[l] = entries
        /\ \A k \in Lists : k # l => shown[k] = p.shown[k]
    BY <1>1, <1>2 DEF ShownLists
  <1>4. /\ behind \in ListMarks /\ behind[l] = mark
        /\ \A k \in Lists : k # l => behind[k] = p.behind[k]
    BY <1>1 DEF ListMarks
  <1>5. q = [p EXCEPT !.shown = shown, !.behind = behind]
    OBVIOUS
  <1> HIDE DEF shown, behind, q
  <1>6. /\ q \in LinkPages /\ q.loads = p.loads /\ q.shown = shown /\ q.behind = behind
        /\ q.calls = p.calls /\ q.target = p.target /\ q.newName = p.newName
    BY <1>1, <1>3, <1>4, <1>5 DEF LinkPages
  <1>7. \A k \in Lists : p.shown[k] # Nothing => q.shown[k] # Nothing
    BY <1>2, <1>3, <1>6
  <1>8. ListShape(q)
    <2>1. q.shown["aliases"] # Nothing /\ q.shown["overrides"] # Nothing
      BY <1>7, ListNames DEF ListShape
    <2>2. \A k \in Lists : q.shown[k] \in {Nothing} \cup SUBSET Entries(k)
      BY <1>3, <1>6 DEF ListShape
    <2> QED
      BY <1>6, <2>1, <2>2 DEF ListShape
  <1>9. AnswersCurrent(q, tabs)
    BY <1>6 DEF AnswersCurrent
  <1>10. ShownCurrent(q, tabs)
    BY <1>3, <1>4, <1>6 DEF ShownCurrent
  <1>11. RequestsHaveLists(q)
    <2>1. \A c \in q.calls : HasList(q, c)
      <3> SUFFICES ASSUME NEW c \in q.calls
                   PROVE  HasList(q, c)
        OBVIOUS
      <3>1. HasList(p, c) /\ c \in PageCalls
        <4>1. p.calls \in PageRequests
          BY <1>1 DEF LinkPages
        <4> QED
          BY <4>1, <1>6 DEF RequestsHaveLists, PageRequests
      <3>2. c.kind = "unlink" => c.dep \in Lists
        BY <3>1, ListNames DEF PageCalls
      <3> QED
        BY <3>1, <3>2, <1>7, ListNames DEF HasList
    <2>2. q.target # Nothing => q.target \in PageDeps \X LinkTargets /\ q.shown[q.target[1]] # Nothing
      BY <1>6, <1>7, ListNames DEF RequestsHaveLists
    <2> QED
      BY <2>1, <2>2, <1>6, <1>7, ListNames DEF RequestsHaveLists
  <1> QED
    BY <1>8, <1>9, <1>10, <1>11 DEF ListPage, q

LEMMA AnswerShown ==
    ASSUME LinkInv, NEW l \in Lists, NEW i \in Loads, Answered(l, i)
    PROVE  ListPage(WithAnswer(l, i), tables)
  <1> DEFINE load == linkPage.loads[l][i]
             p == [linkPage EXCEPT !.loads[l][i] = NoLoad]
  <1>1. ListPage(p, tables) /\ p.shown = linkPage.shown /\ p.behind = linkPage.behind
    BY FreeLoad, LoadChanges DEF LinkInv
  <1>2. load \in ListLoad /\ load.rows \in SUBSET Entries(l)
    <2>1. linkPage \in LinkPages
      BY DEF LinkInv, ListPage, ListShape
    <2>2. linkPage.loads \in ListLoads
      BY <2>1 DEF LinkPages
    <2> QED
      BY <2>2 DEF LinkInv, ListPage, ListShape, ListLoads
  <1>3. load.state = "read" /\ ~load.missed => load.rows = tables[l]
    BY DEF LinkInv, ListPage, AnswersCurrent
  <1>4. load.missed \in BOOLEAN
    BY <1>2 DEF ListLoad
  <1>5. CASE load.state = "failed"
    BY <1>1, <1>5 DEF WithAnswer
  <1>6. CASE load.state # "failed"
    <2>1. load.state = "read"
      BY <1>6 DEF Answered
    <2>2. WithAnswer(l, i) = [p EXCEPT !.shown[l] = load.rows, !.behind[l] = load.missed]
      BY <1>6 DEF WithAnswer
    <2> HIDE DEF p, load
    <2>3. ~load.missed => Compared(l, load.rows) = Compared(l, tables[l])
      BY <1>3, <2>1
    <2>4. /\ ListShape(p) /\ AnswersCurrent(p, tables) /\ RequestsHaveLists(p)
          /\ \A k \in Lists \ {l} : p.shown[k] # Nothing /\ ~p.behind[k] =>
                Compared(k, p.shown[k]) = Compared(k, tables[k])
      BY <1>1 DEF ListPage, ShownCurrent
    <2>5. ListPage([p EXCEPT !.shown[l] = load.rows, !.behind[l] = load.missed], tables)
      BY <1>2, <1>4, <2>3, <2>4, ShownChanges
    <2> QED
      BY <2>2, <2>5
  <1> QED
    BY <1>5, <1>6

\* What the tables still are when one of them changes.
LEMMA RowsChange ==
    ASSUME LinkInv, NEW l \in Lists, NEW entries \in SUBSET Entries(l), NEW ids \in SUBSET RowIds,
           usedIds \subseteq ids,
           l \in {"aliases", "external"} =>
              /\ \A r \in entries : r.id \in ids
              /\ \A r1, r2 \in entries : r1.id = r2.id => r1 = r2
    PROVE  ListTables([tables EXCEPT ![l] = entries], ids)
  <1> DEFINE tabs == [tables EXCEPT ![l] = entries]
  <1>1. tables \in [Lists -> SUBSET AllRows]
    BY DEF LinkInv, ListTables
  <1>2. entries \in SUBSET AllRows
    BY ListNames
  <1>3. /\ tabs \in [Lists -> SUBSET AllRows] /\ tabs[l] = entries
        /\ \A k \in Lists : k # l => tabs[k] = tables[k]
    BY <1>1, <1>2
  <1> HIDE DEF tabs
  <1>4. \A k \in Lists : tabs[k] \in SUBSET Entries(k)
    BY <1>3 DEF LinkInv, ListTables
  <1>5. ASSUME NEW k \in {"aliases", "external"}
        PROVE  /\ \A r \in tabs[k] : r.id \in ids
               /\ \A r1, r2 \in tabs[k] : r1.id = r2.id => r1 = r2
    BY <1>3, <1>5, ListNames DEF LinkInv, ListTables
  <1> QED
    BY <1>3, <1>4, <1>5 DEF ListTables, tabs

LEMMA TakenSteps ==
    ASSUME LinkInv, NEW l \in Lists, NEW entries, NEW p, Taken(l, entries, p),
           ListPage(p, [tables EXCEPT ![l] = entries]),
           ListTables([tables EXCEPT ![l] = entries], usedIds')
    PROVE  LinkInv'
  <1>1. ListPage(Drawn(p), [tables EXCEPT ![l] = entries])
    BY UnmountedPage
  <1> QED
    BY <1>1 DEF LinkInv, Taken

LEMMA AddedSteps ==
    ASSUME LinkInv, NEW l \in Lists, NEW entries \in SUBSET Entries(l), NEW p, NEW then \in BOOLEAN,
           Added(l, entries, p, then), ListPage(p, tables),
           ListTables([tables EXCEPT ![l] = entries], usedIds')
    PROVE  LinkInv'
  <1> DEFINE q == Changed(p, l, FALSE)
             tabs == [tables EXCEPT ![l] = entries]
  <1>1. FreeSlots(p, l) # {} /\ Taken(l, entries, LoadList(q, l, then))
    BY DEF Added
  <1>2. /\ ListPage(q, tabs)
        /\ \A i \in Loads : p.loads[l][i] = NoLoad => q.loads[l][i] = NoLoad
    <2>1. tables \in [Lists -> SUBSET AllRows]
      BY DEF LinkInv, ListTables
    <2>2. ListPage(q, tabs)
      BY <2>1, TableChanges
    <2>3. \A i \in Loads : p.loads[l][i] = NoLoad => q.loads[l][i] = NoLoad
      BY <2>1, TableChanges, ZenonT(30)
    <2> QED
      BY <2>2, <2>3
  <1>3. FreeSlots(q, l) # {}
    BY <1>1, <1>2 DEF FreeSlots
  <1>4. ListPage(LoadList(q, l, then), tabs)
    <2> HIDE DEF q, tabs
    <2> QED
      BY <1>2, <1>3, ListIsLoaded
  <1> QED
    BY <1>1, <1>4, TakenSteps

LEMMA FollowedSteps ==
    ASSUME LinkInv, NEW l \in Lists, NEW entries \in SUBSET Entries(l), NEW p,
           NEW shown \in SUBSET Entries(l), Followed(l, entries, p, shown), ListPage(p, tables),
           ~p.behind[l] => Compared(l, shown) = Compared(l, entries),
           ListTables([tables EXCEPT ![l] = entries], usedIds')
    PROVE  LinkInv'
  <1> DEFINE q == Changed(p, l, TRUE)
             tabs == [tables EXCEPT ![l] = entries]
             mark == q.behind[l]
  <1>1. Taken(l, entries, [q EXCEPT !.shown[l] = shown])
    BY DEF Followed
  <1>2. /\ ListShape(q) /\ AnswersCurrent(q, tabs) /\ RequestsHaveLists(q)
        /\ q.shown = p.shown
        /\ q.behind = [p.behind EXCEPT ![l] = @ \/ ~TRUE]
    BY TableChanges DEF LinkInv, ListTables
  <1>3. /\ tabs[l] = entries /\ \A k \in Lists : k # l => tabs[k] = tables[k]
    BY DEF LinkInv, ListTables
  <1>4. p \in LinkPages /\ q \in LinkPages
    BY <1>2 DEF ListPage, ListShape
  <1>5. p.behind \in ListMarks /\ q.behind \in ListMarks
    BY <1>4 DEF LinkPages
  <1>6. /\ \A k \in Lists : q.behind[k] = p.behind[k]
        /\ mark \in BOOLEAN
    BY <1>2, <1>5 DEF ListMarks
  <1>7. [q EXCEPT !.shown[l] = shown] = [q EXCEPT !.shown[l] = shown, !.behind[l] = mark]
    <2>1. [q.behind EXCEPT ![l] = mark] = q.behind
      BY <1>5 DEF ListMarks
    <2> HIDE DEF q
    <2> DEFINE new == [q.shown EXCEPT ![l] = shown]
    <2>2. [q EXCEPT !.shown = new] = [q EXCEPT !.shown = new, !.behind = q.behind]
      <3> HIDE DEF new
      <3> QED
        BY <1>4 DEF LinkPages
    <2> QED
      BY <2>1, <2>2
  <1> HIDE DEF q, mark, tabs
  <1>8. \A k \in Lists \ {l} : q.shown[k] # Nothing /\ ~q.behind[k] =>
           Compared(k, q.shown[k]) = Compared(k, tabs[k])
    BY <1>2, <1>3, <1>6 DEF ListPage, ShownCurrent
  <1>9. ~mark => Compared(l, shown) = Compared(l, tabs[l])
    BY <1>3, <1>6 DEF mark
  <1>10. ListPage([q EXCEPT !.shown[l] = shown, !.behind[l] = mark], tabs)
    BY <1>2, <1>6, <1>8, <1>9, ShownChanges
  <1> QED
    BY <1>1, <1>7, <1>10, TakenSteps DEF q, tabs

LEMMA ElsewhereSteps ==
    ASSUME LinkInv, NEW l \in Lists, NEW entries \in SUBSET Entries(l), Elsewhere(l, entries),
           ListTables([tables EXCEPT ![l] = entries], usedIds')
    PROVE  LinkInv'
  <1>1. Taken(l, entries, Changed(linkPage, l, FALSE))
    BY DEF Elsewhere
  <1>2. ListPage(Changed(linkPage, l, FALSE), [tables EXCEPT ![l] = entries])
    BY TableChanges DEF LinkInv, ListTables
  <1> QED
    BY <1>1, <1>2, TakenSteps

LEMMA ReadSteps ==
    ASSUME LinkInv, NEW l \in Lists, NEW i \in Loads, ReadList(l, i)
    PROVE  LinkInv'
  <1> DEFINE load == linkPage.loads[l][i]
             answer == [load EXCEPT !.state = "read", !.rows = tables[l]]
             failure == [load EXCEPT !.state = "failed"]
  <1>1. load \in ListLoad /\ load.rows \in SUBSET Entries(l)
    <2>1. linkPage \in LinkPages
      BY DEF LinkInv, ListPage, ListShape
    <2>2. linkPage.loads \in ListLoads
      BY <2>1 DEF LinkPages
    <2> QED
      BY <2>2 DEF LinkInv, ListPage, ListShape, ListLoads
  <1>2. tables[l] \in SUBSET Entries(l) /\ tables[l] \in SUBSET AllRows
    BY DEF LinkInv, ListTables
  <1>3. answer \in ListLoad /\ answer.rows = tables[l]
    BY <1>1, <1>2 DEF ListLoad
  <1>4. failure \in ListLoad /\ failure.rows = load.rows /\ failure.state = "failed"
    BY <1>1 DEF ListLoad
  <1>5. CASE ToPage([linkPage EXCEPT !.loads[l][i].state = "read", !.loads[l][i].rows = tables[l]])
    <2>1. ToPage([linkPage EXCEPT !.loads[l][i] = answer])
      <3>1. [linkPage EXCEPT !.loads[l][i] = answer]
              = [linkPage EXCEPT !.loads[l][i].state = "read", !.loads[l][i].rows = tables[l]]
        OBVIOUS
      <3> QED
        BY <3>1, <1>5
    <2> HIDE DEF answer
    <2> QED
      BY <2>1, <1>2, <1>3, LoadChanges, PageSteps DEF LinkInv
  <1>6. CASE ToPage([linkPage EXCEPT !.loads[l][i].state = "failed"])
    <2>1. ToPage([linkPage EXCEPT !.loads[l][i] = failure])
      BY <1>6
    <2> HIDE DEF failure, load
    <2> QED
      BY <2>1, <1>1, <1>4, LoadChanges, PageSteps DEF LinkInv
  <1> QED
    BY <1>5, <1>6 DEF ReadList

LEMMA SendSteps ==
    ASSUME LinkInv, NEW call \in PageCalls, HasList(linkPage, call), Send(linkPage, call)
    PROVE  LinkInv'
  <1> DEFINE calls == linkPage.calls \cup {call}
             q == [linkPage EXCEPT !.calls = calls]
  <1>1. ToPage(q)
    BY DEF Send
  <1>2. linkPage \in LinkPages /\ ListPage(linkPage, tables)
    BY DEF LinkInv, ListPage, ListShape
  <1>3. calls \in PageRequests /\ \A c \in calls : HasList(linkPage, c)
    <2>1. linkPage.calls \in PageRequests
      BY <1>2 DEF LinkPages
    <2> QED
      BY <1>2, <2>1 DEF PageRequests, ListPage, RequestsHaveLists
  <1> HIDE DEF calls
  <1>4. /\ q \in LinkPages /\ q.loads = linkPage.loads /\ q.shown = linkPage.shown
        /\ q.behind = linkPage.behind
        /\ q.calls = calls /\ q.target = linkPage.target /\ q.newName = linkPage.newName
    <2>1. linkPage \in LinkPages /\ calls \in PageRequests
      BY <1>2, <1>3
    <2>2. q = [linkPage EXCEPT !.calls = calls]
      OBVIOUS
    <2> HIDE DEF q
    <2> QED
      BY <2>1, <2>2 DEF LinkPages
  <1> HIDE DEF q
  <1>5. ListPage(q, tables)
    BY <1>2, <1>3, <1>4, FormsOnly
  <1> QED
    BY <1>1, <1>5, PageSteps

LEMMA CallSteps ==
    ASSUME LinkInv, NEW kinds, CallFails(kinds)
    PROVE  LinkInv'
  <1>1. PICK c \in linkPage.calls : ToPage(Ended(linkPage, c))
    BY DEF CallFails
  <1>2. ListPage(Ended(linkPage, c), tables)
    BY CallEnds DEF LinkInv
  <1> QED
    BY <1>1, <1>2, PageSteps

LEMMA PageFields ==
    ASSUME LinkInv
    PROVE  /\ linkPage \in LinkPages /\ ListPage(linkPage, tables)
           /\ linkPage.calls \subseteq PageCalls /\ linkPage.opened \subseteq PageDeps
           /\ \A c \in linkPage.calls : HasList(linkPage, c)
           /\ linkPage.target # Nothing =>
                 linkPage.target \in PageDeps \X LinkTargets /\ linkPage.shown[linkPage.target[1]] # Nothing
           /\ linkPage.newName # "" => linkPage.shown["external"] # Nothing
           /\ linkPage.adding \in PageDeps \cup {Nothing}
           /\ linkPage.chosen \in LinkTargets \cup {""}
           /\ linkPage.aliasOf \in AliasNames \cup {Nothing}
           /\ linkPage.aliasInput \in CanonicalNames \cup {""}
           /\ linkPage.overrideOf \in CanonicalNames \cup {Nothing}
           /\ linkPage.overrideInput \in OverrideTexts \cup {""}
           /\ linkPage.newName \in ExternalNames \cup {""}
           /\ linkPage.editing \in RowIds \cup {Nothing}
           /\ linkPage.editName \in ExternalNames \cup {""}
           /\ \A l \in Lists : /\ linkPage.shown[l] \in {Nothing} \cup SUBSET Entries(l)
                               /\ linkPage.behind[l] \in BOOLEAN
                               /\ \A i \in Loads : linkPage.loads[l][i] \in ListLoad
           /\ linkPage.shown["aliases"] \in SUBSET AliasRow
           /\ linkPage.shown["overrides"] \in SUBSET OverrideRow
  <1>1. linkPage \in LinkPages /\ ListPage(linkPage, tables)
    BY DEF LinkInv, ListPage, ListShape
  <1>2. linkPage.calls \in PageRequests /\ linkPage.loads \in ListLoads /\ linkPage.behind \in ListMarks
    BY <1>1 DEF LinkPages
  <1>3. \A l \in Lists : /\ linkPage.shown[l] \in {Nothing} \cup SUBSET Entries(l)
                         /\ linkPage.behind[l] \in BOOLEAN
                         /\ \A i \in Loads : linkPage.loads[l][i] \in ListLoad
    BY <1>1, <1>2 DEF ListPage, ListShape, ListLoads, ListMarks
  <1>4. /\ linkPage.shown["aliases"] \in SUBSET AliasRow
        /\ linkPage.shown["overrides"] \in SUBSET OverrideRow
    BY <1>1, <1>3, ListNames DEF ListPage, ListShape
  <1>5. /\ \A c \in linkPage.calls : HasList(linkPage, c)
        /\ linkPage.target # Nothing =>
              linkPage.target \in PageDeps \X LinkTargets /\ linkPage.shown[linkPage.target[1]] # Nothing
        /\ linkPage.newName # "" => linkPage.shown["external"] # Nothing
    BY <1>1 DEF ListPage, RequestsHaveLists
  <1>6. /\ linkPage.opened \subseteq PageDeps
        /\ linkPage.adding \in PageDeps \cup {Nothing}
        /\ linkPage.chosen \in LinkTargets \cup {""}
        /\ linkPage.aliasOf \in AliasNames \cup {Nothing}
        /\ linkPage.aliasInput \in CanonicalNames \cup {""}
        /\ linkPage.overrideOf \in CanonicalNames \cup {Nothing}
        /\ linkPage.overrideInput \in OverrideTexts \cup {""}
        /\ linkPage.newName \in ExternalNames \cup {""}
        /\ linkPage.editing \in RowIds \cup {Nothing}
        /\ linkPage.editName \in ExternalNames \cup {""}
    BY <1>1 DEF LinkPages, OpenDeps, MaybeDep, MaybeTarget, MaybeAlias, MaybeCanonical, MaybeId,
                CanonicalInput, OverrideInput, ExternalInput
  <1> QED
    BY <1>1, <1>2, <1>3, <1>4, <1>5, <1>6 DEF PageRequests

\* What only changes a form.
Like(q, p) ==
    /\ q \in LinkPages /\ q.shown = p.shown /\ q.behind = p.behind /\ q.loads = p.loads
    /\ q.calls = p.calls /\ q.target = p.target /\ q.newName = p.newName

LEMMA FormFields ==
    ASSUME NEW p \in LinkPages
    PROVE  /\ \A v \in OpenDeps : Like([p EXCEPT !.opened = v], p)
           /\ \A v \in FilterNames : Like([p EXCEPT !.filter = v], p)
           /\ \A v \in MaybeDep : Like([p EXCEPT !.adding = v], p)
           /\ \A v \in MaybeTarget : Like([p EXCEPT !.chosen = v], p)
           /\ \A v \in CanonicalInput : Like([p EXCEPT !.aliasInput = v], p)
           /\ \A v \in MaybeAlias :
                 Like([p EXCEPT !.aliasOf = v, !.aliasInput = ""], p)
           /\ \A v \in OverrideInput : Like([p EXCEPT !.overrideInput = v], p)
           /\ \A v \in MaybeCanonical, x \in OverrideInput :
                 Like([p EXCEPT !.overrideOf = v, !.overrideInput = x], p)
           /\ \A v \in ExternalInput : Like([p EXCEPT !.editName = v], p)
           /\ \A v \in MaybeId, x \in ExternalInput :
                 Like([p EXCEPT !.editing = v, !.editName = x], p)
           /\ \A v \in MaybeLink :
                 LET q == [p EXCEPT !.target = v]
                 IN  /\ q \in LinkPages /\ q.shown = p.shown /\ q.behind = p.behind
                     /\ q.loads = p.loads /\ q.calls = p.calls /\ q.target = v
                     /\ q.newName = p.newName
           /\ \A v \in ExternalInput :
                 LET q == [p EXCEPT !.newName = v]
                 IN  /\ q \in LinkPages /\ q.shown = p.shown /\ q.behind = p.behind
                     /\ q.loads = p.loads /\ q.calls = p.calls /\ q.target = p.target
                     /\ q.newName = v
  <1>1. ASSUME NEW v \in OpenDeps
        PROVE  Like([p EXCEPT !.opened = v], p)
    BY DEF Like, LinkPages
  <1>2. ASSUME NEW v \in FilterNames
        PROVE  Like([p EXCEPT !.filter = v], p)
    BY DEF Like, LinkPages
  <1>3. ASSUME NEW v \in MaybeDep
        PROVE  Like([p EXCEPT !.adding = v], p)
    BY DEF Like, LinkPages
  <1>4. ASSUME NEW v \in MaybeTarget
        PROVE  Like([p EXCEPT !.chosen = v], p)
    BY DEF Like, LinkPages
  <1>5. ASSUME NEW v \in CanonicalInput
        PROVE  Like([p EXCEPT !.aliasInput = v], p)
    BY DEF Like, LinkPages
  <1>6. ASSUME NEW v \in MaybeAlias
        PROVE  Like([p EXCEPT !.aliasOf = v, !.aliasInput = ""], p)
    <2>1. "" \in CanonicalInput
      BY DEF CanonicalInput
    <2> QED
      BY <2>1 DEF Like, LinkPages
  <1>7. ASSUME NEW v \in OverrideInput
        PROVE  Like([p EXCEPT !.overrideInput = v], p)
    BY DEF Like, LinkPages
  <1>8. ASSUME NEW v \in ExternalInput
        PROVE  Like([p EXCEPT !.editName = v], p)
    BY DEF Like, LinkPages
  <1>9. ASSUME NEW v \in MaybeCanonical, NEW x \in OverrideInput
        PROVE  Like([p EXCEPT !.overrideOf = v, !.overrideInput = x], p)
    BY DEF Like, LinkPages
  <1>10. ASSUME NEW v \in MaybeId, NEW x \in ExternalInput
         PROVE  Like([p EXCEPT !.editing = v, !.editName = x], p)
    BY DEF Like, LinkPages
  <1>11. ASSUME NEW v \in MaybeLink
         PROVE  LET q == [p EXCEPT !.target = v]
                IN  /\ q \in LinkPages /\ q.shown = p.shown /\ q.behind = p.behind
                    /\ q.loads = p.loads /\ q.calls = p.calls /\ q.target = v
                    /\ q.newName = p.newName
    BY DEF LinkPages
  <1>12. ASSUME NEW v \in ExternalInput
         PROVE  LET q == [p EXCEPT !.newName = v]
                IN  /\ q \in LinkPages /\ q.shown = p.shown /\ q.behind = p.behind
                    /\ q.loads = p.loads /\ q.calls = p.calls /\ q.target = p.target
                    /\ q.newName = v
    BY DEF LinkPages
  <1> QED
    BY <1>1, <1>2, <1>3, <1>4, <1>5, <1>6, <1>7, <1>8, <1>9, <1>10, <1>11, <1>12

LEMMA FormSteps ==
    ASSUME LinkInv, NEW q, Like(q, linkPage), ToPage(q)
    PROVE  LinkInv'
  <1>1. ListPage(q, tables)
    BY PageFields, FormsOnly DEF Like
  <1> QED
    BY <1>1, PageSteps

\* The dependencies and the form of an association.
LEMMA LinkForms ==
    ASSUME LinkInv,
           \/ \E d \in PageDeps : \/ ToggleDependency(d) \/ OpenLinkForm(d)
                                  \/ \E t \in LinkTargets : AskDeleteLink(d, t)
           \/ SetStatusFilter \/ CancelLinkForm \/ ChooseTarget \/ CloseDeleteLink
    PROVE  LinkInv'
  <1>1. ASSUME NEW d \in PageDeps, ToggleDependency(d)
        PROVE  LinkInv'
    <2> DEFINE more == linkPage.opened \cup {d}
               fewer == linkPage.opened \ {d}
               p == [linkPage EXCEPT !.opened = more]
               q == [linkPage EXCEPT !.opened = fewer]
    <2>1. more \in OpenDeps /\ fewer \in OpenDeps
      BY PageFields DEF OpenDeps
    <2>2. \/ ToPage(q) \/ ToPage(p)
          \/ FreeSlots(p, d) # {} /\ ToPage(LoadList(p, d, FALSE))
      BY <1>1 DEF ToggleDependency
    <2> HIDE DEF more, fewer
    <2>3. Like(p, linkPage) /\ Like(q, linkPage)
      BY <2>1, PageFields, FormFields
    <2> HIDE DEF p, q
    <2>4. CASE ToPage(q) \/ ToPage(p)
      BY <2>3, <2>4, FormSteps
    <2>5. CASE FreeSlots(p, d) # {} /\ ToPage(LoadList(p, d, FALSE))
      <3>1. ListPage(p, tables)
        BY <2>3, PageFields, FormsOnly DEF Like
      <3>2. ListPage(LoadList(p, d, FALSE), tables)
        BY <3>1, <2>5, ListIsLoaded, ListNames
      <3> QED
        BY <3>2, <2>5, PageSteps
    <2> QED
      BY <2>2, <2>4, <2>5
  <1>2. ASSUME NEW d \in PageDeps, OpenLinkForm(d)
        PROVE  LinkInv'
    <2> DEFINE p == Unmounted(linkPage)
               q == [p EXCEPT !.adding = d]
    <2>1. ListPage(p, tables) /\ ToPage(q)
      BY <1>2, PageFields, UnmountedPage DEF OpenLinkForm
    <2> HIDE DEF p
    <2>2. p \in LinkPages /\ \A c \in p.calls : HasList(p, c)
      BY <2>1 DEF ListPage, ListShape, RequestsHaveLists
    <2>3. Like(q, p)
      BY <2>2, FormFields DEF MaybeDep
    <2> HIDE DEF q
    <2>4. ListPage(q, tables)
      BY <2>1, <2>2, <2>3, FormsOnly DEF Like
    <2> QED
      BY <2>1, <2>4, PageSteps
  <1>3. ASSUME NEW d \in PageDeps, NEW t \in LinkTargets, AskDeleteLink(d, t)
        PROVE  LinkInv'
    <2> DEFINE asked == <<d, t>>
               q == [linkPage EXCEPT !.target = asked]
    <2>1. ToPage(q) /\ linkPage.shown[d] # Nothing
      BY <1>3 DEF AskDeleteLink, InView
    <2>2. asked \in PageDeps \X LinkTargets /\ asked[1] = d /\ asked \in MaybeLink
      BY DEF MaybeLink
    <2> HIDE DEF asked
    <2>3. /\ q \in LinkPages /\ q.shown = linkPage.shown /\ q.behind = linkPage.behind
          /\ q.loads = linkPage.loads /\ q.calls = linkPage.calls /\ q.target = asked
          /\ q.newName = linkPage.newName
      BY <2>2, PageFields, FormFields
    <2> HIDE DEF q
    <2>4. ListPage(q, tables)
      BY <2>1, <2>2, <2>3, PageFields, FormsOnly
    <2> QED
      BY <2>1, <2>4, PageSteps
  <1>4. CASE SetStatusFilter
    <2>1. PICK f \in StatusFilters : ToPage([linkPage EXCEPT !.filter = f])
      BY <1>4 DEF SetStatusFilter
    <2>2. f \in FilterNames
      BY DEF FilterNames
    <2>3. Like([linkPage EXCEPT !.filter = f], linkPage)
      BY <2>2, PageFields, FormFields
    <2> QED
      BY <2>1, <2>3, FormSteps
  <1>5. CASE CancelLinkForm
    <2>1. Like([linkPage EXCEPT !.adding = Nothing], linkPage)
      BY PageFields, FormFields DEF MaybeDep
    <2> QED
      BY <1>5, <2>1, FormSteps DEF CancelLinkForm
  <1>6. CASE ChooseTarget
    <2>1. PICK t \in LinkTargets : ToPage([linkPage EXCEPT !.chosen = t])
      BY <1>6 DEF ChooseTarget
    <2>2. Like([linkPage EXCEPT !.chosen = t], linkPage)
      BY PageFields, FormFields DEF MaybeTarget
    <2> QED
      BY <2>1, <2>2, FormSteps
  <1>7. CASE CloseDeleteLink
    <2> DEFINE q == [linkPage EXCEPT !.target = Nothing]
    <2>1. ToPage(q)
      BY <1>7 DEF CloseDeleteLink
    <2>2. Nothing \in MaybeLink
      BY DEF MaybeLink
    <2>3. /\ q \in LinkPages /\ q.shown = linkPage.shown /\ q.behind = linkPage.behind
          /\ q.loads = linkPage.loads /\ q.calls = linkPage.calls /\ q.target = Nothing
          /\ q.newName = linkPage.newName
      BY <2>2, PageFields, FormFields
    <2> HIDE DEF q
    <2>4. ListPage(q, tables)
      BY <2>3, PageFields, FormsOnly
    <2> QED
      BY <2>1, <2>4, PageSteps
  <1> QED
    BY <1>1, <1>2, <1>3, <1>4, <1>5, <1>6, <1>7

LEMMA LinksSteps ==
    ASSUME LinkInv, LinksNext
    PROVE  LinkInv'
  <1> DEFINE calls == linkPage.calls
  <1>1. CASE \/ \E d \in PageDeps : \/ ToggleDependency(d) \/ OpenLinkForm(d)
                                    \/ \E t \in LinkTargets : AskDeleteLink(d, t)
             \/ SetStatusFilter \/ CancelLinkForm \/ ChooseTarget \/ CloseDeleteLink
    BY <1>1, LinkForms
  <1>2. CASE SubmitLink
    <2> DEFINE call == [kind |-> "link", dep |-> linkPage.adding, target |-> linkPage.chosen,
                        mounted |-> TRUE]
    <2>1. call \in PageCalls /\ HasList(linkPage, call)
      BY <1>2, PageFields DEF SubmitLink, LinkFormFree, PageCalls, HasList
    <2>2. Send(linkPage, call)
      BY <1>2 DEF SubmitLink
    <2> QED
      BY <2>1, <2>2, SendSteps
  <1>3. CASE ConfirmDeleteLink
    <2> DEFINE call == [kind |-> "unlink", dep |-> linkPage.target[1], target |-> linkPage.target[2]]
    <2>1. linkPage.target \in PageDeps \X LinkTargets /\ linkPage.shown[linkPage.target[1]] # Nothing
      BY <1>3, PageFields DEF ConfirmDeleteLink, PageFree
    <2>2. call \in PageCalls /\ HasList(linkPage, call)
      BY <2>1 DEF PageCalls, HasList
    <2>3. Send(linkPage, call)
      BY <1>3 DEF ConfirmDeleteLink
    <2> QED
      BY <2>2, <2>3, SendSteps
  <1>4. CASE LinkElsewhere
    <2>1. PICK d \in PageDeps, targets \in SUBSET LinkTargets : Elsewhere(d, targets)
      BY <1>4 DEF LinkElsewhere
    <2>2. d \in Lists /\ targets \in SUBSET Entries(d) /\ d \notin {"aliases", "external"}
      BY ListNames
    <2>3. usedIds' = usedIds /\ usedIds \in SUBSET RowIds
      BY <1>4 DEF LinkElsewhere, LinkInv, ListTables
    <2>4. ListTables([tables EXCEPT ![d] = targets], usedIds')
      BY <2>2, <2>3, RowsChange
    <2> QED
      BY <2>1, <2>2, <2>4, ElsewhereSteps
  <1>5. CASE \E d \in PageDeps, i \in Loads : ReadList(d, i) \/ GotLinks(d, i)
    <2>1. PICK d \in PageDeps, i \in Loads : ReadList(d, i) \/ GotLinks(d, i)
      BY <1>5
    <2>2. CASE ReadList(d, i)
      BY <2>2, ListNames, ReadSteps
    <2>3. CASE GotLinks(d, i)
      BY <2>3, ListNames, AnswerShown, PageSteps DEF GotLinks
    <2> QED
      BY <2>1, <2>2, <2>3
  <1>6. ASSUME NEW c \in linkPage.calls, CreateAssociation(c)
        PROVE  LinkInv'
    <2> DEFINE entries == tables[c.dep] \cup {c.target}
               p == Ended(linkPage, c)
               q == [p EXCEPT !.adding = Nothing]
    <2>1. c.dep \in PageDeps /\ c.target \in LinkTargets
      BY <1>6, PageFields DEF CreateAssociation, PageCalls
    <2>2. c.dep \in Lists /\ entries \in SUBSET Entries(c.dep) /\ c.dep \notin {"aliases", "external"}
      BY <2>1, ListNames DEF LinkInv, ListTables
    <2>3. usedIds' = usedIds /\ usedIds \in SUBSET RowIds
      BY <1>6 DEF CreateAssociation, LinkInv, ListTables
    <2>4. Added(c.dep, entries, q, FALSE)
      BY <1>6 DEF CreateAssociation
    <2> HIDE DEF entries, p
    <2>5. ListTables([tables EXCEPT ![c.dep] = entries], usedIds')
      BY <2>2, <2>3, RowsChange
    <2>6. ListPage(p, tables)
      BY PageFields, CallEnds DEF p
    <2>7. p \in LinkPages /\ \A x \in p.calls : HasList(p, x)
      BY <2>6 DEF ListPage, ListShape, RequestsHaveLists
    <2>8. Like(q, p)
      BY <2>7, FormFields DEF MaybeDep
    <2> HIDE DEF q
    <2>9. ListPage(q, tables)
      BY <2>6, <2>7, <2>8, FormsOnly DEF Like
    <2> QED
      BY <2>2, <2>4, <2>5, <2>9, AddedSteps
  <1>7. ASSUME NEW c \in linkPage.calls, DeleteAssociation(c)
        PROVE  LinkInv'
    <2> DEFINE entries == tables[c.dep] \ {c.target}
               p == Ended(linkPage, c)
               q == [p EXCEPT !.target = Nothing]
               shown == q.shown[c.dep] \ {c.target}
    <2>1. c.dep \in PageDeps /\ c.target \in LinkTargets /\ linkPage.shown[c.dep] # Nothing
      BY <1>7, PageFields DEF DeleteAssociation, PageCalls, HasList
    <2>2. c.dep \in Lists /\ entries \in SUBSET Entries(c.dep) /\ c.dep \notin {"aliases", "external", "overrides"}
      BY <2>1, ListNames DEF LinkInv, ListTables
    <2>3. usedIds' = usedIds /\ usedIds \in SUBSET RowIds
      BY <1>7 DEF DeleteAssociation, LinkInv, ListTables
    <2>4. Followed(c.dep, entries, q, shown)
      BY <1>7 DEF DeleteAssociation, Removed
    <2>5. ListTables([tables EXCEPT ![c.dep] = entries], usedIds')
      <3> HIDE DEF entries
      <3> QED
        BY <2>2, <2>3, RowsChange
    <2>6. ListPage(p, tables) /\ p.shown = linkPage.shown /\ p.behind = linkPage.behind
      BY PageFields, CallEnds
    <2> HIDE DEF p
    <2>7. p \in LinkPages /\ \A x \in p.calls : HasList(p, x)
      BY <2>6 DEF ListPage, ListShape, RequestsHaveLists
    <2>8. /\ q \in LinkPages /\ q.shown = p.shown /\ q.behind = p.behind
          /\ q.loads = p.loads /\ q.calls = p.calls /\ q.target = Nothing
          /\ q.newName = p.newName
      BY <2>7, FormFields DEF MaybeLink
    <2> HIDE DEF q
    <2>9. ListPage(q, tables)
      BY <2>6, <2>7, <2>8, FormsOnly
    <2>10. q.shown[c.dep] \in SUBSET Entries(c.dep)
      BY <2>1, <2>2, <2>6, <2>8, PageFields
    <2>11. ~q.behind[c.dep] => Compared(c.dep, shown) = Compared(c.dep, entries)
      <3>1. ~q.behind[c.dep] => q.shown[c.dep] = tables[c.dep]
        BY <2>1, <2>2, <2>6, <2>8, <2>9 DEF ListPage, ShownCurrent, Compared
      <3> QED
        BY <3>1
    <2>12. shown \in SUBSET Entries(c.dep)
      BY <2>10
    <2> HIDE DEF shown, entries
    <2> QED
      BY <2>2, <2>4, <2>5, <2>9, <2>11, <2>12, FollowedSteps
  <1>8. CASE CallFails({"link", "unlink"})
    BY <1>8, CallSteps
  <1> QED
    BY <1>1, <1>2, <1>3, <1>4, <1>5, <1>6, <1>7, <1>8 DEF LinksNext

----------------------------------------------------------------------------
\* An id that was not used yet.
LEMMA NextIdIsNew ==
    ASSUME LinkInv, FreeIds # {}
    PROVE  NextId \in RowIds /\ NextId \notin usedIds /\ usedIds \cup {NextId} \in SUBSET RowIds
  <1>1. FreeIds \subseteq Nat
    BY PageConstants DEF FreeIds
  <1>2. NextId \in FreeIds
    BY <1>1, NatLeast DEF NextId
  <1> QED
    BY <1>2 DEF FreeIds, LinkInv, ListTables

\* A row with a new id, the loss of a row, and the change of one.
LEMMA RowsWithIds ==
    ASSUME LinkInv, NEW l \in {"aliases", "external"}
    PROVE  /\ \A row \in Entries(l) :
                 FreeIds # {} /\ row.id = NextId /\ usedIds' = usedIds \cup {NextId} =>
                    ListTables([tables EXCEPT ![l] = tables[l] \cup {row}], usedIds')
           /\ \A row \in tables[l] :
                 usedIds' = usedIds =>
                    /\ ListTables([tables EXCEPT ![l] = tables[l] \ {row}], usedIds')
                    /\ \A new \in Entries(l) : new.id = row.id =>
                          ListTables([tables EXCEPT ![l] = (tables[l] \ {row}) \cup {new}], usedIds')
  <1>1. /\ l \in Lists /\ tables[l] \in SUBSET Entries(l) /\ usedIds \in SUBSET RowIds
        /\ \A r \in tables[l] : r.id \in usedIds
        /\ \A r1, r2 \in tables[l] : r1.id = r2.id => r1 = r2
    BY ListNames DEF LinkInv, ListTables
  <1>2. ASSUME NEW row \in Entries(l), FreeIds # {}, row.id = NextId,
               usedIds' = usedIds \cup {NextId}
        PROVE  ListTables([tables EXCEPT ![l] = tables[l] \cup {row}], usedIds')
    <2> DEFINE entries == tables[l] \cup {row}
    <2>1. entries \in SUBSET Entries(l)
      BY <1>1
    <2>2. usedIds \subseteq usedIds' /\ usedIds' \in SUBSET RowIds /\ NextId \notin usedIds
      BY <1>2, NextIdIsNew
    <2>3. \A r \in entries : r.id \in usedIds'
      BY <1>1, <1>2
    <2>4. \A r1, r2 \in entries : r1.id = r2.id => r1 = r2
      BY <1>1, <1>2, <2>2
    <2> HIDE DEF entries
    <2>5. ListTables([tables EXCEPT ![l] = entries], usedIds')
      BY <1>1, <2>1, <2>2, <2>3, <2>4, RowsChange
    <2> QED
      BY <2>5 DEF entries
  <1>3. ASSUME NEW row \in tables[l], usedIds' = usedIds
        PROVE  ListTables([tables EXCEPT ![l] = tables[l] \ {row}], usedIds')
    <2> DEFINE entries == tables[l] \ {row}
    <2>1. /\ entries \in SUBSET Entries(l) /\ \A r \in entries : r.id \in usedIds
          /\ \A r1, r2 \in entries : r1.id = r2.id => r1 = r2
      BY <1>1
    <2> HIDE DEF entries
    <2>3. ListTables([tables EXCEPT ![l] = entries], usedIds')
      BY <1>1, <1>3, <2>1, RowsChange
    <2> QED
      BY <2>3 DEF entries
  <1>4. ASSUME NEW row \in tables[l], usedIds' = usedIds, NEW new \in Entries(l), new.id = row.id
        PROVE  ListTables([tables EXCEPT ![l] = (tables[l] \ {row}) \cup {new}], usedIds')
    <2> DEFINE entries == (tables[l] \ {row}) \cup {new}
    <2>1. entries \in SUBSET Entries(l) /\ \A r \in entries : r.id \in usedIds
      BY <1>1, <1>4
    <2>2. \A r1, r2 \in entries : r1.id = r2.id => r1 = r2
      BY <1>1, <1>4
    <2> HIDE DEF entries
    <2>3. ListTables([tables EXCEPT ![l] = entries], usedIds')
      BY <1>1, <1>4, <2>1, <2>2, RowsChange
    <2> QED
      BY <2>3 DEF entries
  <1> QED
    BY <1>2, <1>3, <1>4

LEMMA AliasesSteps ==
    ASSUME LinkInv, AliasesNext
    PROVE  LinkInv'
  <1> DEFINE l == "aliases"
  <1>0. l \in Lists /\ Entries(l) = AliasRow
    BY ListNames
  <1>1. CASE (\E a \in AliasNames : OpenAliasForm(a)) \/ CancelAliasForm
    <2>1. \A a \in AliasNames \cup {Nothing} :
             Like([linkPage EXCEPT !.aliasOf = a, !.aliasInput = ""], linkPage)
      BY PageFields, FormFields DEF MaybeAlias
    <2>2. \E a \in AliasNames \cup {Nothing} :
             ToPage([linkPage EXCEPT !.aliasOf = a, !.aliasInput = ""])
      BY <1>1 DEF OpenAliasForm, CancelAliasForm, NoAliasForm
    <2> QED
      BY <2>1, <2>2, FormSteps
  <1>2. CASE TypeCanonical
    <2>1. PICK n \in CanonicalNames \cup {""} : ToPage([linkPage EXCEPT !.aliasInput = n])
      BY <1>2 DEF TypeCanonical
    <2>2. Like([linkPage EXCEPT !.aliasInput = n], linkPage)
      BY PageFields, FormFields DEF CanonicalInput
    <2> QED
      BY <2>1, <2>2, FormSteps
  <1>3. CASE SubmitAlias
    <2> DEFINE call == [kind |-> "alias", alias |-> linkPage.aliasOf, name |-> linkPage.aliasInput]
    <2>1. call \in PageCalls /\ HasList(linkPage, call)
      BY <1>3, PageFields DEF SubmitAlias, PageCalls, HasList
    <2> QED
      BY <1>3, <2>1, SendSteps DEF SubmitAlias
  <1>4. CASE HandleAliasDelete
    <2>1. PICK r \in linkPage.shown["aliases"] : Send(linkPage, [kind |-> "unalias", id |-> r.id])
      BY <1>4 DEF HandleAliasDelete
    <2> DEFINE call == [kind |-> "unalias", id |-> r.id]
    <2>2. r.id \in RowIds
      BY PageFields DEF AliasRow
    <2>3. call \in PageCalls /\ HasList(linkPage, call)
      BY <2>2 DEF PageCalls, HasList
    <2> QED
      BY <2>1, <2>3, SendSteps
  <1>5. CASE AliasElsewhere
    <2>1. CASE \E a \in AliasNames, n \in CanonicalNames :
                  /\ MayAlias(a) /\ usedIds' = usedIds \cup {NextId}
                  /\ Elsewhere("aliases", tables["aliases"] \cup {NewAlias(NextId, a, n)})
      <3>1. PICK a \in AliasNames, n \in CanonicalNames :
                  /\ MayAlias(a) /\ usedIds' = usedIds \cup {NextId}
                  /\ Elsewhere("aliases", tables["aliases"] \cup {NewAlias(NextId, a, n)})
        BY <2>1
      <3> DEFINE row == NewAlias(NextId, a, n)
      <3>2. row \in Entries(l) /\ FreeIds # {} /\ row.id = NextId
        BY <3>1, <1>0, NextIdIsNew DEF MayAlias, NewAlias, AliasRow
      <3> HIDE DEF row
      <3>3. ListTables([tables EXCEPT ![l] = tables[l] \cup {row}], usedIds')
        BY <3>1, <3>2, RowsWithIds
      <3>4. tables[l] \cup {row} \in SUBSET Entries(l)
        BY <1>0, <3>2 DEF LinkInv, ListTables
      <3> QED
        BY <1>0, <3>1, <3>3, <3>4, ElsewhereSteps DEF row
    <2>2. ASSUME usedIds' = usedIds, NEW r \in tables["aliases"],
                 Elsewhere("aliases", tables["aliases"] \ {r})
          PROVE  LinkInv'
      <3>1. tables[l] \ {r} \in SUBSET Entries(l)
        BY <1>0 DEF LinkInv, ListTables
      <3>2. ListTables([tables EXCEPT ![l] = tables[l] \ {r}], usedIds')
        BY <2>2, RowsWithIds
      <3> QED
        BY <1>0, <2>2, <3>1, <3>2, ElsewhereSteps
    <2>3. ASSUME usedIds' = usedIds, NEW r \in tables["aliases"], NEW n \in CanonicalNames,
                 Elsewhere("aliases", (tables["aliases"] \ {r}) \cup {[r EXCEPT !.name = n]})
          PROVE  LinkInv'
      <3> DEFINE new == [r EXCEPT !.name = n]
      <3>1. r \in AliasRow
        BY <1>0 DEF LinkInv, ListTables
      <3>2. new \in Entries(l) /\ new.id = r.id
        BY <1>0, <3>1 DEF AliasRow
      <3> HIDE DEF new
      <3>3. (tables[l] \ {r}) \cup {new} \in SUBSET Entries(l)
        BY <1>0, <3>2 DEF LinkInv, ListTables
      <3>4. ListTables([tables EXCEPT ![l] = (tables[l] \ {r}) \cup {new}], usedIds')
        BY <2>3, <3>2, RowsWithIds
      <3> QED
        BY <1>0, <2>3, <3>3, <3>4, ElsewhereSteps DEF new
    <2> QED
      BY <1>5, <2>1, <2>2, <2>3 DEF AliasElsewhere
  <1>6. ASSUME NEW i \in Loads, GotAliases(i)
        PROVE  LinkInv'
    <2> DEFINE load == IF linkPage.loads["aliases"][i].then THEN Load("names", TRUE) ELSE NoLoad
               p == WithAnswer("aliases", i)
    <2>1. ListPage(p, tables)
      BY <1>0, <1>6, AnswerShown DEF GotAliases
    <2>2. load \in ListLoad /\ load.rows = {} /\ load.state # "read"
      BY DEF Load, NoLoad, ListLoad
    <2>3. ToPage([p EXCEPT !.loads["aliases"][i] = load])
      BY <1>6 DEF GotAliases
    <2> HIDE DEF load, p
    <2>4. ListPage([p EXCEPT !.loads["aliases"][i] = load], tables)
      BY <1>0, <2>1, <2>2, LoadChanges
    <2> QED
      BY <2>3, <2>4, PageSteps
  <1>7. ASSUME NEW i \in Loads, GotNames(i)
        PROVE  LinkInv'
    <2> DEFINE p == [linkPage EXCEPT !.loads["aliases"][i] = NoLoad]
               q == NoAliasForm(p)
    <2>1. ListPage(p, tables)
      BY <1>0, FreeLoad, PageFields, LoadChanges
    <2>2. ToPage(q)
      BY <1>7 DEF GotNames
    <2> HIDE DEF p
    <2>3. p \in LinkPages /\ \A x \in p.calls : HasList(p, x)
      BY <2>1 DEF ListPage, ListShape, RequestsHaveLists
    <2>4. Like(q, p)
      BY <2>3, FormFields DEF NoAliasForm, MaybeAlias
    <2> HIDE DEF q
    <2>5. ListPage(q, tables)
      BY <2>1, <2>3, <2>4, FormsOnly DEF Like
    <2> QED
      BY <2>2, <2>5, PageSteps
  <1>8. ASSUME NEW c \in linkPage.calls, PostAlias(c)
        PROVE  LinkInv'
    <2> DEFINE row == NewAlias(NextId, c.alias, c.name)
               entries == tables["aliases"] \cup {row}
    <2>1. c.alias \in AliasNames /\ c.name \in CanonicalNames /\ FreeIds # {}
      BY <1>8, PageFields DEF PostAlias, PageCalls, MayAlias
    <2>2. row \in Entries(l) /\ row.id = NextId
      BY <2>1, <1>0, NextIdIsNew DEF NewAlias, AliasRow
    <2>3. Added("aliases", entries, Ended(linkPage, c), TRUE) /\ usedIds' = usedIds \cup {NextId}
      BY <1>8 DEF PostAlias
    <2> HIDE DEF row
    <2>4. ListTables([tables EXCEPT ![l] = entries], usedIds')
      BY <2>1, <2>2, <2>3, RowsWithIds
    <2>5. entries \in SUBSET Entries(l)
      BY <1>0, <2>2 DEF LinkInv, ListTables
    <2>6. ListPage(Ended(linkPage, c), tables)
      BY PageFields, CallEnds
    <2> HIDE DEF entries
    <2> QED
      BY <1>0, <2>3, <2>4, <2>5, <2>6, AddedSteps
  <1>9. ASSUME NEW c \in linkPage.calls, RemoveAlias(c)
        PROVE  LinkInv'
    <2>1. PICK r \in tables["aliases"] :
             r.id = c.id /\ Removed("aliases", tables["aliases"] \ {r}, Ended(linkPage, c),
                                    {x \in linkPage.shown["aliases"] : x.id = r.id})
      BY <1>9 DEF RemoveAlias
    <2> DEFINE entries == tables["aliases"] \ {r}
               p == Ended(linkPage, c)
               shown == p.shown["aliases"] \ {x \in linkPage.shown["aliases"] : x.id = r.id}
    <2>2. Followed("aliases", entries, p, shown)
      BY <2>1 DEF Removed
    <2>3. ListPage(p, tables) /\ p.shown = linkPage.shown /\ p.behind = linkPage.behind
      BY PageFields, CallEnds
    <2>4. entries \in SUBSET Entries(l) /\ ListTables([tables EXCEPT ![l] = entries], usedIds')
      <3>1. usedIds' = usedIds
        BY <1>9 DEF RemoveAlias
      <3> QED
        BY <1>0, <3>1, RowsWithIds DEF LinkInv, ListTables
    <2>5. shown \in SUBSET Entries(l)
      BY <1>0, <2>3, PageFields
    <2>6. ~p.behind[l] => Compared(l, shown) = Compared(l, entries)
      <3> SUFFICES ASSUME ~p.behind[l]
                   PROVE  shown = entries
        BY DEF Compared
      <3>1. linkPage.shown[l] = tables[l]
        BY <1>0, <2>3, PageFields DEF ListPage, ListShape, ShownCurrent, Compared
      <3>2. \A x \in tables[l] : x.id = r.id => x = r
        BY DEF LinkInv, ListTables
      <3> QED
        BY <2>3, <3>1, <3>2
    <2> HIDE DEF shown, entries, p
    <2> QED
      BY <1>0, <2>2, <2>3, <2>4, <2>5, <2>6, FollowedSteps
  <1>10. CASE CallFails({"alias", "unalias"})
    BY <1>10, CallSteps
  <1>11. CASE \E i \in Loads : ReadList("aliases", i)
    BY <1>0, <1>11, ReadSteps
  <1> QED
    BY <1>1, <1>2, <1>3, <1>4, <1>5, <1>6, <1>7, <1>8, <1>9, <1>10, <1>11 DEF AliasesNext

----------------------------------------------------------------------------
LEMMA OverridesSteps ==
    ASSUME LinkInv, OverridesNext
    PROVE  LinkInv'
  <1> DEFINE l == "overrides"
  <1>0. /\ l \in Lists /\ Entries(l) = OverrideRow /\ l \notin {"aliases", "external"}
        /\ tables[l] \in SUBSET OverrideRow /\ linkPage.shown[l] # Nothing
    BY ListNames DEF LinkInv, ListTables, ListPage, ListShape
  <1>1. ASSUME NEW entries \in SUBSET Entries(l), usedIds' = usedIds
        PROVE  ListTables([tables EXCEPT ![l] = entries], usedIds')
    BY <1>0, <1>1, RowsChange DEF LinkInv, ListTables
  <1>2. CASE (\E n \in CanonicalNames : OpenOverrideEdit(n)) \/ CancelOverrideEdit
    <2>1. \A n \in CanonicalNames \cup {Nothing}, x \in OverrideTexts \cup {""} :
             Like([linkPage EXCEPT !.overrideOf = n, !.overrideInput = x], linkPage)
      BY PageFields, FormFields DEF MaybeCanonical, OverrideInput
    <2>2. \E n \in CanonicalNames \cup {Nothing}, x \in OverrideTexts \cup {""} :
             ToPage([linkPage EXCEPT !.overrideOf = n, !.overrideInput = x])
      <3>1. CASE CancelOverrideEdit
        BY <3>1 DEF CancelOverrideEdit, NoOverrideForm
      <3>2. ASSUME NEW n \in CanonicalNames, OpenOverrideEdit(n)
            PROVE  \E x \in OverrideTexts \cup {""} :
                      ToPage([linkPage EXCEPT !.overrideOf = n, !.overrideInput = x])
        <4>1. PICK x \in IF ShownOf(n) = {} THEN {""} ELSE {r.text : r \in ShownOf(n)} :
                     ToPage([linkPage EXCEPT !.overrideOf = n, !.overrideInput = x])
          BY <3>2 DEF OpenOverrideEdit
        <4>2. \A r \in ShownOf(n) : r.text \in OverrideTexts
          BY PageFields DEF ShownOf, OverrideRow
        <4> QED
          BY <4>1, <4>2
      <3> QED
        BY <1>2, <3>1, <3>2
    <2> QED
      BY <2>1, <2>2, FormSteps
  <1>3. CASE TypeOverride
    <2>1. PICK x \in OverrideTexts \cup {""} : ToPage([linkPage EXCEPT !.overrideInput = x])
      BY <1>3 DEF TypeOverride
    <2>2. Like([linkPage EXCEPT !.overrideInput = x], linkPage)
      BY PageFields, FormFields DEF OverrideInput
    <2> QED
      BY <2>1, <2>2, FormSteps
  <1>4. CASE HandleOverrideSave
    <2> DEFINE call == [kind |-> "save", name |-> linkPage.overrideOf, text |-> linkPage.overrideInput]
    <2>1. call \in PageCalls /\ HasList(linkPage, call)
      BY <1>4, PageFields DEF HandleOverrideSave, PageCalls, HasList
    <2> QED
      BY <1>4, <2>1, SendSteps DEF HandleOverrideSave
  <1>5. CASE HandleOverrideClear
    <2> DEFINE call == [kind |-> "clear", name |-> linkPage.overrideOf]
    <2>1. call \in PageCalls /\ HasList(linkPage, call)
      BY <1>5, PageFields DEF HandleOverrideClear, PageCalls, HasList
    <2> QED
      BY <1>5, <2>1, SendSteps DEF HandleOverrideClear
  <1>6. CASE OverrideElsewhere
    <2>1. PICK n \in CanonicalNames, who \in OverrideTeams \cup {Nothing} :
            LET others == {r \in tables["overrides"] : r.name # n \/ r.team # who}
            IN  \/ Elsewhere("overrides", others)
                \/ \E x \in OverrideTexts :
                      Elsewhere("overrides", others \cup {[name |-> n, team |-> who, text |-> x]})
      BY <1>6 DEF OverrideElsewhere
    <2>2. \E entries \in SUBSET Entries(l) : Elsewhere(l, entries)
      BY <1>0, <2>1 DEF OverrideRow
    <2>3. usedIds' = usedIds
      BY <1>6 DEF OverrideElsewhere
    <2> QED
      BY <1>0, <1>1, <2>2, <2>3, ElsewhereSteps
  <1>7. CASE \E i \in Loads : ReadList("overrides", i)
    BY <1>0, <1>7, ReadSteps
  <1>8. ASSUME NEW i \in Loads, GotOverrides(i)
        PROVE  LinkInv'
    <2> DEFINE p == WithAnswer("overrides", i)
               q == NoOverrideForm(p)
    <2>1. ListPage(p, tables)
      BY <1>0, <1>8, AnswerShown DEF GotOverrides
    <2>2. ToPage(q) \/ ToPage(p)
      BY <1>8 DEF GotOverrides
    <2> HIDE DEF p
    <2>3. p \in LinkPages /\ \A x \in p.calls : HasList(p, x)
      BY <2>1 DEF ListPage, ListShape, RequestsHaveLists
    <2>4. Like(q, p)
      BY <2>3, FormFields DEF NoOverrideForm, MaybeCanonical, OverrideInput
    <2> HIDE DEF q
    <2>5. ListPage(q, tables)
      BY <2>1, <2>3, <2>4, FormsOnly DEF Like
    <2> QED
      BY <2>1, <2>2, <2>5, PageSteps
  <1>9. ASSUME NEW c \in linkPage.calls, UpsertCanonicalOverride(c)
        PROVE  LinkInv'
    <2> DEFINE entries == (tables["overrides"] \ Canonical(c.name))
                          \cup {[name |-> c.name, team |-> Nothing, text |-> c.text]}
    <2>1. c.name \in CanonicalNames /\ c.text \in OverrideTexts
      BY <1>9, PageFields DEF UpsertCanonicalOverride, PageCalls
    <2>2. entries \in SUBSET Entries(l)
      BY <1>0, <2>1 DEF OverrideRow
    <2>3. Added("overrides", entries, Ended(linkPage, c), TRUE) /\ usedIds' = usedIds
      BY <1>9 DEF UpsertCanonicalOverride
    <2>4. ListPage(Ended(linkPage, c), tables)
      BY PageFields, CallEnds
    <2> HIDE DEF entries
    <2> QED
      BY <1>0, <1>1, <2>2, <2>3, <2>4, AddedSteps
  <1>10. ASSUME NEW c \in linkPage.calls, DeleteCanonicalOverride(c)
         PROVE  LinkInv'
    <2> DEFINE p == Ended(linkPage, c)
               q == NoOverrideForm(p)
               entries == tables["overrides"] \ Canonical(c.name)
               shown == q.shown["overrides"] \ ShownOf(c.name)
    <2>1. Followed("overrides", entries, q, shown) /\ usedIds' = usedIds
      BY <1>10 DEF DeleteCanonicalOverride, Removed
    <2>2. ListPage(p, tables) /\ p.shown = linkPage.shown /\ p.behind = linkPage.behind
      BY PageFields, CallEnds
    <2> HIDE DEF p
    <2>3. p \in LinkPages /\ \A x \in p.calls : HasList(p, x)
      BY <2>2 DEF ListPage, ListShape, RequestsHaveLists
    <2>4. Like(q, p)
      BY <2>3, FormFields DEF NoOverrideForm, MaybeCanonical, OverrideInput
    <2> HIDE DEF q
    <2>5. ListPage(q, tables)
      BY <2>2, <2>3, <2>4, FormsOnly DEF Like
    <2>6. q.shown[l] = linkPage.shown[l] /\ q.behind[l] = linkPage.behind[l]
      BY <2>2, <2>4 DEF Like
    <2>7. shown \in SUBSET Entries(l) /\ entries \in SUBSET Entries(l)
      BY <1>0, <2>6, PageFields
    <2>8. ~q.behind[l] => Compared(l, shown) = Compared(l, entries)
      <3> SUFFICES ASSUME ~q.behind[l]
                   PROVE  Compared(l, shown) = Compared(l, entries)
        OBVIOUS
      <3>1. Compared(l, linkPage.shown[l]) = Compared(l, tables[l])
        BY <1>0, <2>6, PageFields DEF ListPage, ShownCurrent
      <3>2. {r \in linkPage.shown[l] : r.team = Nothing} = {r \in tables[l] : r.team = Nothing}
        BY <3>1 DEF Compared
      <3>3. shown = {r \in linkPage.shown[l] : r.name # c.name}
        BY <2>6 DEF ShownOf
      <3>4. entries = {r \in tables[l] : ~(r.name = c.name /\ r.team = Nothing)}
        BY DEF Canonical
      <3>5. {r \in shown : r.team = Nothing} = {r \in entries : r.team = Nothing}
        BY <3>2, <3>3, <3>4
      <3> QED
        BY <3>5 DEF Compared
    <2> HIDE DEF shown, entries
    <2> QED
      BY <1>0, <1>1, <2>1, <2>5, <2>7, <2>8, FollowedSteps
  <1>11. CASE CallFails({"save", "clear"})
    BY <1>11, CallSteps
  <1> QED
    BY <1>2, <1>3, <1>4, <1>5, <1>6, <1>7, <1>8, <1>9, <1>10, <1>11 DEF OverridesNext

LEMMA ExternalSteps ==
    ASSUME LinkInv, ExternalNext
    PROVE  LinkInv'
  <1> DEFINE l == "external"
  <1>0. /\ l \in Lists /\ Entries(l) = ExternalRow
        /\ tables[l] \in SUBSET ExternalRow
        /\ linkPage.shown[l] # Nothing => linkPage.shown[l] \in SUBSET ExternalRow
    BY ListNames, PageFields DEF LinkInv, ListTables
  <1>1. CASE TypeNewName
    <2>1. PICK n \in ExternalNames \cup {""} : ToPage([linkPage EXCEPT !.newName = n])
      BY <1>1 DEF TypeNewName
    <2> DEFINE q == [linkPage EXCEPT !.newName = n]
    <2>2. /\ q \in LinkPages /\ q.shown = linkPage.shown /\ q.behind = linkPage.behind
          /\ q.loads = linkPage.loads /\ q.calls = linkPage.calls /\ q.target = linkPage.target
      <3>1. n \in ExternalInput
        BY DEF ExternalInput
      <3>2. linkPage \in LinkPages
        BY PageFields
      <3> HIDE DEF q
      <3> QED
        BY <3>1, <3>2, FormFields DEF q
    <2>3. ToPage(q) /\ linkPage.shown["external"] # Nothing
      BY <1>1, <2>1 DEF TypeNewName
    <2> HIDE DEF q
    <2>4. ListPage(q, tables)
      BY <2>2, <2>3, PageFields, FormsOnly
    <2> QED
      BY <2>3, <2>4, PageSteps
  <1>2. CASE HandleCreate
    <2> DEFINE call == [kind |-> "create", name |-> linkPage.newName]
    <2>1. call \in PageCalls /\ HasList(linkPage, call)
      BY <1>2, PageFields DEF HandleCreate, PageCalls, HasList
    <2> QED
      BY <1>2, <2>1, SendSteps DEF HandleCreate
  <1>3. CASE StartEdit
    <2>1. PICK r \in linkPage.shown["external"] :
             ToPage([linkPage EXCEPT !.editing = r.id, !.editName = r.name])
      BY <1>3 DEF StartEdit
    <2>2. r.id \in RowIds /\ r.name \in ExternalNames
      BY <1>0, <1>3 DEF StartEdit, ExternalRow
    <2>3. Like([linkPage EXCEPT !.editing = r.id, !.editName = r.name], linkPage)
      BY <2>2, PageFields, FormFields DEF MaybeId, ExternalInput
    <2> QED
      BY <2>1, <2>3, FormSteps
  <1>4. CASE CancelEdit
    <2>1. Like([linkPage EXCEPT !.editing = Nothing, !.editName = ""], linkPage)
      BY PageFields, FormFields DEF MaybeId, ExternalInput
    <2> QED
      BY <1>4, <2>1, FormSteps DEF CancelEdit, NoEdit
  <1>5. CASE TypeEditName
    <2>1. PICK n \in ExternalNames \cup {""} : ToPage([linkPage EXCEPT !.editName = n])
      BY <1>5 DEF TypeEditName
    <2>2. Like([linkPage EXCEPT !.editName = n], linkPage)
      BY PageFields, FormFields DEF ExternalInput
    <2> QED
      BY <2>1, <2>2, FormSteps
  <1>6. CASE HandleUpdate
    <2> DEFINE call == [kind |-> "update", id |-> linkPage.editing, name |-> linkPage.editName]
    <2>1. linkPage.editing \in RowIds
      BY <1>0, <1>6 DEF HandleUpdate, Editing, Edited, ExternalRow
    <2>2. call \in PageCalls /\ HasList(linkPage, call)
      BY <1>6, <2>1, PageFields DEF HandleUpdate, Editing, PageCalls, HasList
    <2> QED
      BY <1>6, <2>2, SendSteps DEF HandleUpdate
  <1>7. CASE HandleDelete
    <2>1. PICK r \in linkPage.shown["external"] : Send(linkPage, [kind |-> "delete", id |-> r.id])
      BY <1>7 DEF HandleDelete
    <2> DEFINE call == [kind |-> "delete", id |-> r.id]
    <2>2. r.id \in RowIds
      BY <1>0, <1>7 DEF HandleDelete, ExternalRow
    <2>3. call \in PageCalls /\ HasList(linkPage, call)
      BY <1>7, <2>2 DEF HandleDelete, PageCalls, HasList
    <2> QED
      BY <2>1, <2>3, SendSteps
  <1>8. CASE ExternalElsewhere
    <2>1. ASSUME NEW n \in ExternalNames, FreeIds # {}, usedIds' = usedIds \cup {NextId},
                 Elsewhere("external", tables["external"] \cup {[id |-> NextId, name |-> n]})
          PROVE  LinkInv'
      <3> DEFINE row == [id |-> NextId, name |-> n]
      <3>1. row \in Entries(l) /\ row.id = NextId
        BY <2>1, <1>0, NextIdIsNew DEF ExternalRow
      <3> HIDE DEF row
      <3>2. ListTables([tables EXCEPT ![l] = tables[l] \cup {row}], usedIds')
        BY <2>1, <3>1, RowsWithIds
      <3>3. tables[l] \cup {row} \in SUBSET Entries(l)
        BY <1>0, <3>1
      <3> QED
        BY <1>0, <2>1, <3>2, <3>3, ElsewhereSteps DEF row
    <2>2. ASSUME usedIds' = usedIds, NEW r \in tables["external"],
                 Elsewhere("external", tables["external"] \ {r})
          PROVE  LinkInv'
      <3>1. tables[l] \ {r} \in SUBSET Entries(l)
        BY <1>0
      <3>2. ListTables([tables EXCEPT ![l] = tables[l] \ {r}], usedIds')
        BY <2>2, RowsWithIds
      <3> QED
        BY <1>0, <2>2, <3>1, <3>2, ElsewhereSteps
    <2>3. ASSUME usedIds' = usedIds, NEW r \in tables["external"], NEW n \in ExternalNames,
                 Elsewhere("external", (tables["external"] \ {r}) \cup {[r EXCEPT !.name = n]})
          PROVE  LinkInv'
      <3> DEFINE new == [r EXCEPT !.name = n]
      <3>1. r \in ExternalRow
        BY <1>0
      <3>2. new \in Entries(l) /\ new.id = r.id
        BY <1>0, <3>1 DEF ExternalRow
      <3> HIDE DEF new
      <3>3. (tables[l] \ {r}) \cup {new} \in SUBSET Entries(l)
        BY <1>0, <3>2
      <3>4. ListTables([tables EXCEPT ![l] = (tables[l] \ {r}) \cup {new}], usedIds')
        BY <2>3, <3>2, RowsWithIds
      <3> QED
        BY <1>0, <2>3, <3>3, <3>4, ElsewhereSteps DEF new
    <2> QED
      BY <1>8, <2>1, <2>2, <2>3 DEF ExternalElsewhere
  <1>9. CASE \E i \in Loads : ReadList("external", i) \/ GotExternal(i)
    BY <1>0, <1>9, ReadSteps, AnswerShown, PageSteps DEF GotExternal, Answered
  <1>10. ASSUME NEW c \in linkPage.calls, CreateExternalService(c)
         PROVE  LinkInv'
    <2> DEFINE row == [id |-> NextId, name |-> c.name]
               p == Ended(linkPage, c)
               q == [p EXCEPT !.newName = ""]
               entries == tables["external"] \cup {row}
               shown == linkPage.shown["external"] \cup {row}
    <2>1. /\ c.name \in ExternalNames /\ FreeIds # {} /\ usedIds' = usedIds \cup {NextId}
          /\ linkPage.shown["external"] # Nothing
      BY <1>10, PageFields DEF CreateExternalService, PageCalls, HasList
    <2>2. row \in Entries(l) /\ row.id = NextId
      BY <1>0, <2>1, NextIdIsNew DEF ExternalRow
    <2>3. Followed("external", entries, q, shown)
      BY <1>10 DEF CreateExternalService
    <2> HIDE DEF row, p
    <2>4. ListTables([tables EXCEPT ![l] = entries], usedIds')
      BY <2>1, <2>2, RowsWithIds
    <2>5. ListPage(p, tables) /\ p.shown = linkPage.shown /\ p.behind = linkPage.behind
      BY PageFields, CallEnds DEF p
    <2>6. p \in LinkPages /\ \A x \in p.calls : HasList(p, x)
      BY <2>5 DEF ListPage, ListShape, RequestsHaveLists
    <2>7. /\ q \in LinkPages /\ q.shown = p.shown /\ q.behind = p.behind
          /\ q.loads = p.loads /\ q.calls = p.calls /\ q.target = p.target
          /\ q.newName = ""
      BY <2>6, FormFields DEF ExternalInput
    <2> HIDE DEF q
    <2>8. ListPage(q, tables)
      BY <2>5, <2>6, <2>7, FormsOnly
    <2>9. shown \in SUBSET Entries(l) /\ entries \in SUBSET Entries(l)
      BY <1>0, <2>1, <2>2
    <2>10. ~q.behind[l] => Compared(l, shown) = Compared(l, entries)
      <3>1. ~q.behind[l] => linkPage.shown[l] = tables[l]
        BY <1>0, <2>1, <2>5, <2>7, PageFields DEF ListPage, ShownCurrent, Compared
      <3> QED
        BY <3>1
    <2> HIDE DEF shown, entries
    <2> QED
      BY <1>0, <2>3, <2>4, <2>8, <2>9, <2>10, FollowedSteps
  <1>11. ASSUME NEW c \in linkPage.calls, UpdateExternalService(c)
         PROVE  LinkInv'
    <2>1. PICK r \in tables["external"] :
             /\ r.id = c.id
             /\ LET Renamed(entries) ==
                       {IF x.id = c.id THEN [x EXCEPT !.name = c.name] ELSE x : x \in entries}
                IN  Followed("external", Renamed(tables["external"]), NoEdit(Ended(linkPage, c)),
                             Renamed(linkPage.shown["external"]))
      BY <1>11 DEF UpdateExternalService
    <2> DEFINE Renamed(x) == IF x.id = c.id THEN [x EXCEPT !.name = c.name] ELSE x
               entries == {Renamed(x) : x \in tables["external"]}
               shown == {Renamed(x) : x \in linkPage.shown["external"]}
               p == Ended(linkPage, c)
               q == NoEdit(p)
    <2>2. /\ c.name \in ExternalNames /\ usedIds' = usedIds
          /\ linkPage.shown["external"] # Nothing
      BY <1>11, PageFields DEF UpdateExternalService, PageCalls, HasList
    <2>3. \A x \in ExternalRow : Renamed(x) \in ExternalRow /\ Renamed(x).id = x.id
      BY <2>2 DEF ExternalRow
    <2>4. Followed("external", entries, q, shown)
      BY <2>1
    <2> HIDE DEF Renamed, p
    <2>5. shown \in SUBSET Entries(l) /\ entries \in SUBSET Entries(l)
      BY <1>0, <2>2, <2>3
    <2>6. /\ \A x \in entries : x.id \in usedIds
          /\ \A x, y \in entries : x.id = y.id => x = y
      <3>1. /\ \A x \in tables[l] : x.id \in usedIds /\ x \in ExternalRow
            /\ \A x, y \in tables[l] : x.id = y.id => x = y
        BY <1>0 DEF LinkInv, ListTables
      <3> QED
        BY <2>3, <3>1
    <2>7. ListPage(p, tables) /\ p.shown = linkPage.shown /\ p.behind = linkPage.behind
      BY PageFields, CallEnds DEF p
    <2>8. p \in LinkPages /\ \A x \in p.calls : HasList(p, x)
      BY <2>7 DEF ListPage, ListShape, RequestsHaveLists
    <2>9. Like(q, p)
      BY <2>8, FormFields DEF NoEdit, MaybeId, ExternalInput
    <2> HIDE DEF q
    <2>10. ListPage(q, tables)
      BY <2>7, <2>8, <2>9, FormsOnly DEF Like
    <2>11. ~q.behind[l] => Compared(l, shown) = Compared(l, entries)
      <3>1. ~q.behind[l] => linkPage.shown[l] = tables[l]
        BY <1>0, <2>2, <2>7, <2>9, PageFields DEF Like, ListPage, ShownCurrent, Compared
      <3> QED
        BY <3>1
    <2> HIDE DEF shown, entries
    <2>12. ListTables([tables EXCEPT ![l] = entries], usedIds')
      BY <1>0, <2>2, <2>5, <2>6, RowsChange DEF LinkInv, ListTables
    <2> QED
      BY <1>0, <2>4, <2>5, <2>10, <2>11, <2>12, FollowedSteps
  <1>12. ASSUME NEW c \in linkPage.calls, DeleteExternalService(c)
         PROVE  LinkInv'
    <2>1. PICK r \in tables["external"] :
             r.id = c.id /\ Removed("external", tables["external"] \ {r}, Ended(linkPage, c),
                                    {x \in linkPage.shown["external"] : x.id = r.id})
      BY <1>12 DEF DeleteExternalService
    <2> DEFINE entries == tables["external"] \ {r}
               p == Ended(linkPage, c)
               shown == p.shown["external"] \ {x \in linkPage.shown["external"] : x.id = r.id}
    <2>2. Followed("external", entries, p, shown)
      BY <2>1 DEF Removed
    <2>3. usedIds' = usedIds /\ linkPage.shown["external"] # Nothing
      BY <1>12, PageFields DEF DeleteExternalService, HasList
    <2>4. ListPage(p, tables) /\ p.shown = linkPage.shown /\ p.behind = linkPage.behind
      BY PageFields, CallEnds
    <2>5. entries \in SUBSET Entries(l) /\ ListTables([tables EXCEPT ![l] = entries], usedIds')
      BY <1>0, <2>3, RowsWithIds DEF LinkInv, ListTables
    <2>6. shown \in SUBSET Entries(l)
      BY <1>0, <2>3, <2>4
    <2>7. ~p.behind[l] => Compared(l, shown) = Compared(l, entries)
      <3> SUFFICES ASSUME ~p.behind[l]
                   PROVE  shown = entries
        BY DEF Compared
      <3>1. linkPage.shown[l] = tables[l]
        BY <1>0, <2>3, <2>4, PageFields DEF ListPage, ShownCurrent, Compared
      <3>2. \A x \in tables[l] : x.id = r.id => x = r
        BY DEF LinkInv, ListTables
      <3> QED
        BY <2>4, <3>1, <3>2
    <2> HIDE DEF shown, entries, p
    <2> QED
      BY <1>0, <2>2, <2>4, <2>5, <2>6, <2>7, FollowedSteps
  <1>13. CASE CallFails({"create", "update", "delete"})
    BY <1>13, CallSteps
  <1> QED
    BY <1>1, <1>2, <1>3, <1>4, <1>5, <1>6, <1>7, <1>8, <1>9, <1>10, <1>11, <1>12, <1>13
       DEF ExternalNext

----------------------------------------------------------------------------
LEMMA LinkStarts == LinkPageInit => LinkInv
  <1> SUFFICES ASSUME LinkPageInit
               PROVE  LinkInv
    OBVIOUS
  <1> DEFINE first(l) == IF l \in {"aliases", "overrides"} THEN {} ELSE Nothing
             load(l, i) == Load(IF l \notin PageDeps /\ i = 1 THEN "asked" ELSE "none", FALSE)
             shown == [l \in Lists |-> first(l)]
             behind == [l \in Lists |-> TRUE]
             loads == [l \in Lists |-> [i \in Loads |-> load(l, i)]]
  <1>1. linkPage =
          [shown |-> shown, behind |-> behind, loads |-> loads,
           calls |-> {}, opened |-> {}, filter |-> "all",
           adding |-> Nothing, chosen |-> "", target |-> Nothing,
           aliasOf |-> Nothing, aliasInput |-> "", overrideOf |-> Nothing, overrideInput |-> "",
           newName |-> "", editing |-> Nothing, editName |-> ""]
    BY DEF LinkPageInit
  <1>2. \A l \in Lists, i \in Loads :
           load(l, i) \in ListLoad /\ load(l, i).rows = {} /\ load(l, i).state # "read"
    BY DEF Load, ListLoad
  <1>3. shown \in ShownLists /\ behind \in ListMarks /\ loads \in ListLoads /\ {} \in PageRequests
    <2> HIDE DEF load
    <2> QED
      BY <1>2 DEF ShownLists, ListMarks, ListLoads, PageRequests
  <1>4. /\ {} \in OpenDeps /\ "all" \in FilterNames /\ Nothing \in MaybeDep /\ "" \in MaybeTarget
        /\ Nothing \in MaybeLink /\ Nothing \in MaybeAlias /\ "" \in CanonicalInput
        /\ Nothing \in MaybeCanonical /\ "" \in OverrideInput /\ "" \in ExternalInput
        /\ Nothing \in MaybeId
    BY DEF OpenDeps, FilterNames, MaybeDep, MaybeTarget, MaybeLink, MaybeAlias, CanonicalInput,
           MaybeCanonical, OverrideInput, ExternalInput, MaybeId
  <1>5. /\ \A l \in Lists, i \in Loads :
              loads[l][i].rows = {} /\ loads[l][i].state # "read"
        /\ \A l \in Lists : shown[l] \in {Nothing, {}} /\ behind[l]
        /\ shown["aliases"] # Nothing /\ shown["overrides"] # Nothing
    <2>1. {} # Nothing
      BY ListNames, NullIsNoList
    <2>2. shown["aliases"] = {} /\ shown["overrides"] = {}
      BY ListNames
    <2>3. \A l \in Lists : shown[l] \in {Nothing, {}} /\ behind[l]
      OBVIOUS
    <2>4. \A l \in Lists, i \in Loads : loads[l][i] = load(l, i)
      OBVIOUS
    <2> HIDE DEF load, loads, shown
    <2> QED
      BY <1>2, <2>1, <2>2, <2>3, <2>4
  <1> HIDE DEF shown, behind, loads
  <1>6. linkPage \in LinkPages
    BY <1>1, <1>3, <1>4 DEF LinkPages
  <1>7. /\ linkPage.shown = shown /\ linkPage.behind = behind /\ linkPage.loads = loads
        /\ linkPage.calls = {} /\ linkPage.target = Nothing /\ linkPage.newName = ""
    BY <1>1
  <1>8. ListPage(linkPage, tables)
    BY <1>5, <1>6, <1>7 DEF ListPage, ListShape, AnswersCurrent, ShownCurrent, RequestsHaveLists
  <1>9. ListTables(tables, usedIds)
    BY ListNames DEF LinkPageInit, ListTables
  <1> QED
    BY <1>8, <1>9 DEF LinkInv

LEMMA LinkSteps ==
    ASSUME LinkInv, [LinksNext \/ AliasesNext \/ OverridesNext \/ ExternalNext]_linkVars
    PROVE  LinkInv'
  <1>1. CASE UNCHANGED linkVars
    BY <1>1 DEF LinkInv, linkVars
  <1> QED
    BY <1>1, LinksSteps, AliasesSteps, OverridesSteps, ExternalSteps

LEMMA LinkInvShows == LinkInv => ListsShown
  BY DEF LinkInv, ListPage, ShownCurrent, ListsShown

\* The page of associations: what it shows of a list is what the tables hold,
\* unless it knows that it may be behind.
THEOREM ListsAlwaysShown == LinkPageSpec => []ListsShown
  <1>1. LinkInv /\ [LinksNext \/ AliasesNext \/ OverridesNext \/ ExternalNext]_linkVars => LinkInv'
    BY LinkSteps
  <1> QED
    BY <1>1, LinkStarts, LinkInvShows, PTL DEF LinkPageSpec

----------------------------------------------------------------------------
(* The input of the page of associations. *)

\* What is typed into a form is there only while the form is.
PageNames ==
    {"shown", "behind", "loads", "calls", "opened", "filter", "adding", "chosen", "target",
     "aliasOf", "aliasInput", "overrideOf", "overrideInput", "newName", "editing", "editName"}
NoStrayInput(p) ==
    /\ p.editing = Nothing => p.editName = ""
    /\ p.aliasOf = Nothing => p.aliasInput = ""
    /\ p.overrideOf = Nothing => p.overrideInput = ""
Inputs(p) == DOMAIN p = PageNames /\ NoStrayInput(p)
\* Only the form of an association that is in view has a choice or waits.
ChosenInView(p) ==
    p.chosen # "" \/ (\E c \in p.calls : c.kind = "link" /\ c.mounted) =>
        p.adding # Nothing /\ InView(p, p.adding)
FormsNow == Inputs(linkPage) /\ ChosenInView(linkPage)
AliasesApart(list) == \A r1, r2 \in list : r1.alias = r2.alias => r1 = r2
FormInv == LinkInv /\ FormsNow /\ AliasesApart(tables["aliases"])

\* A page that differs in other fields has the same input.
LEMMA OtherFields ==
    ASSUME NEW p, Inputs(p), NEW v, NEW w, NEW q,
           \/ q = [p EXCEPT !.calls = v] \/ q = [p EXCEPT !.loads = v]
           \/ q = [p EXCEPT !.shown = v] \/ q = [p EXCEPT !.opened = v]
           \/ q = [p EXCEPT !.filter = v] \/ q = [p EXCEPT !.adding = v]
           \/ q = [p EXCEPT !.chosen = v] \/ q = [p EXCEPT !.target = v]
           \/ q = [p EXCEPT !.newName = v] \/ q = [p EXCEPT !.loads = v, !.behind = w]
           \/ q = [p EXCEPT !.shown = v, !.behind = w] \/ q = [p EXCEPT !.chosen = v, !.calls = w]
    PROVE  Inputs(q)
  <1>1. CASE q = [p EXCEPT !.calls = v]
    BY <1>1 DEF Inputs, PageNames, NoStrayInput
  <1>2. CASE q = [p EXCEPT !.loads = v]
    BY <1>2 DEF Inputs, PageNames, NoStrayInput
  <1>3. CASE q = [p EXCEPT !.shown = v]
    BY <1>3 DEF Inputs, PageNames, NoStrayInput
  <1>4. CASE q = [p EXCEPT !.opened = v]
    BY <1>4 DEF Inputs, PageNames, NoStrayInput
  <1>5. CASE q = [p EXCEPT !.filter = v]
    BY <1>5 DEF Inputs, PageNames, NoStrayInput
  <1>6. CASE q = [p EXCEPT !.adding = v]
    BY <1>6 DEF Inputs, PageNames, NoStrayInput
  <1>7. CASE q = [p EXCEPT !.chosen = v]
    BY <1>7 DEF Inputs, PageNames, NoStrayInput
  <1>8. CASE q = [p EXCEPT !.target = v]
    BY <1>8 DEF Inputs, PageNames, NoStrayInput
  <1>9. CASE q = [p EXCEPT !.newName = v]
    BY <1>9 DEF Inputs, PageNames, NoStrayInput
  <1>10. CASE q = [p EXCEPT !.loads = v, !.behind = w]
    BY <1>10 DEF Inputs, PageNames, NoStrayInput
  <1>11. CASE q = [p EXCEPT !.shown = v, !.behind = w]
    BY <1>11 DEF Inputs, PageNames, NoStrayInput
  <1>12. CASE q = [p EXCEPT !.chosen = v, !.calls = w]
    BY <1>12 DEF Inputs, PageNames, NoStrayInput
  <1> QED
    BY <1>1, <1>2, <1>3, <1>4, <1>5, <1>6, <1>7, <1>8, <1>9, <1>10, <1>11, <1>12

\* The forms open empty and lose their input when they close.
LEMMA InputFields ==
    ASSUME NEW p, Inputs(p), NEW v, NEW w, NEW q,
           \/ /\ v # Nothing \/ w = ""
              /\ \/ q = [p EXCEPT !.editing = v, !.editName = w]
                 \/ q = [p EXCEPT !.aliasOf = v, !.aliasInput = w]
                 \/ q = [p EXCEPT !.overrideOf = v, !.overrideInput = w]
           \/ p.editing # Nothing /\ q = [p EXCEPT !.editName = v]
           \/ p.aliasOf # Nothing /\ q = [p EXCEPT !.aliasInput = v]
           \/ p.overrideOf # Nothing /\ q = [p EXCEPT !.overrideInput = v]
    PROVE  Inputs(q)
  <1>1. CASE (v # Nothing \/ w = "") /\ q = [p EXCEPT !.editing = v, !.editName = w]
    BY <1>1 DEF Inputs, PageNames, NoStrayInput
  <1>2. CASE (v # Nothing \/ w = "") /\ q = [p EXCEPT !.aliasOf = v, !.aliasInput = w]
    BY <1>2 DEF Inputs, PageNames, NoStrayInput
  <1>3. CASE (v # Nothing \/ w = "") /\ q = [p EXCEPT !.overrideOf = v, !.overrideInput = w]
    BY <1>3 DEF Inputs, PageNames, NoStrayInput
  <1>4. CASE p.editing # Nothing /\ q = [p EXCEPT !.editName = v]
    BY <1>4 DEF Inputs, PageNames, NoStrayInput
  <1>5. CASE p.aliasOf # Nothing /\ q = [p EXCEPT !.aliasInput = v]
    BY <1>5 DEF Inputs, PageNames, NoStrayInput
  <1>6. CASE p.overrideOf # Nothing /\ q = [p EXCEPT !.overrideInput = v]
    BY <1>6 DEF Inputs, PageNames, NoStrayInput
  <1> QED
    BY <1>1, <1>2, <1>3, <1>4, <1>5, <1>6

LEMMA InputsThrough ==
    ASSUME NEW p, Inputs(p), NEW l, NEW c, NEW flag
    PROVE  /\ Inputs(Ended(p, c)) /\ Inputs(Unmounted(p)) /\ Inputs(Drawn(p))
           /\ Inputs(LoadList(p, l, flag)) /\ Inputs(Changed(p, l, flag))
           /\ Inputs(NoAliasForm(p)) /\ Inputs(NoOverrideForm(p)) /\ Inputs(NoEdit(p))
  <1>1. Inputs(Ended(p, c))
    <2> DEFINE v == p.calls \ {c}
               q == Ended(p, c)
    <2>1. q = [p EXCEPT !.calls = v]
      BY DEF Ended
    <2> HIDE DEF v, q
    <2>2. Inputs(q)
      BY <2>1, OtherFields
    <2> QED
      BY <2>2 DEF q
  <1>2. Inputs(Unmounted(p))
    <2> DEFINE v == {IF x.kind = "link" THEN [x EXCEPT !.mounted = FALSE] ELSE x : x \in p.calls}
               q == Unmounted(p)
    <2>1. q = [p EXCEPT !.chosen = "", !.calls = v]
      BY DEF Unmounted
    <2> HIDE DEF v, q
    <2>2. Inputs(q)
      BY <2>1, OtherFields
    <2> QED
      BY <2>2 DEF q
  <1>3. Inputs(Drawn(p))
    BY <1>2 DEF Drawn
  <1>4. Inputs(LoadList(p, l, flag))
    <2> DEFINE i == CHOOSE x \in FreeSlots(p, l) : TRUE
               v == [p.loads EXCEPT ![l][i] = Load("asked", flag)]
               q == LoadList(p, l, flag)
    <2>1. q = [p EXCEPT !.loads = v]
      BY DEF LoadList
    <2> HIDE DEF v, q
    <2>2. Inputs(q)
      BY <2>1, OtherFields
    <2> QED
      BY <2>2 DEF q
  <1>5. Inputs(Changed(p, l, flag))
    <2> DEFINE new == [i \in Loads |-> [p.loads[l][i] EXCEPT !.missed = p.loads[l][i].state = "read"]]
               v == [p.loads EXCEPT ![l] = new]
               w == [p.behind EXCEPT ![l] = @ \/ ~flag]
               q == Changed(p, l, flag)
    <2>1. q = [p EXCEPT !.loads = v, !.behind = w]
      BY DEF Changed
    <2> HIDE DEF v, w, q
    <2>2. Inputs(q)
      BY <2>1, OtherFields
    <2> QED
      BY <2>2 DEF q
  <1>6. Inputs(NoAliasForm(p)) /\ Inputs(NoOverrideForm(p)) /\ Inputs(NoEdit(p))
    <2> DEFINE noAlias == NoAliasForm(p)
               noOverride == NoOverrideForm(p)
               noEdit == NoEdit(p)
    <2>1. /\ noAlias = [p EXCEPT !.aliasOf = Nothing, !.aliasInput = ""]
          /\ noOverride = [p EXCEPT !.overrideOf = Nothing, !.overrideInput = ""]
          /\ noEdit = [p EXCEPT !.editing = Nothing, !.editName = ""]
      BY DEF NoAliasForm, NoOverrideForm, NoEdit
    <2> HIDE DEF noAlias, noOverride, noEdit
    <2>2. Inputs(noAlias) /\ Inputs(noOverride) /\ Inputs(noEdit)
      BY <2>1, InputFields
    <2> QED
      BY <2>2 DEF noAlias, noOverride, noEdit
  <1> QED
    BY <1>1, <1>2, <1>3, <1>4, <1>5, <1>6

\* Once the page is drawn, a form that is out of view has lost its choice and
\* the request it sent no longer knows it.
LEMMA DrawnInView ==
    ASSUME NEW p, Inputs(p), Drawn(p).calls \in PageRequests
    PROVE  ChosenInView(Drawn(p))
  <1>1. CASE p.adding # Nothing /\ InView(p, p.adding)
    BY <1>1 DEF Drawn, ChosenInView
  <1>2. CASE ~(p.adding # Nothing /\ InView(p, p.adding))
    <2> DEFINE of(c) == IF c.kind = "link" THEN [c EXCEPT !.mounted = FALSE] ELSE c
               calls == {of(c) : c \in p.calls}
               q == Drawn(p)
    <2>1. q = [p EXCEPT !.chosen = "", !.calls = calls]
      BY <1>2 DEF Drawn, Unmounted
    <2>2. q.chosen = "" /\ q.calls = calls
      <3> HIDE DEF calls
      <3> QED
        BY <2>1 DEF Inputs, PageNames
    <2>3. ASSUME NEW x \in calls, x.kind = "link", x.mounted
          PROVE  FALSE
      <3>1. PICK c \in p.calls : x = of(c)
        BY <2>3
      <3>2. x \in PageCalls
        BY <2>2, <2>3 DEF PageRequests
      <3>3. DOMAIN x = {"kind", "dep", "target", "mounted"}
        BY <2>3, <3>2 DEF PageCalls
      <3>4. CASE c.kind = "link"
        <4>1. x = [c EXCEPT !.mounted = FALSE]
          BY <3>1, <3>4
        <4>2. DOMAIN c = {"kind", "dep", "target", "mounted"}
          BY <3>3, <4>1
        <4>3. ~x.mounted
          BY <4>1, <4>2
        <4> QED
          BY <2>3, <4>3
      <3>5. CASE c.kind # "link"
        BY <2>3, <3>1, <3>5
      <3> QED
        BY <3>4, <3>5
    <2> HIDE DEF q, calls
    <2>4. ChosenInView(q)
      BY <2>2, <2>3 DEF ChosenInView
    <2> QED
      BY <2>4 DEF q
  <1> QED
    BY <1>1, <1>2

\* The page after a step, and the tables with it.
LEMMA FormsKept ==
    ASSUME LinkInv', NEW p, Inputs(p), linkPage' = Drawn(p)
    PROVE  FormsNow'
  <1> DEFINE q == Drawn(p)
  <1>1. q.calls \in PageRequests
    <2>1. linkPage' \in LinkPages
      BY DEF LinkInv, ListPage, ListShape
    <2>2. linkPage'.calls \in PageRequests
      BY <2>1 DEF LinkPages
    <2> QED
      BY <2>2
  <1>2. Inputs(q) /\ ChosenInView(q)
    BY <1>1, InputsThrough, DrawnInView
  <1> HIDE DEF q
  <1>3. linkPage' = q
    BY DEF q
  <1> QED
    BY <1>2, <1>3 DEF FormsNow

LEMMA PageForms ==
    ASSUME FormInv, LinkInv', NEW p, Inputs(p), ToPage(p)
    PROVE  FormInv'
  <1>1. linkPage' = Drawn(p) /\ tables' = tables
    BY DEF ToPage
  <1> QED
    BY <1>1, FormsKept DEF FormInv

LEMMA TakenForms ==
    ASSUME FormInv, LinkInv', NEW l \in Lists, NEW list, NEW p, Inputs(p), Taken(l, list, p),
           l # "aliases" \/ AliasesApart(list)
    PROVE  FormInv'
  <1>1. linkPage' = Drawn(p) /\ tables' = [tables EXCEPT ![l] = list]
    BY DEF Taken
  <1>2. FormsNow'
    BY <1>1, FormsKept
  <1>3. tables \in [Lists -> SUBSET AllRows]
    BY DEF FormInv, LinkInv, ListTables
  <1>4. tables'["aliases"] = IF l = "aliases" THEN list ELSE tables["aliases"]
    BY <1>1, <1>3, ListNames
  <1>5. AliasesApart(tables'["aliases"])
    BY <1>4 DEF FormInv
  <1> QED
    BY <1>2, <1>5 DEF FormInv

LEMMA AddedForms ==
    ASSUME FormInv, LinkInv', NEW l \in Lists, NEW list, NEW p, Inputs(p), NEW flag,
           Added(l, list, p, flag), l # "aliases" \/ AliasesApart(list)
    PROVE  FormInv'
  <1> DEFINE r == Changed(p, l, FALSE)
             q == LoadList(r, l, flag)
  <1>1. Inputs(r)
    BY InputsThrough
  <1> HIDE DEF r
  <1>2. Inputs(q)
    BY <1>1, InputsThrough
  <1>3. Taken(l, list, q)
    BY DEF Added, r
  <1> HIDE DEF q
  <1> QED
    BY <1>2, <1>3, TakenForms

LEMMA FollowedForms ==
    ASSUME FormInv, LinkInv', NEW l \in Lists, NEW list, NEW p, Inputs(p), NEW shown,
           Followed(l, list, p, shown), l # "aliases" \/ AliasesApart(list)
    PROVE  FormInv'
  <1> DEFINE r == Changed(p, l, TRUE)
             all == [r.shown EXCEPT ![l] = shown]
             q == [r EXCEPT !.shown = all]
  <1>1. Inputs(r)
    BY InputsThrough
  <1>2. Taken(l, list, q)
    BY DEF Followed
  <1> HIDE DEF r, all
  <1>3. Inputs(q)
    <2>1. q = [r EXCEPT !.shown = all]
      OBVIOUS
    <2> HIDE DEF q
    <2> QED
      BY <1>1, <2>1, OtherFields
  <1> HIDE DEF q
  <1> QED
    BY <1>2, <1>3, TakenForms

LEMMA RemovedForms ==
    ASSUME FormInv, LinkInv', NEW l \in Lists, NEW list, NEW p, Inputs(p), NEW gone,
           Removed(l, list, p, gone), l # "aliases" \/ AliasesApart(list)
    PROVE  FormInv'
  <1> DEFINE shown == p.shown[l] \ gone
  <1>1. Followed(l, list, p, shown)
    BY DEF Removed
  <1> HIDE DEF shown
  <1> QED
    BY <1>1, FollowedForms

LEMMA ElsewhereForms ==
    ASSUME FormInv, LinkInv', NEW l \in Lists, NEW list,
           Elsewhere(l, list), l # "aliases" \/ AliasesApart(list)
    PROVE  FormInv'
  <1> DEFINE q == Changed(linkPage, l, FALSE)
  <1>1. Inputs(q)
    BY InputsThrough DEF FormInv, FormsNow
  <1>2. Taken(l, list, q)
    BY DEF Elsewhere
  <1> HIDE DEF q
  <1> QED
    BY <1>1, <1>2, TakenForms

LEMMA SendForms ==
    ASSUME FormInv, LinkInv', NEW call, Send(linkPage, call)
    PROVE  FormInv'
  <1> DEFINE calls == linkPage.calls \cup {call}
             q == [linkPage EXCEPT !.calls = calls]
  <1>1. ToPage(q)
    BY DEF Send
  <1> HIDE DEF calls
  <1>2. q = [linkPage EXCEPT !.calls = calls]
    OBVIOUS
  <1> HIDE DEF q
  <1>3. Inputs(q)
    BY <1>2, OtherFields DEF FormInv, FormsNow
  <1> QED
    BY <1>1, <1>3, PageForms

LEMMA CallForms ==
    ASSUME FormInv, LinkInv', NEW kinds, CallFails(kinds)
    PROVE  FormInv'
  <1>1. PICK c : ToPage(Ended(linkPage, c))
    BY DEF CallFails
  <1>2. Inputs(Ended(linkPage, c))
    BY InputsThrough DEF FormInv, FormsNow
  <1> QED
    BY <1>1, <1>2, PageForms

LEMMA ReadForms ==
    ASSUME FormInv, LinkInv', NEW l, NEW i, ReadList(l, i)
    PROVE  FormInv'
  <1> DEFINE load == linkPage.loads[l][i]
             answer == [linkPage.loads EXCEPT ![l][i] = [load EXCEPT !.state = "read", !.rows = tables[l]]]
             failure == [linkPage.loads EXCEPT ![l][i] = [load EXCEPT !.state = "failed"]]
             p == [linkPage EXCEPT !.loads = answer]
             q == [linkPage EXCEPT !.loads = failure]
  <1>1. ToPage(p) \/ ToPage(q)
    <2>1. p = [linkPage EXCEPT !.loads[l][i].state = "read", !.loads[l][i].rows = tables[l]]
      OBVIOUS
    <2>2. q = [linkPage EXCEPT !.loads[l][i].state = "failed"]
      OBVIOUS
    <2> HIDE DEF p, q
    <2> QED
      BY <2>1, <2>2 DEF ReadList
  <1> HIDE DEF answer, failure
  <1>2. p = [linkPage EXCEPT !.loads = answer] /\ q = [linkPage EXCEPT !.loads = failure]
    OBVIOUS
  <1> HIDE DEF p, q
  <1>3. Inputs(p) /\ Inputs(q)
    BY <1>2, OtherFields DEF FormInv, FormsNow
  <1> QED
    BY <1>1, <1>3, PageForms

LEMMA AnswerForms ==
    ASSUME Inputs(linkPage), NEW l, NEW i
    PROVE  Inputs(WithAnswer(l, i))
  <1> DEFINE load == linkPage.loads[l][i]
             loads == [linkPage.loads EXCEPT ![l][i] = NoLoad]
             p == [linkPage EXCEPT !.loads = loads]
             shown == [p.shown EXCEPT ![l] = load.rows]
             behind == [p.behind EXCEPT ![l] = load.missed]
             q == [p EXCEPT !.shown = shown, !.behind = behind]
  <1>1. WithAnswer(l, i) = IF load.state = "failed" THEN p ELSE q
    BY DEF WithAnswer
  <1>2. q = [p EXCEPT !.shown = shown, !.behind = behind]
    OBVIOUS
  <1> HIDE DEF q, shown, behind, loads
  <1>3. p = [linkPage EXCEPT !.loads = loads]
    OBVIOUS
  <1> HIDE DEF p
  <1>4. Inputs(p)
    BY <1>3, OtherFields
  <1>5. Inputs(q)
    BY <1>2, <1>4, OtherFields
  <1> HIDE DEF load
  <1> QED
    BY <1>1, <1>4, <1>5

LEMMA LinksForms ==
    ASSUME FormInv, LinkInv', LinksNext
    PROVE  FormInv'
  <1>0. Inputs(linkPage) /\ PageDeps \subseteq Lists /\ \A d \in PageDeps : d # "aliases"
    BY ListNames DEF FormInv, FormsNow
  <1>1. ASSUME NEW d \in PageDeps, ToggleDependency(d)
        PROVE  FormInv'
    <2> DEFINE more == linkPage.opened \cup {d}
               fewer == linkPage.opened \ {d}
               p == [linkPage EXCEPT !.opened = more]
               q == [linkPage EXCEPT !.opened = fewer]
    <2>1. ToPage(q) \/ ToPage(p) \/ ToPage(LoadList(p, d, FALSE))
      BY <1>1 DEF ToggleDependency
    <2> HIDE DEF more, fewer
    <2>2. p = [linkPage EXCEPT !.opened = more] /\ q = [linkPage EXCEPT !.opened = fewer]
      OBVIOUS
    <2> HIDE DEF p, q
    <2>3. Inputs(p) /\ Inputs(q)
      BY <1>0, <2>2, OtherFields
    <2>4. Inputs(LoadList(p, d, FALSE))
      BY <2>3, InputsThrough
    <2> QED
      BY <2>1, <2>3, <2>4, PageForms
  <1>2. ASSUME NEW d \in PageDeps, OpenLinkForm(d)
        PROVE  FormInv'
    <2> DEFINE p == Unmounted(linkPage)
               q == [p EXCEPT !.adding = d]
    <2>1. Inputs(p) /\ ToPage(q)
      BY <1>0, <1>2, InputsThrough DEF OpenLinkForm
    <2> HIDE DEF p
    <2>2. q = [p EXCEPT !.adding = d]
      OBVIOUS
    <2> HIDE DEF q
    <2>3. Inputs(q)
      BY <2>1, <2>2, OtherFields
    <2> QED
      BY <2>1, <2>3, PageForms
  <1>3. ASSUME NEW d \in PageDeps, NEW t \in LinkTargets, AskDeleteLink(d, t)
        PROVE  FormInv'
    <2> DEFINE q == [linkPage EXCEPT !.target = <<d, t>>]
    <2>1. ToPage(q)
      BY <1>3 DEF AskDeleteLink
    <2>2. q = [linkPage EXCEPT !.target = <<d, t>>]
      OBVIOUS
    <2> HIDE DEF q
    <2>3. Inputs(q)
      BY <1>0, <2>2, OtherFields
    <2> QED
      BY <2>1, <2>3, PageForms
  <1>4. CASE SetStatusFilter
    <2>1. PICK v \in StatusFilters : ToPage([linkPage EXCEPT !.filter = v])
      BY <1>4 DEF SetStatusFilter
    <2> DEFINE q == [linkPage EXCEPT !.filter = v]
    <2>2. ToPage(q) /\ q = [linkPage EXCEPT !.filter = v]
      BY <2>1
    <2> HIDE DEF q
    <2>3. Inputs(q)
      BY <1>0, <2>2, OtherFields
    <2> QED
      BY <2>2, <2>3, PageForms
  <1>5. CASE CancelLinkForm
    <2> DEFINE q == [linkPage EXCEPT !.adding = Nothing]
    <2>1. ToPage(q)
      BY <1>5 DEF CancelLinkForm
    <2>2. q = [linkPage EXCEPT !.adding = Nothing]
      OBVIOUS
    <2> HIDE DEF q
    <2>3. Inputs(q)
      BY <1>0, <2>2, OtherFields
    <2> QED
      BY <2>1, <2>3, PageForms
  <1>6. CASE ChooseTarget
    <2>1. PICK v \in LinkTargets : ToPage([linkPage EXCEPT !.chosen = v])
      BY <1>6 DEF ChooseTarget
    <2> DEFINE q == [linkPage EXCEPT !.chosen = v]
    <2>2. ToPage(q) /\ q = [linkPage EXCEPT !.chosen = v]
      BY <2>1
    <2> HIDE DEF q
    <2>3. Inputs(q)
      BY <1>0, <2>2, OtherFields
    <2> QED
      BY <2>2, <2>3, PageForms
  <1>7. CASE CloseDeleteLink
    <2> DEFINE q == [linkPage EXCEPT !.target = Nothing]
    <2>1. ToPage(q)
      BY <1>7 DEF CloseDeleteLink
    <2>2. q = [linkPage EXCEPT !.target = Nothing]
      OBVIOUS
    <2> HIDE DEF q
    <2>3. Inputs(q)
      BY <1>0, <2>2, OtherFields
    <2> QED
      BY <2>1, <2>3, PageForms
  <1>8. CASE SubmitLink \/ ConfirmDeleteLink
    BY <1>8, SendForms DEF SubmitLink, ConfirmDeleteLink
  <1>9. CASE LinkElsewhere
    BY <1>0, <1>9, ElsewhereForms DEF LinkElsewhere
  <1>10. ASSUME NEW d \in PageDeps, NEW i \in Loads, ReadList(d, i) \/ GotLinks(d, i)
        PROVE  FormInv'
    BY <1>0, <1>10, ReadForms, AnswerForms, PageForms DEF GotLinks
  <1>11. ASSUME NEW c \in linkPage.calls, CreateAssociation(c)
        PROVE  FormInv'
    <2> DEFINE p == Ended(linkPage, c)
               q == [p EXCEPT !.adding = Nothing]
               list == tables[c.dep] \cup {c.target}
    <2>1. Inputs(p) /\ Added(c.dep, list, q, FALSE) /\ c.kind = "link"
      BY <1>0, <1>11, InputsThrough DEF CreateAssociation
    <2>2. q = [p EXCEPT !.adding = Nothing]
      OBVIOUS
    <2> HIDE DEF p, q, list
    <2>3. Inputs(q)
      BY <2>1, <2>2, OtherFields
    <2>4. c.dep \in PageDeps
      <3>1. c \in PageCalls
        BY PageFields DEF FormInv
      <3> QED
        BY <2>1, <3>1 DEF PageCalls
    <2> QED
      BY <1>0, <2>1, <2>3, <2>4, AddedForms
  <1>12. ASSUME NEW c \in linkPage.calls, DeleteAssociation(c)
        PROVE  FormInv'
    <2> DEFINE p == Ended(linkPage, c)
               q == [p EXCEPT !.target = Nothing]
               list == tables[c.dep] \ {c.target}
    <2>1. Inputs(p) /\ Removed(c.dep, list, q, {c.target}) /\ c.kind = "unlink"
      BY <1>0, <1>12, InputsThrough DEF DeleteAssociation
    <2>2. q = [p EXCEPT !.target = Nothing]
      OBVIOUS
    <2> HIDE DEF p, q, list
    <2>3. Inputs(q)
      BY <2>1, <2>2, OtherFields
    <2>4. c.dep \in PageDeps
      <3>1. c \in PageCalls
        BY PageFields DEF FormInv
      <3> QED
        BY <2>1, <3>1 DEF PageCalls
    <2> QED
      BY <1>0, <2>1, <2>3, <2>4, RemovedForms
  <1>13. CASE CallFails({"link", "unlink"})
    BY <1>13, CallForms
  <1> QED
    BY <1>1, <1>2, <1>3, <1>4, <1>5, <1>6, <1>7, <1>8, <1>9, <1>10, <1>11, <1>12, <1>13
       DEF LinksNext

LEMMA AliasesForms ==
    ASSUME FormInv, LinkInv', AliasesNext
    PROVE  FormInv'
  <1>0. /\ Inputs(linkPage) /\ "aliases" \in Lists /\ AliasesApart(tables["aliases"])
        /\ tables["aliases"] \subseteq AliasRow
    BY ListNames DEF FormInv, FormsNow, LinkInv, ListTables
  <1>1. ASSUME NEW a \in AliasNames, OpenAliasForm(a)
        PROVE  FormInv'
    <2> DEFINE q == [linkPage EXCEPT !.aliasOf = a, !.aliasInput = ""]
    <2>1. ToPage(q)
      BY <1>1 DEF OpenAliasForm
    <2>2. q = [linkPage EXCEPT !.aliasOf = a, !.aliasInput = ""]
      OBVIOUS
    <2> HIDE DEF q
    <2>3. Inputs(q)
      BY <1>0, <2>2, InputFields
    <2> QED
      BY <2>1, <2>3, PageForms
  <1>2. CASE CancelAliasForm
    BY <1>0, <1>2, InputsThrough, PageForms DEF CancelAliasForm
  <1>3. CASE TypeCanonical
    <2>1. PICK v \in CanonicalNames \cup {""} : ToPage([linkPage EXCEPT !.aliasInput = v])
      BY <1>3 DEF TypeCanonical
    <2> DEFINE q == [linkPage EXCEPT !.aliasInput = v]
    <2>2. ToPage(q) /\ q = [linkPage EXCEPT !.aliasInput = v]
      BY <2>1
    <2> HIDE DEF q
    <2>3. linkPage.aliasOf # Nothing
      BY <1>3 DEF TypeCanonical
    <2>4. Inputs(q)
      BY <1>0, <2>2, <2>3, InputFields
    <2> QED
      BY <2>2, <2>4, PageForms
  <1>4. CASE SubmitAlias \/ HandleAliasDelete
    BY <1>4, SendForms DEF SubmitAlias, HandleAliasDelete
  <1>5. ASSUME NEW a, NEW id, NEW name, MayAlias(a)
        PROVE  AliasesApart(tables["aliases"] \cup {NewAlias(id, a, name)})
    BY <1>0, <1>5 DEF MayAlias, NewAlias, AliasesApart
  <1>6. CASE AliasElsewhere
    <2>1. CASE \E a \in AliasNames, name \in CanonicalNames :
                  MayAlias(a) /\ Elsewhere("aliases", tables["aliases"] \cup {NewAlias(NextId, a, name)})
      BY <1>0, <1>5, <2>1, ElsewhereForms
    <2>2. CASE \E r \in tables["aliases"] : Elsewhere("aliases", tables["aliases"] \ {r})
      <3>1. PICK r \in tables["aliases"] : Elsewhere("aliases", tables["aliases"] \ {r})
        BY <2>2
      <3>2. AliasesApart(tables["aliases"] \ {r})
        BY <1>0 DEF AliasesApart
      <3> QED
        BY <1>0, <3>1, <3>2, ElsewhereForms
    <2>3. ASSUME NEW r \in tables["aliases"], NEW name \in CanonicalNames,
                 Elsewhere("aliases", (tables["aliases"] \ {r}) \cup {[r EXCEPT !.name = name]})
          PROVE  FormInv'
      <3> DEFINE new == [r EXCEPT !.name = name]
      <3>1. r \in AliasRow
        BY <1>0
      <3>2. new.alias = r.alias
        BY <3>1 DEF AliasRow
      <3> HIDE DEF new
      <3>3. AliasesApart((tables["aliases"] \ {r}) \cup {new})
        BY <1>0, <3>2 DEF AliasesApart
      <3>4. Elsewhere("aliases", (tables["aliases"] \ {r}) \cup {new})
        BY <2>3 DEF new
      <3> QED
        BY <1>0, <3>3, <3>4, ElsewhereForms
    <2> QED
      BY <1>6, <2>1, <2>2, <2>3 DEF AliasElsewhere
  <1>7. ASSUME NEW i \in Loads, ReadList("aliases", i)
        PROVE  FormInv'
    BY <1>7, ReadForms
  <1>8. ASSUME NEW i \in Loads, GotAliases(i)
        PROVE  FormInv'
    <2> DEFINE load == IF linkPage.loads["aliases"][i].then THEN Load("names", TRUE) ELSE NoLoad
               p == WithAnswer("aliases", i)
               loads == [p.loads EXCEPT !["aliases"][i] = load]
               q == [p EXCEPT !.loads = loads]
    <2>1. Inputs(p)
      BY <1>0, AnswerForms
    <2>2. ToPage(q)
      BY <1>8 DEF GotAliases
    <2> HIDE DEF p, loads
    <2>3. q = [p EXCEPT !.loads = loads]
      OBVIOUS
    <2> HIDE DEF q
    <2>4. Inputs(q)
      BY <2>1, <2>3, OtherFields
    <2> QED
      BY <2>2, <2>4, PageForms
  <1>9. ASSUME NEW i \in Loads, GotNames(i)
        PROVE  FormInv'
    <2> DEFINE loads == [linkPage.loads EXCEPT !["aliases"][i] = NoLoad]
               p == [linkPage EXCEPT !.loads = loads]
    <2>1. ToPage(NoAliasForm(p))
      BY <1>9 DEF GotNames
    <2> HIDE DEF loads
    <2>2. p = [linkPage EXCEPT !.loads = loads]
      OBVIOUS
    <2> HIDE DEF p
    <2>3. Inputs(p)
      BY <1>0, <2>2, OtherFields
    <2> QED
      BY <2>1, <2>3, InputsThrough, PageForms
  <1>10. ASSUME NEW c \in linkPage.calls, PostAlias(c)
        PROVE  FormInv'
    <2>1. /\ MayAlias(c.alias)
          /\ Added("aliases", tables["aliases"] \cup {NewAlias(NextId, c.alias, c.name)},
                   Ended(linkPage, c), TRUE)
      BY <1>10 DEF PostAlias
    <2> QED
      BY <1>0, <1>5, <2>1, InputsThrough, AddedForms
  <1>11. ASSUME NEW c \in linkPage.calls, RemoveAlias(c)
        PROVE  FormInv'
    <2>1. PICK r \in tables["aliases"] :
             Removed("aliases", tables["aliases"] \ {r}, Ended(linkPage, c),
                     {x \in linkPage.shown["aliases"] : x.id = r.id})
      BY <1>11 DEF RemoveAlias
    <2>2. AliasesApart(tables["aliases"] \ {r})
      BY <1>0 DEF AliasesApart
    <2> QED
      BY <1>0, <2>1, <2>2, InputsThrough, RemovedForms
  <1>12. CASE CallFails({"alias", "unalias"})
    BY <1>12, CallForms
  <1> QED
    BY <1>1, <1>2, <1>3, <1>4, <1>5, <1>6, <1>7, <1>8, <1>9, <1>10, <1>11, <1>12
       DEF AliasesNext

LEMMA OverridesForms ==
    ASSUME FormInv, LinkInv', OverridesNext
    PROVE  FormInv'
  <1>0. Inputs(linkPage) /\ "overrides" \in Lists
    BY ListNames DEF FormInv, FormsNow
  <1>1. ASSUME NEW name \in CanonicalNames, OpenOverrideEdit(name)
        PROVE  FormInv'
    <2>1. PICK text \in IF ShownOf(name) = {} THEN {""} ELSE {r.text : r \in ShownOf(name)} :
             ToPage([linkPage EXCEPT !.overrideOf = name, !.overrideInput = text])
      BY <1>1 DEF OpenOverrideEdit
    <2> DEFINE q == [linkPage EXCEPT !.overrideOf = name, !.overrideInput = text]
    <2>2. ToPage(q) /\ q = [linkPage EXCEPT !.overrideOf = name, !.overrideInput = text]
      BY <2>1
    <2> HIDE DEF q
    <2>3. Inputs(q)
      BY <1>0, <2>2, InputFields, PageConstants
    <2> QED
      BY <2>2, <2>3, PageForms
  <1>2. CASE CancelOverrideEdit
    BY <1>0, <1>2, InputsThrough, PageForms DEF CancelOverrideEdit
  <1>3. CASE TypeOverride
    <2>1. PICK v \in OverrideTexts \cup {""} : ToPage([linkPage EXCEPT !.overrideInput = v])
      BY <1>3 DEF TypeOverride
    <2> DEFINE q == [linkPage EXCEPT !.overrideInput = v]
    <2>2. ToPage(q) /\ q = [linkPage EXCEPT !.overrideInput = v]
      BY <2>1
    <2> HIDE DEF q
    <2>3. linkPage.overrideOf # Nothing
      BY <1>3 DEF TypeOverride
    <2>4. Inputs(q)
      BY <1>0, <2>2, <2>3, InputFields
    <2> QED
      BY <2>2, <2>4, PageForms
  <1>4. CASE HandleOverrideSave \/ HandleOverrideClear
    BY <1>4, SendForms DEF HandleOverrideSave, HandleOverrideClear
  <1>5. CASE OverrideElsewhere
    <2>1. PICK name \in CanonicalNames, who \in OverrideTeams \cup {Nothing} :
             LET others == {r \in tables["overrides"] : r.name # name \/ r.team # who}
             IN  \/ Elsewhere("overrides", others)
                 \/ \E x \in OverrideTexts :
                       Elsewhere("overrides", others \cup {[name |-> name, team |-> who, text |-> x]})
      BY <1>5 DEF OverrideElsewhere
    <2>2. \E list : Elsewhere("overrides", list)
      BY <2>1
    <2> QED
      BY <1>0, <2>2, ElsewhereForms
  <1>6. ASSUME NEW i \in Loads, ReadList("overrides", i)
        PROVE  FormInv'
    BY <1>6, ReadForms
  <1>7. ASSUME NEW i \in Loads, GotOverrides(i)
        PROVE  FormInv'
    <2> DEFINE p == WithAnswer("overrides", i)
    <2>1. ToPage(NoOverrideForm(p)) \/ ToPage(p)
      BY <1>7 DEF GotOverrides
    <2>2. Inputs(p)
      BY <1>0, AnswerForms
    <2> HIDE DEF p
    <2> QED
      BY <2>1, <2>2, InputsThrough, PageForms
  <1>8. ASSUME NEW c \in linkPage.calls, UpsertCanonicalOverride(c)
        PROVE  FormInv'
    BY <1>0, <1>8, InputsThrough, AddedForms DEF UpsertCanonicalOverride
  <1>9. ASSUME NEW c \in linkPage.calls, DeleteCanonicalOverride(c)
        PROVE  FormInv'
    <2> DEFINE p == NoOverrideForm(Ended(linkPage, c))
               list == tables["overrides"] \ Canonical(c.name)
    <2>1. Removed("overrides", list, p, ShownOf(c.name))
      BY <1>9 DEF DeleteCanonicalOverride
    <2>2. Inputs(p)
      BY <1>0, InputsThrough
    <2> HIDE DEF p, list
    <2> QED
      BY <1>0, <2>1, <2>2, RemovedForms
  <1>10. CASE CallFails({"save", "clear"})
    BY <1>10, CallForms
  <1> QED
    BY <1>1, <1>2, <1>3, <1>4, <1>5, <1>6, <1>7, <1>8, <1>9, <1>10
       DEF OverridesNext

LEMMA ExternalForms ==
    ASSUME FormInv, LinkInv', ExternalNext
    PROVE  FormInv'
  <1>0. Inputs(linkPage) /\ "external" \in Lists
    BY ListNames DEF FormInv, FormsNow
  <1>1. CASE TypeNewName
    <2>1. PICK v \in ExternalNames \cup {""} : ToPage([linkPage EXCEPT !.newName = v])
      BY <1>1 DEF TypeNewName
    <2> DEFINE q == [linkPage EXCEPT !.newName = v]
    <2>2. ToPage(q) /\ q = [linkPage EXCEPT !.newName = v]
      BY <2>1
    <2> HIDE DEF q
    <2>3. Inputs(q)
      BY <1>0, <2>2, OtherFields
    <2> QED
      BY <2>2, <2>3, PageForms
  <1>2. CASE HandleCreate \/ HandleUpdate \/ HandleDelete
    BY <1>2, SendForms DEF HandleCreate, HandleUpdate, HandleDelete
  <1>3. CASE StartEdit
    <2>1. PICK r \in linkPage.shown["external"] :
             ToPage([linkPage EXCEPT !.editing = r.id, !.editName = r.name])
      BY <1>3 DEF StartEdit
    <2>2. linkPage.shown["external"] # Nothing
      BY <1>3 DEF StartEdit
    <2>3. r.id \in RowIds
      <3>1. linkPage.shown["external"] \in SUBSET ExternalRow
        BY <2>2, ListNames DEF FormInv, LinkInv, ListPage, ListShape
      <3> QED
        BY <3>1 DEF ExternalRow
    <2> DEFINE q == [linkPage EXCEPT !.editing = r.id, !.editName = r.name]
    <2>4. ToPage(q) /\ q = [linkPage EXCEPT !.editing = r.id, !.editName = r.name]
      BY <2>1
    <2> HIDE DEF q
    <2>5. r.id # Nothing
      BY <2>3, PageConstants
    <2>6. Inputs(q)
      BY <1>0, <2>4, <2>5, InputFields
    <2> QED
      BY <2>4, <2>6, PageForms
  <1>4. CASE CancelEdit
    BY <1>0, <1>4, InputsThrough, PageForms DEF CancelEdit
  <1>5. CASE TypeEditName
    <2>1. PICK v \in ExternalNames \cup {""} : ToPage([linkPage EXCEPT !.editName = v])
      BY <1>5 DEF TypeEditName
    <2> DEFINE q == [linkPage EXCEPT !.editName = v]
    <2>2. ToPage(q) /\ q = [linkPage EXCEPT !.editName = v]
      BY <2>1
    <2> HIDE DEF q
    <2>3. linkPage.editing # Nothing
      <3>1. PICK r \in linkPage.shown["external"] : r.id = linkPage.editing
        BY <1>5 DEF TypeEditName, Editing, Edited
      <3>2. linkPage.shown["external"] \in SUBSET ExternalRow
        BY <1>5, ListNames DEF TypeEditName, Editing, FormInv, LinkInv, ListPage, ListShape
      <3> QED
        BY <3>1, <3>2, PageConstants DEF ExternalRow
    <2>4. Inputs(q)
      BY <1>0, <2>2, <2>3, InputFields
    <2> QED
      BY <2>2, <2>4, PageForms
  <1>6. CASE ExternalElsewhere
    <2>1. \E list : Elsewhere("external", list)
      BY <1>6 DEF ExternalElsewhere
    <2> QED
      BY <1>0, <2>1, ElsewhereForms
  <1>7. ASSUME NEW i \in Loads, ReadList("external", i) \/ GotExternal(i)
        PROVE  FormInv'
    BY <1>0, <1>7, ReadForms, AnswerForms, PageForms DEF GotExternal
  <1>8. ASSUME NEW c \in linkPage.calls, CreateExternalService(c)
        PROVE  FormInv'
    <2> DEFINE row == [id |-> NextId, name |-> c.name]
               p == Ended(linkPage, c)
               q == [p EXCEPT !.newName = ""]
               list == tables["external"] \cup {row}
               shown == linkPage.shown["external"] \cup {row}
    <2>1. Inputs(p) /\ Followed("external", list, q, shown)
      BY <1>0, <1>8, InputsThrough DEF CreateExternalService
    <2>2. q = [p EXCEPT !.newName = ""]
      OBVIOUS
    <2> HIDE DEF p, q, list, shown
    <2>3. Inputs(q)
      BY <2>1, <2>2, OtherFields
    <2> QED
      BY <1>0, <2>1, <2>3, FollowedForms
  <1>9. ASSUME NEW c \in linkPage.calls, UpdateExternalService(c)
        PROVE  FormInv'
    <2> DEFINE Renamed(list) == {IF x.id = c.id THEN [x EXCEPT !.name = c.name] ELSE x : x \in list}
               p == NoEdit(Ended(linkPage, c))
               list == Renamed(tables["external"])
               shown == Renamed(linkPage.shown["external"])
    <2>1. Followed("external", list, p, shown)
      BY <1>9 DEF UpdateExternalService
    <2>2. Inputs(p)
      BY <1>0, InputsThrough
    <2> HIDE DEF p, list, shown
    <2> QED
      BY <1>0, <2>1, <2>2, FollowedForms
  <1>10. ASSUME NEW c \in linkPage.calls, DeleteExternalService(c)
        PROVE  FormInv'
    <2>1. PICK r \in tables["external"] :
             Removed("external", tables["external"] \ {r}, Ended(linkPage, c),
                     {x \in linkPage.shown["external"] : x.id = r.id})
      BY <1>10 DEF DeleteExternalService
    <2> QED
      BY <1>0, <2>1, InputsThrough, RemovedForms
  <1>11. CASE CallFails({"create", "update", "delete"})
    BY <1>11, CallForms
  <1> QED
    BY <1>1, <1>2, <1>3, <1>4, <1>5, <1>6, <1>7, <1>8, <1>9, <1>10, <1>11
       DEF ExternalNext

LEMMA PageInputStarts == LinkPageInit => FormInv
  <1> SUFFICES ASSUME LinkPageInit
               PROVE  FormInv
    OBVIOUS
  <1> DEFINE shown == [l \in Lists |-> IF l \in {"aliases", "overrides"} THEN {} ELSE Nothing]
             behind == [l \in Lists |-> TRUE]
             loads == [l \in Lists |-> [i \in Loads |->
                         Load(IF l \notin PageDeps /\ i = 1 THEN "asked" ELSE "none", FALSE)]]
  <1>1. linkPage =
          [shown |-> shown, behind |-> behind, loads |-> loads,
           calls |-> {}, opened |-> {}, filter |-> "all",
           adding |-> Nothing, chosen |-> "", target |-> Nothing,
           aliasOf |-> Nothing, aliasInput |-> "", overrideOf |-> Nothing, overrideInput |-> "",
           newName |-> "", editing |-> Nothing, editName |-> ""]
    BY DEF LinkPageInit
  <1> HIDE DEF shown, behind, loads
  <1>2. FormsNow
    BY <1>1 DEF FormsNow, Inputs, PageNames, NoStrayInput, ChosenInView
  <1>3. tables["aliases"] = {}
    BY ListNames DEF LinkPageInit
  <1> QED
    BY <1>2, <1>3, LinkStarts DEF FormInv, AliasesApart

LEMMA PageInputSteps ==
    ASSUME FormInv, [LinksNext \/ AliasesNext \/ OverridesNext \/ ExternalNext]_linkVars
    PROVE  FormInv'
  <1>1. LinkInv'
    BY LinkSteps DEF FormInv
  <1>2. CASE UNCHANGED linkVars
    BY <1>2 DEF FormInv, linkVars, LinkInv, FormsNow
  <1> QED
    BY <1>1, <1>2, LinksForms, AliasesForms, OverridesForms, ExternalForms

LEMMA PageInputTypes == FormInv => LinkPageTypeOK
  <1> SUFFICES ASSUME FormInv
               PROVE  LinkPageTypeOK
    OBVIOUS
  <1>1. \A l \in Lists : /\ tables[l] \subseteq Entries(l)
                         /\ linkPage.shown[l] = Nothing \/ linkPage.shown[l] \subseteq Entries(l)
    BY DEF FormInv, LinkInv, ListTables, ListPage, ListShape
  <1>2. /\ \A r1, r2 \in tables["aliases"] : (r1.alias = r2.alias \/ r1.id = r2.id) => r1 = r2
        /\ \A r1, r2 \in tables["external"] : r1.id = r2.id => r1 = r2
        /\ \A l \in {"aliases", "external"} : \A r \in tables[l] : r.id \in usedIds
    BY DEF FormInv, LinkInv, ListTables, AliasesApart
  <1>3. linkPage.adding \in PageDeps \cup {Nothing}
    BY PageFields DEF FormInv, LinkInv, ListPage, ListShape, LinkPages, MaybeDep
  <1>4. linkPage.chosen # "" \/ Creating =>
           linkPage.adding # Nothing /\ InView(linkPage, linkPage.adding)
    BY DEF FormInv, FormsNow, ChosenInView, Creating
  <1>5. NoStrayInput(linkPage)
    BY DEF FormInv, FormsNow, Inputs
  <1> QED
    BY <1>1, <1>2, <1>3, <1>4, <1>5 DEF LinkPageTypeOK, NoStrayInput

\* The page of associations, alone: rows and lists of their types, and no
\* input without its form.
THEOREM LinkPageTypes == LinkPageSpec => []LinkPageTypeOK
  <1>1. FormInv /\ [LinksNext \/ AliasesNext \/ OverridesNext \/ ExternalNext]_linkVars => FormInv'
    BY PageInputSteps
  <1> QED
    BY <1>1, PageInputStarts, PageInputTypes, PTL DEF LinkPageSpec

----------------------------------------------------------------------------
(* The parts together. *)

ViewsInv == GraphTypeOK /\ (part \in PageParts => LinkInv)

LEMMA ViewsStart == Init => ViewsInv
  BY GraphStarts, LinkStarts DEF Init, ViewsInv

LEMMA ViewsSteps ==
    ASSUME ViewsInv, [Next]_allVars
    PROVE  ViewsInv'
  <1>1. CASE UNCHANGED allVars
    <2>1. UNCHANGED graphVars /\ UNCHANGED linkVars /\ UNCHANGED part
      BY <1>1 DEF allVars
    <2>2. GraphTypeOK'
      BY <2>1, GraphSteps DEF ViewsInv
    <2>3. part' \in PageParts => LinkInv'
      BY <2>1, LinkSteps DEF ViewsInv
    <2> QED
      BY <2>2, <2>3 DEF ViewsInv
  <1>2. CASE Next
    <2>1. GraphNext \/ UNCHANGED graphVars
      BY <1>2 DEF Next, Only, Still
    <2>2. part' = part
      BY <1>2 DEF Next, Only
    <2>3. part \in PageParts =>
             LinksNext \/ AliasesNext \/ OverridesNext \/ ExternalNext
      BY <1>2 DEF Next, Only, PageParts
    <2>4. GraphTypeOK'
      BY <2>1, GraphSteps DEF ViewsInv
    <2>5. part' \in PageParts => LinkInv'
      BY <2>2, <2>3, LinkSteps DEF ViewsInv
    <2> QED
      BY <2>4, <2>5 DEF ViewsInv
  <1> QED
    BY <1>1, <1>2

\* The views of the database agree with it and with each other: subgraphs
\* hold exactly what is reachable, the graph of a team is a part of the full
\* one, wallboard and aggregated health judge alike, and the page of
\* associations shows the tables.
THEOREM ViewsAlwaysAgree == Spec => []ViewsAgree
  <1>1. ViewsInv => ViewsAgree
    BY SubgraphIsComplete, TeamIsWithinFull, WallboardDoesAgree, LinkInvShows
       DEF ViewsInv, ViewsAgree
  <1>2. ViewsInv /\ [Next]_allVars => ViewsInv'
    BY ViewsSteps
  <1> QED
    BY <1>1, <1>2, ViewsStart, PTL DEF Spec

\* ServiceGraph keeps its types, under its own specification.
THEOREM GraphTypes == GraphSpec => []GraphTypeOK
  <1>1. GraphTypeOK /\ [GraphNext]_graphVars => GraphTypeOK'
    BY GraphSteps
  <1> QED
    BY <1>1, GraphStarts, PTL DEF GraphSpec
LEMMA PartsStart ==
    Init => /\ MetaInit /\ KeyInit /\ AccountInit /\ IngestInit
            /\ GraphInit /\ RetentionInit /\ MigrationInit /\ ReportInit
  BY DEF Init

LEMMA PartsStep ==
    ASSUME [Next]_allVars
    PROVE  /\ [MetaNext]_metaVars /\ [KeyNext]_keyVars
           /\ [AccountNext]_accountVars /\ [IngestNext]_ingestVars
           /\ [GraphNext]_graphVars /\ [RetentionNext]_retentionVars
           /\ [MigrationNext]_migrationVars /\ [ReportNext]_reportVars
  <1>1. CASE UNCHANGED allVars
    BY <1>1 DEF allVars
  <1>2. CASE Next
    BY <1>2 DEF Next, Only, Still
  <1> QED
    BY <1>1, <1>2

\* The server runs its parts: each of them behaves as its own specification
\* says, so that what is proved of a part alone holds of it in the server.
THEOREM EachPartRuns ==
    Spec => /\ MetaSpec /\ KeySpec /\ AccountSpec /\ IngestSpec
            /\ GraphSpec /\ RetentionSpec /\ MigrationSpec /\ ReportSpec
  BY PartsStart, PartsStep, PTL DEF Spec, MetaSpec, KeySpec, AccountSpec, IngestSpec, GraphSpec,
     RetentionSpec, MigrationSpec, ReportSpec

\* In the server, the schema is always the one of the applied migrations.
THEOREM SchemaAlwaysComplete == Spec => []SchemaIsComplete
  <1>1. SchemaComplete => SchemaIsComplete
    BY DEF SchemaIsComplete
  <1> QED
    BY <1>1, EachPartRuns, SchemaStays, PTL

\* In the server, no upgrade deletes a row that says something.
THEOREM ServerUpgradesKeepRows == Spec => UpgradeKeepsRows
  BY EachPartRuns, UpgradesKeepRows, PTL

\* In the server, every row says what the last report that names its
\* dependency means.
THEOREM ReportsAlwaysRead == Spec => []ReportsAreRead
  <1>1. RowsSayReport /\ PercentilesInOrder => ReportsAreRead
    BY DEF ReportsAreRead
  <1> QED
    BY <1>1, EachPartRuns, ReportsSayWhatTheyMean, PTL

\* Each part has its types, in its own variables.
PartNames ==
    {"metadata", "keys", "accounts", "ingestion", "graph", "retention", "migrations", "reports"}
        \cup PageParts
MovingPart == part \in PartNames /\ (part \in PageParts => FormInv)

LEMMA MovingSteps ==
    ASSUME MovingPart, [Next]_allVars
    PROVE  MovingPart'
  <1>1. CASE UNCHANGED allVars
    <2>1. UNCHANGED linkVars /\ UNCHANGED part
      BY <1>1 DEF allVars
    <2> QED
      BY <2>1, PageInputSteps DEF MovingPart
  <1>2. CASE Next
    <2>1. part' = part
      BY <1>2 DEF Next, Only
    <2>2. part \in PageParts =>
             LinksNext \/ AliasesNext \/ OverridesNext \/ ExternalNext
      BY <1>2 DEF Next, Only, PageParts
    <2> QED
      BY <2>1, <2>2, PageInputSteps DEF MovingPart
  <1> QED
    BY <1>1, <1>2

\* In the server, the state of every part has its types.
THEOREM PartsAreTyped == Spec => []TypeOK
  <1>1. Init => MovingPart
    BY PageInputStarts DEF Init, MovingPart, PartNames
  <1>2. MovingPart /\ [Next]_allVars => MovingPart'
    BY MovingSteps
  <1>3. IngestInv => IngestTypeOK
    BY DEF IngestInv
  <1>4. RetentionInv => RetentionTypeOK
    BY DEF RetentionInv
  <1>5. MovingPart /\ MetaTypeOK /\ KeyTypeOK /\ AccountTypeOK /\ IngestTypeOK /\ GraphTypeOK
          /\ RetentionTypeOK /\ MigrationTypeOK /\ ReportTypeOK => TypeOK
    BY PageInputTypes DEF MovingPart, PartNames, PageParts, TypeOK
  <1> QED
    BY <1>1, <1>2, <1>3, <1>4, <1>5, EachPartRuns, MetadataTypes, KeyTypes, AccountTypes,
       ReportsConsistent, GraphTypes, DaysAreRemembered, MigrationTypes, ReportTypes, PTL DEF Spec
=============================================================================
