------------------------------- MODULE GraphView -------------------------------
(***************************************************************************)
(* The graph page of one browser: useGraphState with the effects of        *)
(* DependencyGraph, the traversal of utils/graphTraversal and the          *)
(* fingerprint of utils/graphLayout.                                       *)
(*                                                                         *)
(* A load fetches a graph and lays it out, isolating lays out again a part *)
(* of the graph that is there; both await, and nothing orders their ends.  *)
(* Positions, styles and the highlighting of a selection are left out.     *)
(***************************************************************************)
EXTENDS Integers, Sequences, SequencesExt, FiniteSets

CONSTANTS
    Topologies,   \* what the server may answer without a team: graphs
    Parts,        \* the nodes of the graph of each team
    AllTeams,     \* no team selected
    NoIsolation,  \* isolationTarget = null
    MaxJobs,      \* bound: loads and layouts in flight
    MaxReads      \* bound: changes of the topology

Empty == [nodes |-> {}, edges |-> {}]
TeamChoices == DOMAIN Parts
GraphNodes == UNION {g.nodes : g \in Topologies}

ASSUME ViewConstants ==
    /\ \A g \in Topologies :
          /\ g = [nodes |-> g.nodes, edges |-> g.edges]
          /\ g.nodes # {} /\ g.edges \subseteq g.nodes \X g.nodes
    /\ AllTeams \in TeamChoices /\ Parts[AllTeams] = GraphNodes
    /\ NoIsolation \notin GraphNodes
    /\ MaxJobs \in Nat \ {0} /\ MaxReads \in Nat

VARIABLES
    topology,     \* the graph of the server, and how often it changed
    choice,       \* selectedTeam and isolationTarget
    fullGraph,    \* fullGraphNodesRef, fullGraphEdgesRef
    drawn,        \* nodes and edges on the screen
    fingerprint,  \* topologyFingerprintRef: the graph it was taken from
    jobs,         \* loadData and the isolation effect, between their awaits
    screen,       \* "graph", "spinner" (isLoading) or "error"
    overlapped    \* history: jobs overlapped since the last load that was alone

viewVars == <<topology, choice, fullGraph, drawn, fingerprint, jobs, screen, overlapped>>

Restricted(g, nodes) ==
    [nodes |-> g.nodes \cap nodes, edges |-> g.edges \cap (nodes \X nodes)]
AnyGraph == {Empty} \cup {Restricted(g, n) : g \in Topologies, n \in SUBSET GraphNodes}

\* getUpstreamNodeIds and getDownstreamNodeIds.
Reach(n, edges) ==
    LET after[k \in 0..Cardinality(GraphNodes)] ==
            IF k = 0 THEN {n}
            ELSE after[k - 1] \cup {e[2] : e \in {x \in edges : x[1] \in after[k - 1]}}
    IN  after[Cardinality(GraphNodes)]
Tree(n, edges) == Reach(n, edges) \cup Reach(n, {<<e[2], e[1]>> : e \in edges})

\* applyIsolation: a target that is not there isolates nothing.
Isolated(target, g) ==
    IF target \in g.nodes THEN Restricted(g, Tree(target, g.edges)) ELSE g

\* What the server answers to the load of a choice, and what is to be drawn.
Answer(c, g) == IF c.target # NoIsolation THEN g ELSE Restricted(g, Parts[c.team])
Picture(c, g) == Isolated(c.target, Answer(c, g))

Load(c, background) ==
    [kind |-> "load", background |-> background, choice |-> c, graph |-> Empty,
     fetched |-> FALSE, alone |-> TRUE]
Layout(c) ==
    [kind |-> "layout", background |-> FALSE, choice |-> c,
     graph |-> Isolated(c.target, fullGraph), fetched |-> TRUE, alone |-> FALSE]

\* A choice, with the jobs it starts; none is alone that meets another or a
\* new choice.
Start(new) ==
    /\ Len(jobs) + Len(new) <= MaxJobs
    /\ LET all == jobs \o new
       IN  jobs' = [i \in DOMAIN all |-> [all[i] EXCEPT !.alone = @ /\ jobs = <<>> /\ Len(new) = 1]]
    /\ overlapped' = (overlapped \/ jobs # <<>> \/ Len(new) > 1)
\* setIsLoading(true) hides the page, setError(null) the error.
ScreenOf(new, s) == IF \E j \in Range(new) : j.kind = "load" THEN "spinner" ELSE s

----------------------------------------------------------------------------
(* The user, the timer of usePolling and the services behind the graph. *)

\* Effects run after the refs are set: a new team is loaded.
ChooseTeam(t) ==
    LET c == [choice EXCEPT !.team = t] IN
    /\ screen = "graph" /\ t # choice.team
    /\ choice' = c
    /\ Start(<<Load(c, FALSE)>>) /\ screen' = "spinner"
    /\ UNCHANGED <<topology, fullGraph, drawn, fingerprint>>

\* setIsolationTarget, and exitIsolation for NoIsolation: the effect lays out
\* again what was loaded last; a team that was selected is loaded away.
Isolate(target) ==
    LET c == [team |-> AllTeams, target |-> target]
        new == (IF fullGraph.nodes # {} THEN <<Layout(c)>> ELSE <<>>)
               \o (IF choice.team # AllTeams THEN <<Load(c, FALSE)>> ELSE <<>>)
    IN
    /\ screen = "graph" /\ target # choice.target
    /\ target \in drawn.nodes \cup {NoIsolation}
    /\ choice' = c
    /\ Start(new) /\ screen' = ScreenOf(new, screen)
    /\ UNCHANGED <<topology, fullGraph, drawn, fingerprint>>

\* resetLayout, another direction or edge style, and Retry.
Reload ==
    /\ screen # "spinner"
    /\ Start(<<Load(choice, FALSE)>>) /\ screen' = "spinner"
    /\ UNCHANGED <<topology, choice, fullGraph, drawn, fingerprint>>

Poll ==
    /\ Start(<<Load(choice, TRUE)>>)
    /\ screen' = (IF screen = "error" THEN "graph" ELSE screen)
    /\ UNCHANGED <<topology, choice, fullGraph, drawn, fingerprint>>

ServerChange(g) ==
    /\ topology.changes < MaxReads /\ g # topology.graph
    /\ topology' = [graph |-> g, changes |-> topology.changes + 1]
    /\ UNCHANGED <<choice, fullGraph, drawn, fingerprint, jobs, screen, overlapped>>

----------------------------------------------------------------------------
(* The ends of jobs. *)

Fetched(i) ==
    /\ jobs[i].kind = "load" /\ ~jobs[i].fetched
    /\ jobs' = [jobs EXCEPT ![i].fetched = TRUE,
                            ![i].graph = Answer(jobs[i].choice, topology.graph)]
    /\ UNCHANGED <<topology, choice, fullGraph, drawn, fingerprint, screen, overlapped>>

\* Mutant: the isolated part is taken for the full graph.
KeepsAnyDrawing(j) ==
    j.background /\ j.graph = fingerprint /\ drawn.nodes # {}
\* updateGraphDataOnly: the same nodes and edges with new data.
KeepsDrawing(j) ==
    /\ j.background /\ j.graph = fingerprint /\ drawn.nodes # {}
    /\ j.choice.target = NoIsolation

LoadDone(i) ==
    LET j == jobs[i]
        full == IF KeepsDrawing(j) THEN drawn ELSE j.graph
    IN
    /\ j.kind = "load" /\ j.fetched
    /\ fullGraph' = full
    /\ fingerprint' = j.graph
    /\ drawn' = Isolated(j.choice.target, full)
    /\ screen' = (IF screen = "spinner" THEN "graph" ELSE screen)
    /\ overlapped' = (overlapped /\ (KeepsDrawing(j) \/ ~j.alone))
    /\ jobs' = RemoveAt(jobs, i)
    /\ UNCHANGED <<topology, choice>>

LoadFailed(i) ==
    /\ jobs[i].kind = "load"
    /\ screen' = "error"
    /\ jobs' = RemoveAt(jobs, i)
    /\ UNCHANGED <<topology, choice, fullGraph, drawn, fingerprint, overlapped>>

LayoutDone(i) ==
    /\ jobs[i].kind = "layout"
    /\ drawn' = jobs[i].graph
    /\ jobs' = RemoveAt(jobs, i)
    /\ UNCHANGED <<topology, choice, fullGraph, fingerprint, screen, overlapped>>

----------------------------------------------------------------------------
\* The page may be opened with a target in its URL.
ViewInit ==
    /\ topology \in [graph : Topologies, changes : {0}]
    /\ choice \in [team : {AllTeams}, target : GraphNodes \cup {NoIsolation}]
    /\ fullGraph = Empty /\ drawn = Empty /\ fingerprint = Empty
    /\ jobs = <<Load(choice, FALSE)>>
    /\ screen = "spinner" /\ overlapped = FALSE

ViewNext ==
    \/ \E t \in TeamChoices : ChooseTeam(t)
    \/ \E n \in GraphNodes \cup {NoIsolation} : Isolate(n)
    \/ Reload \/ Poll
    \/ \E g \in Topologies : ServerChange(g)
    \/ \E i \in DOMAIN jobs : Fetched(i) \/ LoadDone(i) \/ LoadFailed(i) \/ LayoutDone(i)

ViewSpec == ViewInit /\ [][ViewNext]_viewVars

ViewTypeOK ==
    /\ topology \in [graph : Topologies, changes : 0..MaxReads]
    /\ choice \in [team : TeamChoices, target : GraphNodes \cup {NoIsolation}]
    /\ {fullGraph, drawn, fingerprint} \subseteq AnyGraph
    /\ Len(jobs) <= MaxJobs
    /\ \A j \in Range(jobs) :
          /\ j.kind \in {"load", "layout"} /\ j.graph \in AnyGraph
          /\ {j.background, j.fetched, j.alone} \subseteq BOOLEAN
    /\ screen \in {"graph", "spinner", "error"} /\ overlapped \in BOOLEAN

(* When nothing is in flight and nothing failed, the screen shows what the     *)
(* team or the isolation chosen stands for, in some state of the server: after *)
(* polls that keep the drawing, failed loads, entering, changing and leaving   *)
(* an isolation.  Asked only where no two jobs overlapped since a load that    *)
(* was alone, for overlapping ones are not ordered (hooks/useGraphState.ts     *)
(* loadData, the isolation effect).                                            *)
ShownAsSelected ==
    jobs = <<>> /\ screen = "graph" /\ ~overlapped =>
        \E g \in Topologies : drawn = Picture(choice, g)
=============================================================================
