------------------------------ MODULE PagesProofs ------------------------------
(***************************************************************************)
(* Proofs about the pages of the client, in the model that composes them:  *)
(* for any flags, graphs, teams and users, and any number of requests in   *)
(* flight.  Each page has an invariant of its own; PagesShow is the three  *)
(* of them together.                                                       *)
(***************************************************************************)
EXTENDS MCPages, SequenceTheorems, FiniteSetTheorems, WellFoundedInduction, TLAPS

----------------------------------------------------------------------------
(* The review of drift flags. *)

\* What is on the screen has been shown, and so has what is selected.
ReviewInv == SelectedWereShown /\ Shown(page) \subseteq seen

LEMMA ReviewStarts == ReviewInit => ReviewInv
  BY DEF ReviewInit, ReviewInv, SelectedWereShown, Shown

LEMMA ReviewKept ==
    ASSUME ReviewInv, ReviewNext \/ UNCHANGED reviewVars
    PROVE  ReviewInv'
  <1> USE DEF ReviewInv, SelectedWereShown
  <1>1. CASE UNCHANGED reviewVars
    BY <1>1 DEF reviewVars, Shown, Filtered
  <1>2. ASSUME NEW v \in Open, SetView(v) PROVE ReviewInv'
    BY <1>2 DEF SetView, Shown, Filtered
  <1>3. ASSUME NEW t \in Filters, SetFilter(t) PROVE ReviewInv'
    BY <1>3 DEF SetFilter, Look, Shown, Filtered
  <1>4. ASSUME NEW f \in FlagIds, Toggle(f) PROVE ReviewInv'
    BY <1>4 DEF Toggle, Shown, Filtered
  <1>5. CASE SelectAll
    BY <1>5 DEF SelectAll, Ready, Selection, Shown, Filtered
  <1>6. ASSUME NEW f \in FlagIds, NEW k \in {"accept", "dismiss", "reopen"}, Click(f, k)
        PROVE  ReviewInv'
    BY <1>6 DEF Click, Shown, Filtered
  <1>7. ASSUME NEW k \in {"accept", "dismiss"}, OpenDialog(k) PROVE ReviewInv'
    BY <1>7 DEF OpenDialog, Shown, Filtered
  <1>8. CASE CloseDialog
    BY <1>8 DEF CloseDialog, Shown, Filtered
  <1>9. CASE Confirm \/ ClearError
    BY <1>9 DEF Confirm, ClearError, Look, Shown, Filtered
  <1>10. CASE SingleDone
    BY <1>10 DEF SingleDone, Look, Shown, Filtered
  <1>11. CASE BulkDone
    BY <1>11 DEF BulkDone, Look, Shown, Filtered
  <1>12. ASSUME NEW i \in DOMAIN listing, ListRead(i) PROVE ReviewInv'
    BY <1>12 DEF ListRead, Shown, Filtered
  <1>13. ASSUME NEW i \in DOMAIN listing, ListDone(i) PROVE ReviewInv'
    BY <1>13 DEF ListDone, Look, Shown, Filtered
  <1>14. ASSUME NEW f \in FlagIds, NEW status \in FlagStatus, Elsewhere(f, status)
         PROVE  ReviewInv'
    BY <1>14 DEF Elsewhere, Shown, Filtered
  <1> QED
    BY <1>1, <1>2, <1>3, <1>4, <1>5, <1>6, <1>7, <1>8, <1>9, <1>10, <1>11, <1>12, <1>13, <1>14
    DEF ReviewNext

----------------------------------------------------------------------------
(* The graph page. *)

Graphs == [nodes : SUBSET GraphNodes, edges : SUBSET (GraphNodes \X GraphNodes)]
ViewChoices == [team : TeamChoices, target : GraphNodes \cup {NoIsolation}]
Job == [kind : {"load", "layout"}, background : BOOLEAN, choice : ViewChoices,
        graph : Graphs, fetched : BOOLEAN, alone : BOOLEAN]

\* What is loaded is an answer to the choice.
Answers(c, g) == \E t \in Topologies : g = Answer(c, t)

ViewTypes ==
    /\ topology.graph \in Topologies /\ choice \in ViewChoices
    /\ fullGraph \in Graphs /\ drawn \in Graphs /\ fingerprint \in Graphs
    /\ jobs \in Seq(Job) /\ overlapped \in BOOLEAN
\* A load that is alone is the only job, and for the present choice.
LoadsKnow ==
    \A i \in DOMAIN jobs :
       /\ jobs[i].alone => Len(jobs) = 1 /\ jobs[i].kind = "load" /\ jobs[i].choice = choice
       /\ jobs[i].kind = "load" /\ jobs[i].fetched => Answers(jobs[i].choice, jobs[i].graph)
\* Without overlapping jobs the drawing is that of the full graph, or about to be.
InOrder ==
    /\ fingerprint = fullGraph /\ Len(jobs) <= 1
    /\ jobs = <<>> =>
          /\ drawn = Isolated(choice.target, fullGraph)
          /\ screen = "graph" => Answers(choice, fullGraph)
    /\ \A i \in DOMAIN jobs :
          IF jobs[i].kind = "load"
          THEN jobs[i].alone /\ drawn = Isolated(choice.target, fullGraph)
          ELSE jobs[i].graph = Isolated(choice.target, fullGraph) /\ Answers(choice, fullGraph)
ViewInv == ViewTypes /\ LoadsKnow /\ (~overlapped => InOrder)

LEMMA Cut ==
    ASSUME NEW g \in Graphs, NEW nodes PROVE Restricted(g, nodes) \in Graphs
  BY DEF Restricted, Graphs

LEMMA Isolates ==
    ASSUME NEW g \in Graphs, NEW target
    PROVE  /\ Isolated(target, g) \in Graphs
           /\ target \notin g.nodes => Isolated(target, g) = g
  BY Cut DEF Isolated

\* An answer is a graph; without a team it is the whole one, which has nodes.
LEMMA Answered ==
    ASSUME NEW t \in Topologies
    PROVE  /\ t \in Graphs
           /\ \A c \in ViewChoices : Answer(c, t) \in Graphs
           /\ \A c \in ViewChoices : c.team = AllTeams => Answer(c, t) = t
           /\ t.nodes # {}
  <1>1. t = [nodes |-> t.nodes, edges |-> t.edges] /\ t.nodes # {}
        /\ t.edges \subseteq t.nodes \X t.nodes /\ t.nodes \subseteq GraphNodes
    BY ViewConstants DEF GraphNodes
  <1>2. t \in Graphs
    BY <1>1 DEF Graphs
  <1>3. Restricted(t, GraphNodes) = t
    <2>1. t.nodes \cap GraphNodes = t.nodes /\ t.edges \cap (GraphNodes \X GraphNodes) = t.edges
      BY <1>1
    <2> QED BY <1>1, <2>1 DEF Restricted
  <1> QED
    BY <1>1, <1>2, <1>3, Cut, ViewConstants DEF Answer, ViewChoices

\* What Start leaves: the jobs that were there and the new ones, alone or not.
Kept(j, k, lonely) ==
    /\ k.kind = j.kind /\ k.choice = j.choice /\ k.graph = j.graph /\ k.fetched = j.fetched
    /\ k.alone => j.alone /\ lonely
    /\ j.alone /\ lonely => k.alone
LEMMA Started ==
    ASSUME NEW new \in Seq(Job), jobs \in Seq(Job), Start(new)
    PROVE  /\ jobs' \in Seq(Job) /\ Len(jobs') = Len(jobs) + Len(new)
           /\ \A i \in DOMAIN jobs' :
                 \/ i \in DOMAIN jobs /\ Kept(jobs[i], jobs'[i], jobs = <<>> /\ Len(new) = 1)
                 \/ /\ i - Len(jobs) \in DOMAIN new
                    /\ Kept(new[i - Len(jobs)], jobs'[i], jobs = <<>> /\ Len(new) = 1)
  <1> DEFINE all == jobs \o new
             Now(i) == [all[i] EXCEPT !.alone = @ /\ jobs = <<>> /\ Len(new) = 1]
  <1>1. all \in Seq(Job) /\ Len(all) = Len(jobs) + Len(new) /\ DOMAIN all = 1..Len(all)
    OBVIOUS
  <1>2. jobs' = [i \in DOMAIN all |-> Now(i)]
    BY DEF Start
  <1>3. ASSUME NEW i \in DOMAIN all
        PROVE  /\ Now(i) \in Job
               /\ Kept(all[i], Now(i), jobs = <<>> /\ Len(new) = 1)
               /\ \/ i \in DOMAIN jobs /\ all[i] = jobs[i]
                  \/ i - Len(jobs) \in DOMAIN new /\ all[i] = new[i - Len(jobs)]
    <2>1. all[i] \in Job
      BY <1>1
    <2>2. Now(i) \in Job
      BY <2>1 DEF Job
    <2>3. \/ i \in DOMAIN jobs /\ all[i] = jobs[i]
          \/ i - Len(jobs) \in DOMAIN new /\ all[i] = new[i - Len(jobs)]
      BY <1>1
    <2>4. Kept(all[i], Now(i), jobs = <<>> /\ Len(new) = 1)
      BY <2>1 DEF Kept, Job
    <2> QED BY <2>2, <2>3, <2>4
  <1> HIDE DEF all, Now
  <1>4. jobs' \in Seq(Job) /\ Len(jobs') = Len(all) /\ DOMAIN jobs' = DOMAIN all
    BY <1>1, <1>2, <1>3
  <1>5. ASSUME NEW i \in DOMAIN jobs' PROVE jobs'[i] = Now(i)
    BY <1>2, <1>4
  <1> QED
    BY <1>1, <1>3, <1>4, <1>5

\* What is left of a sequence without one of its elements.
LEMMA Removed ==
    ASSUME NEW S, NEW s \in Seq(S), NEW i \in 1..Len(s)
    PROVE  /\ RemoveAt(s, i) \in Seq(S) /\ Len(RemoveAt(s, i)) = Len(s) - 1
           /\ \A k \in DOMAIN RemoveAt(s, i) : \E m \in DOMAIN s : RemoveAt(s, i)[k] = s[m]
  <1> DEFINE a == SubSeq(s, 1, i - 1)
             b == SubSeq(s, i + 1, Len(s))
             r == RemoveAt(s, i)
  <1>2. a \in Seq(S) /\ Len(a) = i - 1 /\ \A k \in 1..(i - 1) : a[k] = s[k]
    OBVIOUS
  <1>3. b \in Seq(S) /\ Len(b) = Len(s) - i /\ \A k \in 1..(Len(s) - i) : b[k] = s[i + k]
    OBVIOUS
  <1>4. r = a \o b
    BY DEF RemoveAt
  <1> HIDE DEF a, b, r
  <1>5. r \in Seq(S) /\ Len(r) = Len(s) - 1 /\ DOMAIN r = 1..(Len(s) - 1)
    BY <1>2, <1>3, <1>4
  <1>6. ASSUME NEW k \in DOMAIN r PROVE \E m \in DOMAIN s : r[k] = s[m]
    <2>1. CASE k <= i - 1
      <3>1. r[k] = s[k] /\ k \in DOMAIN s
        BY <1>2, <1>3, <1>4, <1>5, <2>1
      <3> QED BY <3>1
    <2>2. CASE k > i - 1
      <3>1. r[k] = b[k - (i - 1)]
        BY <1>2, <1>3, <1>4, <1>5, <2>2
      <3>2. b[k - (i - 1)] = s[k + 1] /\ k + 1 \in DOMAIN s
        <4>1. k - (i - 1) \in 1..(Len(s) - i) /\ i + (k - (i - 1)) = k + 1 /\ k + 1 \in 1..Len(s)
          BY <1>5, <2>2
        <4>2. b[k - (i - 1)] = s[i + (k - (i - 1))]
          BY <4>1, <1>3
        <4> QED BY <4>1, <4>2
      <3> QED BY <3>1, <3>2
    <2> QED BY <2>1, <2>2, <1>5
  <1> QED BY <1>5, <1>6 DEF r

LEMMA EmptyGraph == Empty \in Graphs /\ Empty.nodes = {}
  BY DEF Empty, Graphs

LEMMA LoadIsJob ==
    ASSUME NEW c \in ViewChoices, NEW b \in BOOLEAN
    PROVE  /\ Load(c, b) \in Job /\ <<Load(c, b)>> \in Seq(Job)
           /\ Load(c, b).kind = "load" /\ Load(c, b).choice = c /\ Load(c, b).alone
           /\ ~Load(c, b).fetched
  <1>1. Load(c, b) \in Job
    <2>1. Empty \in Graphs
      BY EmptyGraph
    <2> QED BY <2>1 DEF Load, Job
  <1> QED BY <1>1 DEF Load

LEMMA Single == \A x : Len(<<x>>) = 1 /\ DOMAIN <<x>> = {1} /\ <<x>>[1] = x /\ <<x>> # <<>>
  <1> TAKE x
  <1>1. Len(<<x>>) = 1 /\ DOMAIN <<x>> = {1} /\ <<x>>[1] = x
    OBVIOUS
  <1>2. <<x>> # <<>>
    OBVIOUS
  <1> QED BY <1>1, <1>2

LEMMA ViewStarts == ViewInit => ViewInv
  <1> SUFFICES ASSUME ViewInit PROVE ViewInv
    OBVIOUS
  <1>1. topology.graph \in Topologies /\ choice \in ViewChoices
    <2>1. AllTeams \in TeamChoices
      BY ViewConstants
    <2> QED BY <2>1 DEF ViewInit, ViewChoices
  <1>2. Empty \in Graphs /\ Isolated(choice.target, Empty) = Empty
    <2>1. Empty \in Graphs /\ choice.target \notin Empty.nodes
      BY EmptyGraph
    <2> QED BY <2>1, Isolates
  <1>3. /\ jobs \in Seq(Job) /\ Len(jobs) = 1 /\ DOMAIN jobs = {1}
        /\ jobs[1] = Load(choice, FALSE) /\ jobs # <<>>
    <2>1. jobs = <<Load(choice, FALSE)>> /\ jobs \in Seq(Job)
      BY <1>1, LoadIsJob DEF ViewInit
    <2> QED BY <2>1, Single
  <1>4. /\ fullGraph = Empty /\ drawn = Empty /\ fingerprint = Empty
        /\ overlapped = FALSE
    BY DEF ViewInit
  <1>5. ViewTypes
    BY <1>1, <1>2, <1>3, <1>4 DEF ViewTypes
  <1>6. LoadsKnow
    <2>1. /\ jobs[1].kind = "load" /\ jobs[1].choice = choice
          /\ jobs[1].alone /\ ~jobs[1].fetched
      BY <1>1, <1>3, LoadIsJob
    <2> QED BY <2>1, <1>3 DEF LoadsKnow
  <1>7. InOrder
    <2>1. jobs[1].kind = "load" /\ jobs[1].alone
      BY <1>1, <1>3, LoadIsJob
    <2>2. drawn = Isolated(choice.target, fullGraph) /\ fingerprint = fullGraph
      BY <1>2, <1>4
    <2>3. jobs # <<>> /\ Len(jobs) <= 1 /\ \A i \in DOMAIN jobs : i = 1
      BY <1>3
    <2> QED BY <2>1, <2>2, <2>3 DEF InOrder
  <1> QED
    BY <1>5, <1>6, <1>7 DEF ViewInv

\* A step that starts a load of its choice, and keeps what is loaded and drawn.
LEMMA LoadStarted ==
    ASSUME ViewInv, NEW b \in BOOLEAN, choice' \in ViewChoices,
           Start(<<Load(choice', b)>>), UNCHANGED <<topology, fullGraph, drawn, fingerprint>>,
           Isolated(choice'.target, fullGraph) = Isolated(choice.target, fullGraph)
    PROVE  ViewInv'
  <1> DEFINE l == Load(choice', b)
  <1>1. /\ l \in Job /\ <<l>> \in Seq(Job) /\ l.kind = "load" /\ l.choice = choice'
        /\ l.alone /\ ~l.fetched
    BY LoadIsJob
  <1>2. jobs \in Seq(Job) /\ overlapped \in BOOLEAN
    BY DEF ViewInv, ViewTypes
  <1>3. overlapped' = (overlapped \/ jobs # <<>>)
    <2>1. Len(<<l>>) = 1
      OBVIOUS
    <2> QED BY <2>1 DEF Start
  <1> HIDE DEF l
  <1>4. Len(<<l>>) = 1 /\ <<l>>[1] = l /\ DOMAIN <<l>> = {1}
    BY Single
  <1>5. /\ jobs' \in Seq(Job) /\ Len(jobs') = Len(jobs) + 1
        /\ \A i \in DOMAIN jobs' :
              \/ i \in DOMAIN jobs /\ Kept(jobs[i], jobs'[i], jobs = <<>>)
              \/ i = Len(jobs) + 1 /\ Kept(l, jobs'[i], jobs = <<>>)
    <2>1. Start(<<l>>)
      BY DEF l
    <2>2. /\ jobs' \in Seq(Job) /\ Len(jobs') = Len(jobs) + Len(<<l>>)
          /\ \A i \in DOMAIN jobs' :
                \/ i \in DOMAIN jobs /\ Kept(jobs[i], jobs'[i], jobs = <<>> /\ Len(<<l>>) = 1)
                \/ /\ i - Len(jobs) \in DOMAIN <<l>>
                   /\ Kept(<<l>>[i - Len(jobs)], jobs'[i], jobs = <<>> /\ Len(<<l>>) = 1)
      BY <1>1, <1>2, <2>1, Started
    <2>3. ASSUME NEW i \in DOMAIN jobs'
          PROVE  \/ i \in DOMAIN jobs /\ Kept(jobs[i], jobs'[i], jobs = <<>>)
                 \/ i = Len(jobs) + 1 /\ Kept(l, jobs'[i], jobs = <<>>)
      <3>1. i \in Int /\ Len(jobs) \in Nat
        BY <1>2, <2>2
      <3>2. CASE i \in DOMAIN jobs /\ Kept(jobs[i], jobs'[i], jobs = <<>> /\ Len(<<l>>) = 1)
        BY <3>2, <1>4 DEF Kept
      <3>3. CASE /\ i - Len(jobs) \in DOMAIN <<l>>
                 /\ Kept(<<l>>[i - Len(jobs)], jobs'[i], jobs = <<>> /\ Len(<<l>>) = 1)
        <4>1. i - Len(jobs) = 1 /\ i = Len(jobs) + 1
          BY <3>1, <3>3, <1>4
        <4>2. Kept(l, jobs'[i], jobs = <<>> /\ Len(<<l>>) = 1)
          BY <4>1, <3>3, <1>4
        <4> QED BY <4>1, <4>2, <1>4 DEF Kept
      <3> QED BY <2>2, <3>2, <3>3
    <2> QED BY <2>2, <2>3, <1>4
  <1>6. ViewTypes'
    BY <1>3, <1>5 DEF ViewInv, ViewTypes
  <1>7. ASSUME NEW i \in DOMAIN jobs'
        PROVE  /\ jobs'[i].alone => Len(jobs') = 1 /\ jobs'[i].kind = "load" /\ jobs'[i].choice = choice'
               /\ jobs'[i].kind = "load" /\ jobs'[i].fetched => Answers(jobs'[i].choice, jobs'[i].graph)
    <2>1. CASE i \in DOMAIN jobs /\ Kept(jobs[i], jobs'[i], jobs = <<>>)
      <3>1. jobs # <<>>
        BY <2>1
      <3> QED BY <2>1, <3>1 DEF Kept, ViewInv, LoadsKnow
    <2>2. CASE i = Len(jobs) + 1 /\ Kept(l, jobs'[i], jobs = <<>>)
      BY <2>2, <1>1, <1>2, <1>5 DEF Kept
    <2> QED BY <2>1, <2>2, <1>5
  <1>8. LoadsKnow'
    BY <1>7 DEF LoadsKnow, Answers
  <1>9. ASSUME ~overlapped' PROVE InOrder'
    <2>1. jobs = <<>> /\ InOrder /\ Len(jobs) = 0
      BY <1>9, <1>3 DEF ViewInv
    <2>2. Len(jobs') = 1 /\ jobs' # <<>> /\ drawn = Isolated(choice.target, fullGraph)
          /\ fingerprint = fullGraph
      BY <2>1, <1>5 DEF InOrder
    <2>3. ASSUME NEW i \in DOMAIN jobs' PROVE jobs'[i].kind = "load" /\ jobs'[i].alone
      BY <2>1, <1>5, <1>1 DEF Kept
    <2> QED BY <2>2, <2>3 DEF InOrder
  <1> QED
    BY <1>6, <1>8, <1>9 DEF ViewInv

LEMMA LayoutIsJob ==
    ASSUME fullGraph \in Graphs, NEW c \in ViewChoices
    PROVE  /\ Layout(c) \in Job /\ Layout(c).kind = "layout" /\ ~Layout(c).alone
           /\ Layout(c).graph = Isolated(c.target, fullGraph)
  <1>1. Isolated(c.target, fullGraph) \in Graphs
    BY Isolates
  <1> QED BY <1>1 DEF Layout, Job

\* Isolating when nothing else is to be done, or a layout, is the other step.
LEMMA IsolateKeeps ==
    ASSUME ViewInv, NEW target \in GraphNodes \cup {NoIsolation}, Isolate(target)
    PROVE  ViewInv'
  <1> DEFINE c == [team |-> AllTeams, target |-> target]
             layouts == IF fullGraph.nodes # {} THEN <<Layout(c)>> ELSE <<>>
             loads == IF choice.team # AllTeams THEN <<Load(c, FALSE)>> ELSE <<>>
  <1>1. /\ choice' = c /\ screen = "graph" /\ Start(layouts \o loads)
        /\ UNCHANGED <<topology, fullGraph, drawn, fingerprint>>
    BY DEF Isolate
  <1>2. c \in ViewChoices /\ c.target = target /\ c.team = AllTeams
    <2>1. AllTeams \in TeamChoices
      BY ViewConstants
    <2> QED BY <2>1 DEF ViewChoices
  <1>3. /\ fullGraph \in Graphs /\ choice \in ViewChoices /\ jobs \in Seq(Job)
        /\ overlapped \in BOOLEAN /\ topology.graph \in Topologies
    BY DEF ViewInv, ViewTypes
  <1>4. CASE fullGraph.nodes = {} /\ choice.team # AllTeams
    <2>1. layouts \o loads = <<Load(choice', FALSE)>>
      <3>1. layouts = <<>> /\ loads = <<Load(choice', FALSE)>>
        BY <1>1, <1>4
      <3>2. <<Load(choice', FALSE)>> \in Seq(Job)
        BY <1>1, <1>2, LoadIsJob
      <3> HIDE DEF layouts, loads
      <3> QED BY <3>1, <3>2, ConcatEmptySeq
    <2>2. /\ Isolated(choice'.target, fullGraph) = fullGraph
          /\ Isolated(choice.target, fullGraph) = fullGraph
      BY <1>3, <1>4, Isolates
    <2>3. choice' \in ViewChoices
      BY <1>1, <1>2
    <2> QED BY <1>1, <2>1, <2>2, <2>3, LoadStarted
  <1>5. CASE fullGraph.nodes = {} /\ choice.team = AllTeams
    <2>1. layouts \o loads = <<>> /\ layouts \o loads \in Seq(Job) /\ Len(layouts \o loads) = 0
      BY <1>5
    <2>2. Start(<<>>)
      BY <1>1, <2>1
    <2>3. <<>> \in Seq(Job) /\ Len(<<>>) = 0 /\ DOMAIN <<>> = {}
      OBVIOUS
    <2>4. /\ jobs' \in Seq(Job) /\ Len(jobs') = Len(jobs)
          /\ \A i \in DOMAIN jobs' : i \in DOMAIN jobs /\ Kept(jobs[i], jobs'[i], FALSE)
      <3>1. /\ jobs' \in Seq(Job) /\ Len(jobs') = Len(jobs) + Len(<<>>)
            /\ \A i \in DOMAIN jobs' :
                  \/ i \in DOMAIN jobs /\ Kept(jobs[i], jobs'[i], jobs = <<>> /\ Len(<<>>) = 1)
                  \/ /\ i - Len(jobs) \in DOMAIN <<>>
                     /\ Kept(<<>>[i - Len(jobs)], jobs'[i], jobs = <<>> /\ Len(<<>>) = 1)
        BY <1>3, <2>2, <2>3, Started
      <3>2. ASSUME NEW i \in DOMAIN jobs'
            PROVE  i \in DOMAIN jobs /\ Kept(jobs[i], jobs'[i], FALSE)
        <4>1. i \in DOMAIN jobs /\ Kept(jobs[i], jobs'[i], jobs = <<>> /\ Len(<<>>) = 1)
          BY <3>1, <2>3
        <4> QED BY <4>1, <2>3 DEF Kept
      <3>3. Len(jobs) \in Nat /\ Len(jobs') = Len(jobs)
        BY <3>1, <2>3, <1>3
      <3> QED BY <3>1, <3>2, <3>3
    <2>5. overlapped' = (overlapped \/ jobs # <<>>)
      BY <2>2, <2>3 DEF Start
    <2>6. ViewTypes'
      BY <1>1, <1>2, <2>4, <2>5 DEF ViewInv, ViewTypes
    <2>7. LoadsKnow'
      <3>1. ASSUME NEW i \in DOMAIN jobs'
            PROVE  /\ ~jobs'[i].alone
                   /\ jobs'[i].kind = "load" /\ jobs'[i].fetched
                      => Answers(jobs'[i].choice, jobs'[i].graph)
        BY <2>4 DEF ViewInv, LoadsKnow, Kept
      <3> QED BY <3>1 DEF LoadsKnow, Answers
    <2>8. overlapped'
      <3> SUFFICES ASSUME ~overlapped, jobs = <<>> PROVE FALSE
        BY <2>5
      <3>1. Answers(choice, fullGraph)
        BY <1>1 DEF ViewInv, InOrder
      <3> QED BY <3>1, <1>3, <1>5, Answered DEF Answers
    <2> QED BY <2>6, <2>7, <2>8 DEF ViewInv
  <1>6. CASE fullGraph.nodes # {}
    <2> DEFINE y == Layout(c)
               l == Load(c, FALSE)
               new == layouts \o loads
    <2>1. /\ y \in Job /\ y.kind = "layout" /\ ~y.alone /\ y.graph = Isolated(target, fullGraph)
      <3> HIDE DEF c
      <3> QED BY <1>2, <1>3, LayoutIsJob
    <2>2. l \in Job /\ l.kind = "load" /\ ~l.fetched
      BY <1>2, LoadIsJob
    <2> HIDE DEF y, l
    <2>3. layouts = <<y>> /\ loads = IF choice.team = AllTeams THEN <<>> ELSE <<l>>
      BY <1>6 DEF y, l
    <2> HIDE DEF layouts, loads
    <2>4. /\ new \in Seq(Job) /\ (choice.team = AllTeams => Len(new) = 1)
          /\ (choice.team # AllTeams => Len(new) = 2)
          /\ \A i \in DOMAIN new : new[i] \in {y, l}
          /\ (choice.team = AllTeams => \A i \in DOMAIN new : i = 1 /\ new[i] = y)
      <3>1. CASE choice.team = AllTeams
        <4>1. new = <<y>>
          <5>1. <<y>> \in Seq(Job)
            BY <2>1
          <5> QED BY <5>1, <2>3, <3>1, ConcatEmptySeq
        <4> QED BY <4>1, <3>1, <2>1, Single
      <3>2. CASE choice.team # AllTeams
        <4>1. new = <<y>> \o <<l>>
          BY <2>3, <3>2
        <4>2. <<y>> \in Seq(Job) /\ <<l>> \in Seq(Job)
          BY <2>1, <2>2
        <4> QED BY <4>1, <4>2, <3>2, Single
      <3> QED BY <3>1, <3>2
    <2> HIDE DEF new
    <2>5. /\ jobs' \in Seq(Job) /\ Len(jobs') = Len(jobs) + Len(new)
          /\ \A i \in DOMAIN jobs' :
                 \/ i \in DOMAIN jobs /\ Kept(jobs[i], jobs'[i], jobs = <<>> /\ Len(new) = 1)
                 \/ /\ i - Len(jobs) \in DOMAIN new
                    /\ Kept(new[i - Len(jobs)], jobs'[i], jobs = <<>> /\ Len(new) = 1)
      <3>1. Start(new)
        BY <1>1 DEF new
      <3> QED BY <3>1, <1>3, <2>4, Started
    <2>6. overlapped' = (overlapped \/ jobs # <<>> \/ Len(new) > 1)
      BY <1>1 DEF Start, new
    <2>7. ViewTypes'
      BY <1>1, <1>2, <2>5, <2>6 DEF ViewInv, ViewTypes
    <2>8. ASSUME NEW i \in DOMAIN jobs'
          PROVE  /\ ~jobs'[i].alone
                 /\ jobs'[i].kind = "load" /\ jobs'[i].fetched
                    => Answers(jobs'[i].choice, jobs'[i].graph)
      <3>1. CASE i \in DOMAIN jobs /\ Kept(jobs[i], jobs'[i], jobs = <<>> /\ Len(new) = 1)
        <4>1. jobs # <<>>
          BY <3>1
        <4> QED BY <3>1, <4>1 DEF ViewInv, LoadsKnow, Kept
      <3>2. CASE /\ i - Len(jobs) \in DOMAIN new
                 /\ Kept(new[i - Len(jobs)], jobs'[i], jobs = <<>> /\ Len(new) = 1)
        <4>1. CASE new[i - Len(jobs)] = y
          BY <3>2, <4>1, <2>1 DEF Kept
        <4>2. CASE new[i - Len(jobs)] = l /\ choice.team # AllTeams
          BY <3>2, <4>2, <2>2, <2>4 DEF Kept
        <4> QED BY <3>2, <4>1, <4>2, <2>4
      <3> QED BY <3>1, <3>2, <2>5
    <2>9. LoadsKnow'
      BY <2>8 DEF LoadsKnow, Answers
    <2>10. ASSUME ~overlapped' PROVE InOrder'
      <3>1. /\ ~overlapped /\ jobs = <<>> /\ Len(jobs) = 0 /\ Len(new) = 1 /\ choice.team = AllTeams
        <4>1. ~overlapped /\ jobs = <<>> /\ ~(Len(new) > 1)
          BY <2>6, <2>10
        <4>2. choice.team = AllTeams /\ Len(new) = 1
          BY <4>1, <2>4
        <4> QED BY <4>1, <4>2
      <3>2. InOrder
        BY <3>1 DEF ViewInv
      <3>3. Answers(c, fullGraph)
        <4>1. PICK t \in Topologies : fullGraph = Answer(choice, t)
          BY <1>1, <3>1, <3>2 DEF InOrder, Answers
        <4>2. Answer(choice, t) = t /\ Answer(c, t) = t
          <5> HIDE DEF c
          <5> QED BY <1>2, <1>3, <3>1, Answered
        <4> QED BY <4>1, <4>2 DEF Answers
      <3>4. Len(jobs') = 1 /\ jobs' # <<>> /\ fingerprint' = fullGraph'
        <4>1. Len(jobs') = 1
          BY <2>5, <3>1
        <4>2. jobs' # <<>>
          BY <4>1
        <4> QED BY <4>1, <4>2, <1>1, <3>2 DEF InOrder
      <3>5. ASSUME NEW i \in DOMAIN jobs'
            PROVE  /\ jobs'[i].kind = "layout"
                   /\ jobs'[i].graph = Isolated(choice'.target, fullGraph')
                   /\ Answers(choice', fullGraph')
        <4>1. PICK k \in DOMAIN new : Kept(new[k], jobs'[i], jobs = <<>> /\ Len(new) = 1)
          BY <2>5, <3>1
        <4>2. new[k] = y
          BY <2>4, <3>1
        <4> QED BY <4>1, <4>2, <3>3, <2>1, <1>1, <1>2 DEF Kept
      <3> QED BY <3>4, <3>5 DEF InOrder, Answers
    <2> QED BY <2>7, <2>9, <2>10 DEF ViewInv
  <1> QED BY <1>4, <1>5, <1>6

LEMMA FetchedKeeps ==
    ASSUME ViewInv, NEW i \in DOMAIN jobs, Fetched(i)
    PROVE  ViewInv'
  <1>1. /\ jobs[i] \in Job /\ jobs[i].kind = "load" /\ ~jobs[i].fetched /\ jobs \in Seq(Job)
        /\ topology.graph \in Topologies
        /\ UNCHANGED <<topology, choice, fullGraph, drawn, fingerprint, screen, overlapped>>
    BY DEF Fetched, ViewInv, ViewTypes
  <1> DEFINE answer == Answer(jobs[i].choice, topology.graph)
             now == [jobs[i] EXCEPT !.fetched = TRUE, !.graph = answer]
  <1>2. answer \in Graphs /\ Answers(jobs[i].choice, answer)
    <2>1. jobs[i].choice \in ViewChoices
      BY <1>1 DEF Job
    <2> QED BY <2>1, <1>1, Answered DEF Answers
  <1> HIDE DEF answer
  <1>3. /\ now \in Job /\ now.kind = "load" /\ now.choice = jobs[i].choice
        /\ now.graph = answer /\ now.alone = jobs[i].alone
    BY <1>1, <1>2 DEF Job
  <1>4. jobs' = [jobs EXCEPT ![i] = now]
    <2>1. jobs' = [jobs EXCEPT ![i].fetched = TRUE, ![i].graph = answer]
      BY DEF Fetched, answer
    <2> QED BY <2>1, <1>1
  <1> HIDE DEF now
  <1>5. /\ jobs' \in Seq(Job) /\ Len(jobs') = Len(jobs) /\ DOMAIN jobs' = DOMAIN jobs
        /\ \A k \in DOMAIN jobs : jobs'[k] = IF k = i THEN now ELSE jobs[k]
    BY <1>1, <1>3, <1>4
  <1>6. ViewTypes'
    BY <1>1, <1>5 DEF ViewInv, ViewTypes
  <1>7. LoadsKnow'
    BY <1>1, <1>2, <1>3, <1>5 DEF ViewInv, LoadsKnow, Answers
  <1>8. ASSUME ~overlapped PROVE InOrder'
    <2>1. InOrder /\ jobs # <<>> /\ jobs' # <<>>
      BY <1>1, <1>5, <1>8 DEF ViewInv
    <2>2. ASSUME NEW k \in DOMAIN jobs'
          PROVE  jobs'[k].kind = "load" /\ jobs'[k].alone /\ drawn = Isolated(choice.target, fullGraph)
      <3>1. k = i
        BY <2>1, <1>1, <1>5 DEF InOrder
      <3>2. jobs[i].alone /\ drawn = Isolated(choice.target, fullGraph)
        BY <2>1, <1>1 DEF InOrder
      <3> QED BY <3>1, <3>2, <1>3, <1>5
    <2> QED BY <2>1, <2>2, <1>1, <1>5 DEF InOrder
  <1> QED
    BY <1>1, <1>6, <1>7, <1>8 DEF ViewInv

\* A job that ends, whatever it leaves on the screen.
LEMMA EndKeepsLoads ==
    ASSUME ViewInv, NEW i \in DOMAIN jobs, jobs' = RemoveAt(jobs, i), UNCHANGED choice
    PROVE  /\ LoadsKnow' /\ jobs' \in Seq(Job) /\ Len(jobs') = Len(jobs) - 1
           /\ Len(jobs) = 1 => jobs' = <<>>
  <1>1. jobs \in Seq(Job) /\ i \in 1..Len(jobs)
    BY DEF ViewInv, ViewTypes
  <1>2. /\ jobs' \in Seq(Job) /\ Len(jobs') = Len(jobs) - 1
        /\ \A k \in DOMAIN jobs' : \E m \in DOMAIN jobs : jobs'[k] = jobs[m]
    BY <1>1, Removed
  <1>3. Len(jobs) = 1 => jobs' = <<>>
    <2>1. ASSUME Len(jobs) = 1 PROVE Len(jobs') = 0
      BY <1>2, <2>1
    <2> QED BY <1>2, <2>1
  <1>4. ASSUME NEW k \in DOMAIN jobs'
        PROVE  /\ ~jobs'[k].alone
               /\ jobs'[k].kind = "load" /\ jobs'[k].fetched
                  => Answers(jobs'[k].choice, jobs'[k].graph)
    <2>1. PICK m \in DOMAIN jobs : jobs'[k] = jobs[m]
      BY <1>2
    <2>2. Len(jobs) # 1
      BY <1>2, <1>3
    <2> QED BY <2>1, <2>2 DEF ViewInv, LoadsKnow
  <1> QED
    BY <1>2, <1>3, <1>4 DEF LoadsKnow, Answers

LEMMA LoadDoneKeeps ==
    ASSUME ViewInv, NEW i \in DOMAIN jobs, LoadDone(i)
    PROVE  ViewInv'
  <1> DEFINE j == jobs[i]
             full == IF KeepsDrawing(j) THEN drawn ELSE j.graph
  <1>1. /\ j \in Job /\ j.kind = "load" /\ j.fetched /\ jobs \in Seq(Job)
        /\ Answers(j.choice, j.graph)
    BY DEF LoadDone, ViewInv, ViewTypes, LoadsKnow
  <1>2. /\ fullGraph' = full /\ fingerprint' = j.graph
        /\ drawn' = Isolated(j.choice.target, full)
        /\ overlapped' = (overlapped /\ (KeepsDrawing(j) \/ ~j.alone))
        /\ jobs' = RemoveAt(jobs, i) /\ UNCHANGED <<topology, choice>>
    BY DEF LoadDone
  <1>3. LoadsKnow' /\ jobs' \in Seq(Job) /\ (Len(jobs) = 1 => jobs' = <<>>)
    BY <1>2, EndKeepsLoads
  <1>4. full \in Graphs /\ j.graph \in Graphs
    BY <1>1 DEF Job, ViewInv, ViewTypes
  <1>5. ViewTypes'
    <2>1. Isolated(j.choice.target, full) \in Graphs
      BY <1>4, Isolates
    <2>2. overlapped' \in BOOLEAN
      BY <1>2
    <2> QED BY <2>1, <2>2, <1>2, <1>3, <1>4 DEF ViewInv, ViewTypes
  <1>6. ASSUME ~overlapped' PROVE InOrder'
    <2>1. /\ j.alone /\ Len(jobs) = 1 /\ j.choice = choice
      <3>1. j.alone
        <4>1. CASE overlapped
          BY <4>1, <1>2, <1>6
        <4>2. CASE ~overlapped
          BY <4>2, <1>1 DEF ViewInv, InOrder
        <4> QED BY <4>1, <4>2
      <3> QED BY <3>1 DEF ViewInv, LoadsKnow
    <2>2. full = j.graph
      <3>1. CASE ~KeepsDrawing(j)
        BY <3>1
      <3>2. CASE KeepsDrawing(j)
        <4>1. ~overlapped /\ j.graph = fingerprint /\ j.choice.target = NoIsolation
          BY <1>2, <1>6, <3>2 DEF KeepsDrawing
        <4>2. drawn = Isolated(choice.target, fullGraph) /\ fingerprint = fullGraph
          BY <4>1, <1>1 DEF ViewInv, InOrder
        <4>3. fullGraph \in Graphs /\ NoIsolation \notin fullGraph.nodes
          BY ViewConstants DEF ViewInv, ViewTypes, Graphs
        <4> QED BY <4>1, <4>2, <4>3, <2>1, <3>2, Isolates
      <3> QED BY <3>1, <3>2
    <2>3. jobs' = <<>> /\ DOMAIN jobs' = {} /\ Len(jobs') = 0
      BY <1>3, <2>1
    <2> QED BY <1>1, <1>2, <2>1, <2>2, <2>3 DEF InOrder, Answers
  <1> QED
    BY <1>3, <1>5, <1>6 DEF ViewInv

LEMMA LoadFailedKeeps ==
    ASSUME ViewInv, NEW i \in DOMAIN jobs, LoadFailed(i)
    PROVE  ViewInv'
  <1>1. /\ jobs[i].kind = "load" /\ screen' = "error" /\ jobs' = RemoveAt(jobs, i)
        /\ UNCHANGED <<topology, choice, fullGraph, drawn, fingerprint, overlapped>>
    BY DEF LoadFailed
  <1>2. LoadsKnow' /\ jobs' \in Seq(Job) /\ (Len(jobs) = 1 => jobs' = <<>>)
    BY <1>1, EndKeepsLoads
  <1>3. ViewTypes'
    BY <1>1, <1>2 DEF ViewInv, ViewTypes
  <1>4. ASSUME ~overlapped PROVE InOrder'
    <2>1. InOrder /\ jobs[i].alone /\ drawn = Isolated(choice.target, fullGraph)
      BY <1>1, <1>4 DEF ViewInv, InOrder
    <2>2. Len(jobs) = 1
      BY <2>1 DEF ViewInv, LoadsKnow
    <2>3. jobs' = <<>> /\ DOMAIN jobs' = {} /\ Len(jobs') = 0
      BY <1>2, <2>2
    <2> QED BY <1>1, <2>1, <2>3 DEF InOrder
  <1> QED
    BY <1>1, <1>2, <1>3, <1>4 DEF ViewInv

LEMMA LayoutDoneKeeps ==
    ASSUME ViewInv, NEW i \in DOMAIN jobs, LayoutDone(i)
    PROVE  ViewInv'
  <1>1. /\ jobs[i].kind = "layout" /\ drawn' = jobs[i].graph /\ jobs' = RemoveAt(jobs, i)
        /\ UNCHANGED <<topology, choice, fullGraph, fingerprint, screen, overlapped>>
    BY DEF LayoutDone
  <1>2. LoadsKnow' /\ jobs' \in Seq(Job) /\ (Len(jobs) = 1 => jobs' = <<>>)
    BY <1>1, EndKeepsLoads
  <1>3. ViewTypes'
    <2>1. jobs[i] \in Job
      BY DEF ViewInv, ViewTypes
    <2> QED BY <2>1, <1>1, <1>2 DEF ViewInv, ViewTypes, Job
  <1>4. ASSUME ~overlapped PROVE InOrder'
    <2>1. /\ InOrder /\ Answers(choice, fullGraph)
          /\ jobs[i].graph = Isolated(choice.target, fullGraph)
      <3>1. InOrder /\ jobs[i].kind # "load"
        BY <1>1, <1>4 DEF ViewInv
      <3> QED BY <3>1 DEF InOrder
    <2>2. Len(jobs) = 1
      <3>1. jobs \in Seq(Job) /\ Len(jobs) <= 1
        BY <2>1 DEF ViewInv, ViewTypes, InOrder
      <3>2. i \in Int /\ 1 <= i /\ i <= Len(jobs) /\ Len(jobs) \in Nat
        BY <3>1
      <3>3. \A n \in Nat : n <= 1 /\ 1 <= i /\ i <= n => n = 1
        BY <3>2
      <3> QED BY <3>1, <3>2, <3>3
    <2>3. jobs' = <<>> /\ DOMAIN jobs' = {} /\ Len(jobs') = 0
      BY <1>2, <2>2
    <2> QED BY <1>1, <2>1, <2>3 DEF InOrder, Answers
  <1> QED
    BY <1>1, <1>2, <1>3, <1>4 DEF ViewInv

LEMMA ViewKept ==
    ASSUME ViewInv, ViewNext \/ UNCHANGED viewVars
    PROVE  ViewInv'
  <1>1. /\ choice \in ViewChoices /\ fullGraph \in Graphs /\ topology.graph \in Topologies
    BY DEF ViewInv, ViewTypes
  <1>2. ASSUME NEW t \in TeamChoices, ChooseTeam(t) PROVE ViewInv'
    <2>1. /\ choice' = [choice EXCEPT !.team = t] /\ Start(<<Load(choice', FALSE)>>)
          /\ UNCHANGED <<topology, fullGraph, drawn, fingerprint>>
      BY <1>2 DEF ChooseTeam
    <2>2. choice' \in ViewChoices /\ choice'.target = choice.target
      BY <2>1, <1>1 DEF ViewChoices
    <2> QED BY <2>1, <2>2, LoadStarted
  <1>3. ASSUME NEW n \in GraphNodes \cup {NoIsolation}, Isolate(n) PROVE ViewInv'
    BY <1>3, IsolateKeeps
  <1>4. CASE Reload
    BY <1>1, <1>4, LoadStarted DEF Reload
  <1>5. CASE Poll
    BY <1>1, <1>5, LoadStarted DEF Poll
  <1>6. ASSUME NEW g \in Topologies, ServerChange(g) PROVE ViewInv'
    BY <1>6 DEF ServerChange, ViewInv, ViewTypes, LoadsKnow, InOrder, Answers
  <1>7. ASSUME NEW i \in DOMAIN jobs, Fetched(i) \/ LoadDone(i) \/ LoadFailed(i) \/ LayoutDone(i)
        PROVE  ViewInv'
    BY <1>7, FetchedKeeps, LoadDoneKeeps, LoadFailedKeeps, LayoutDoneKeeps
  <1>8. CASE UNCHANGED viewVars
    BY <1>8 DEF viewVars, ViewInv, ViewTypes, LoadsKnow, InOrder, Answers
  <1> QED
    BY <1>2, <1>3, <1>4, <1>5, <1>6, <1>7, <1>8 DEF ViewNext

LEMMA ViewShows == ViewInv => ShownAsSelected
  <1> SUFFICES ASSUME ViewInv, jobs = <<>>, screen = "graph", ~overlapped
               PROVE  \E g \in Topologies : drawn = Picture(choice, g)
    BY DEF ShownAsSelected
  <1>1. drawn = Isolated(choice.target, fullGraph) /\ Answers(choice, fullGraph)
    BY DEF ViewInv, InOrder
  <1> QED BY <1>1 DEF Answers, Picture

----------------------------------------------------------------------------
(* The page of a team. *)

PageFields == {"shown", "loading", "fresh", "gone", "loads", "editOpen", "form", "deleteOpen", "calls"}
PageShape(p) ==
    /\ p = [f \in PageFields |-> p[f]] /\ p.fresh \in BOOLEAN /\ p.gone \in BOOLEAN
    /\ p.loads = [i \in TeamLoads |-> p.loads[i]]
    /\ \A i \in TeamLoads : p.loads[i] = TeamLoad("none") \/ p.loads[i].state # "none"

\* A fresh page has at most one load, which has not missed a change of the
\* team; without a load it shows the team.
Settled(p, team) ==
    p.fresh /\ ~p.gone =>
       /\ \A i, j \in TeamLoads :
             p.loads[i].state # "none" /\ p.loads[j].state # "none" => i = j
       /\ \A i \in TeamLoads :
             /\ p.loads[i].state \in {"none", "asked", "read", "failed"}
             /\ p.loads[i].state = "read" => p.loads[i].team = team
       /\ FreeLoads(p) = TeamLoads => p.shown = team
TeamInv == PageShape(teamPage) /\ Settled(teamPage, GetTeam)

LEMMA TeamStarts == TeamsInit => TeamInv
  <1> SUFFICES ASSUME TeamsInit PROVE TeamInv
    OBVIOUS
  <1> DEFINE loads == [i \in TeamLoads |-> TeamLoad(IF i = 1 THEN "asked" ELSE "none")]
  <1>1. teamPage = [shown |-> Nil, loading |-> TRUE, fresh |-> TRUE, gone |-> FALSE,
                    loads |-> loads, editOpen |-> FALSE, form |-> Nil, deleteOpen |-> FALSE,
                    calls |-> {}]
    BY DEF TeamsInit
  <1>2. 1 \in TeamLoads
    <2>1. MaxTeamLoads \in Nat \ {0}
      BY TeamConstants
    <2> QED BY <2>1 DEF TeamLoads
  <1>3. \A i \in TeamLoads : /\ i = 1 => loads[i].state = "asked"
                             /\ i # 1 => loads[i] = TeamLoad("none") /\ loads[i].state = "none"
    BY DEF TeamLoad
  <1>4. loads = [i \in TeamLoads |-> loads[i]]
    OBVIOUS
  <1> HIDE DEF loads
  <1>5. PageShape(teamPage)
    BY <1>1, <1>3, <1>4 DEF PageShape, PageFields
  <1>6. Settled(teamPage, GetTeam)
    <2>1. 1 \notin FreeLoads(teamPage)
      BY <1>1, <1>2, <1>3 DEF FreeLoads
    <2> QED BY <1>1, <1>2, <1>3, <2>1 DEF Settled
  <1> QED BY <1>5, <1>6 DEF TeamInv

\* What a load makes of the page: fresh if it is the only one, for any team.
LEMMA LoadSettles ==
    ASSUME NEW p, PageShape(p), FreeLoads(p) # {}, NEW team
    PROVE  PageShape(LoadTeam(p)) /\ Settled(LoadTeam(p), team)
  <1> DEFINE k == CHOOSE i \in FreeLoads(p) : TRUE
             u == Unmounted(p)
             q == LoadTeam(p)
             loads == [p.loads EXCEPT ![k] = TeamLoad("asked")]
  <1>1. k \in FreeLoads(p) /\ k \in TeamLoads
    BY DEF FreeLoads
  <1>2. /\ u = [f \in PageFields |-> u[f]] /\ u.loads = p.loads
    BY DEF Unmounted, PageShape, PageFields
  <1>3. q = [u EXCEPT !.loads = loads, !.loading = TRUE, !.fresh = FreeLoads(p) = TeamLoads]
    BY <1>2 DEF LoadTeam, PageFields
  <1> HIDE DEF k, u, q
  <1>4. /\ loads = [i \in TeamLoads |-> loads[i]] /\ loads[k].state = "asked"
        /\ \A i \in TeamLoads \ {k} : loads[i] = p.loads[i]
    BY <1>1 DEF PageShape, TeamLoad
  <1> HIDE DEF loads
  <1>5. /\ q = [f \in PageFields |-> q[f]] /\ q.loads = loads
        /\ q.fresh \in BOOLEAN /\ (q.fresh => FreeLoads(p) = TeamLoads)
    BY <1>2, <1>3 DEF PageFields
  <1>6. q.gone = p.gone
    <2>1. u.gone = p.gone
      BY DEF u, Unmounted, PageShape, PageFields
    <2> QED BY <2>1, <1>2, <1>3 DEF PageFields
  <1>7. PageShape(q)
    BY <1>4, <1>5, <1>6 DEF PageShape
  <1>8. ASSUME q.fresh
        PROVE  \A i \in TeamLoads : IF i = k THEN q.loads[i].state = "asked" ELSE q.loads[i].state = "none"
    BY <1>4, <1>5, <1>8 DEF FreeLoads
  <1>9. ASSUME q.fresh PROVE FreeLoads(q) # TeamLoads
    BY <1>1, <1>8, <1>9 DEF FreeLoads
  <1>10. Settled(q, team)
    BY <1>8, <1>9 DEF Settled
  <1> QED BY <1>7, <1>10 DEF q

\* A step that changes only fields which the invariant does not look at.
Alike(p, q) ==
    /\ q = [f \in PageFields |-> q[f]]
    /\ \A f \in {"shown", "fresh", "gone", "loads"} : q[f] = p[f]
LEMMA AlikeKeeps ==
    ASSUME TeamInv, Alike(teamPage, teamPage'), GetTeam' = GetTeam
    PROVE  TeamInv'
  <1>1. PageShape(teamPage')
    BY DEF TeamInv, Alike, PageShape
  <1>2. Settled(teamPage', GetTeam)
    BY DEF TeamInv, Alike, Settled, FreeLoads
  <1> QED BY <1>1, <1>2 DEF TeamInv

LEMMA ReadKeeps ==
    ASSUME TeamInv, NEW i \in TeamLoads, ReadTeam(i)
    PROVE  TeamInv'
  <1>1. UNCHANGED GetTeam
    BY DEF ReadTeam, ToTeam, GetTeam, teamRows
  <1>2. PICK l \in {[state |-> "read", team |-> GetTeam], TeamLoad("failed")} :
            teamPage' = [teamPage EXCEPT !.loads[i] = l]
    BY DEF ReadTeam, ToTeam
  <1>3. teamPage.loads[i].state = "asked"
    BY DEF ReadTeam
  <1>4. l.state \in {"read", "failed"} /\ (l.state = "read" => l.team = GetTeam)
    BY DEF TeamLoad
  <1> DEFINE loads == [teamPage.loads EXCEPT ![i] = l]
  <1>5. teamPage' = [teamPage EXCEPT !.loads = loads]
    BY <1>2
  <1>6. /\ loads = [k \in TeamLoads |-> loads[k]]
        /\ \A k \in TeamLoads : loads[k] = IF k = i THEN l ELSE teamPage.loads[k]
    BY DEF TeamInv, PageShape
  <1> HIDE DEF loads
  <1>7. /\ teamPage' = [f \in PageFields |-> teamPage'[f]] /\ teamPage'.loads = loads
        /\ \A f \in PageFields \ {"loads"} : teamPage'[f] = teamPage[f]
    BY <1>5 DEF TeamInv, PageShape, PageFields
  <1>8. PageShape(teamPage')
    BY <1>4, <1>6, <1>7 DEF TeamInv, PageShape, PageFields
  <1>9. Settled(teamPage', GetTeam)
    <2> SUFFICES ASSUME teamPage'.fresh, ~teamPage'.gone
                 PROVE  /\ \A k, m \in TeamLoads :
                              teamPage'.loads[k].state # "none" /\ teamPage'.loads[m].state # "none" => k = m
                        /\ \A k \in TeamLoads :
                              /\ teamPage'.loads[k].state \in {"none", "asked", "read", "failed"}
                              /\ teamPage'.loads[k].state = "read" => teamPage'.loads[k].team = GetTeam
                        /\ FreeLoads(teamPage') # TeamLoads
      BY DEF Settled
    <2>1. teamPage.fresh /\ ~teamPage.gone
      BY <1>7 DEF PageFields
    <2>2. FreeLoads(teamPage') # TeamLoads
      BY <1>4, <1>6, <1>7 DEF FreeLoads
    <2> QED BY <2>1, <2>2, <1>3, <1>4, <1>6, <1>7 DEF TeamInv, Settled
  <1> QED BY <1>1, <1>8, <1>9 DEF TeamInv

LEMMA GotKeeps ==
    ASSUME TeamInv, NEW i \in TeamLoads, GotTeam(i)
    PROVE  TeamInv'
  <1> DEFINE answer == teamPage.loads[i]
             loads == [teamPage.loads EXCEPT ![i] = TeamLoad("none")]
             p == [teamPage EXCEPT !.loads[i] = TeamLoad("none"), !.loading = FALSE,
                     !.shown = IF answer.state = "failed" THEN @ ELSE answer.team,
                     !.fresh = @ /\ answer.state # "failed"]
  <1>1. /\ answer.state \in {"read", "failed"} /\ UNCHANGED GetTeam
        /\ teamPage' = IF p.editOpen /\ p.form = Nil
                       THEN [p EXCEPT !.form = FormOfTeam(p.shown.row)] ELSE p
    BY DEF GotTeam, ToTeam, GetTeam, teamRows
  <1>2. /\ p = [f \in PageFields |-> p[f]] /\ p.loads = loads /\ p.gone = teamPage.gone
        /\ p.shown = IF answer.state = "failed" THEN teamPage.shown ELSE answer.team
        /\ p.fresh \in BOOLEAN /\ (p.fresh => teamPage.fresh /\ answer.state # "failed")
    <2>1. p = [teamPage EXCEPT !.loads = loads, !.loading = FALSE,
                 !.shown = IF answer.state = "failed" THEN @ ELSE answer.team,
                 !.fresh = @ /\ answer.state # "failed"]
      BY DEF TeamInv, PageShape, PageFields
    <2> HIDE DEF p, loads, answer
    <2> QED BY <2>1 DEF TeamInv, PageShape, PageFields
  <1>3. /\ loads = [k \in TeamLoads |-> loads[k]]
        /\ \A k \in TeamLoads : loads[k] = IF k = i THEN TeamLoad("none") ELSE teamPage.loads[k]
    BY DEF TeamInv, PageShape
  <1> HIDE DEF p, loads
  <1>4. /\ teamPage' = [f \in PageFields |-> teamPage'[f]]
        /\ \A f \in PageFields \ {"form"} : teamPage'[f] = p[f]
    BY <1>1, <1>2 DEF PageFields
  <1>5. PageShape(teamPage')
    BY <1>2, <1>3, <1>4 DEF TeamInv, PageShape, PageFields
  <1>6. Settled(teamPage', GetTeam)
    <2> SUFFICES ASSUME teamPage'.fresh, ~teamPage'.gone
                 PROVE  (\A k \in TeamLoads : teamPage'.loads[k].state = "none") /\ teamPage'.shown = GetTeam
      BY DEF Settled
    <2>1. teamPage.fresh /\ ~teamPage.gone /\ answer.state = "read"
      BY <1>1, <1>2, <1>4 DEF PageFields
    <2>2. /\ \A k \in TeamLoads : teamPage.loads[k].state # "none" => k = i
          /\ answer.team = GetTeam
      BY <2>1 DEF TeamInv, Settled
    <2>3. TeamLoad("none").state = "none"
      BY DEF TeamLoad
    <2> QED BY <2>1, <2>2, <2>3, <1>2, <1>3, <1>4 DEF PageFields
  <1> QED BY <1>1, <1>5, <1>6 DEF TeamInv

\* A change made on the page loads it again.
LEMMA ReloadKeeps ==
    ASSUME NEW p, PageShape(p), FreeLoads(p) # {}, teamPage' = LoadTeam(p)
    PROVE  TeamInv'
  <1> DEFINE now == GetTeam'
  <1> HIDE DEF now
  <1>1. PageShape(LoadTeam(p)) /\ Settled(LoadTeam(p), now)
    BY LoadSettles
  <1> QED BY <1>1 DEF TeamInv, now

LEMMA UpdateKeeps ==
    ASSUME TeamInv, NEW c \in teamPage.calls, UpdateTeam(c)
    PROVE  TeamInv'
  <1>1. CASE teamRow # Nil /\ MayStore(c.sent, otherRow)
    <2> DEFINE p == [teamPage EXCEPT !.calls = @ \ {c}, !.editOpen = FALSE]
    <2>1. teamPage' = LoadTeam(p) /\ FreeLoads(teamPage) # {}
      BY <1>1 DEF UpdateTeam, SaveDone, RoomForLoad
    <2>2. /\ p = [f \in PageFields |-> p[f]]
          /\ \A f \in {"shown", "fresh", "gone", "loads"} : p[f] = teamPage[f]
      BY DEF TeamInv, PageShape, PageFields
    <2> HIDE DEF p
    <2>3. PageShape(p) /\ FreeLoads(p) # {}
      BY <2>1, <2>2 DEF TeamInv, PageShape, FreeLoads
    <2> QED BY <2>1, <2>3, ReloadKeeps
  <1>2. CASE ~(teamRow # Nil /\ MayStore(c.sent, otherRow))
    <2>1. teamPage' = SaveRefused(teamPage, c) /\ GetTeam' = GetTeam
      BY <1>2 DEF UpdateTeam, GetTeam
    <2>2. Alike(teamPage, teamPage')
      BY <2>1 DEF SaveRefused, Alike, TeamInv, PageShape, PageFields
    <2> QED BY <2>1, <2>2, AlikeKeeps
  <1> QED BY <1>1, <1>2

LEMMA DeleteKeeps ==
    ASSUME TeamInv, NEW c \in teamPage.calls, DeleteTeam(c)
    PROVE  TeamInv'
  <1> DEFINE p == DeleteRefused(teamPage, c)
  <1>1. /\ p = [f \in PageFields |-> p[f]]
        /\ \A f \in {"shown", "fresh", "gone", "loads"} : p[f] = teamPage[f]
    BY DEF DeleteRefused, TeamInv, PageShape, PageFields
  <1> HIDE DEF p
  <1>2. CASE teamPage' = [p EXCEPT !.gone = TRUE]
    <2>1. /\ teamPage' = [f \in PageFields |-> teamPage'[f]] /\ teamPage'.gone
          /\ teamPage'.gone \in BOOLEAN
          /\ \A f \in {"fresh", "loads"} : teamPage'[f] = teamPage[f]
      BY <1>1, <1>2 DEF PageFields
    <2>2. PageShape(teamPage')
      BY <2>1 DEF TeamInv, PageShape
    <2>3. Settled(teamPage', GetTeam')
      BY <2>1 DEF Settled
    <2> QED BY <2>2, <2>3 DEF TeamInv
  <1>3. CASE teamPage' = p /\ GetTeam' = GetTeam
    <2>1. Alike(teamPage, teamPage')
      BY <1>1, <1>3 DEF Alike
    <2> QED BY <2>1, <1>3, AlikeKeeps
  <1> QED
    BY <1>2, <1>3 DEF DeleteTeam, GetTeam, p

\* What other clients do makes the page miss something.
LEMMA MissedKeeps ==
    ASSUME TeamInv, teamPage' = [teamPage EXCEPT !.fresh = FALSE]
    PROVE  TeamInv'
  <1>1. /\ teamPage' = [f \in PageFields |-> teamPage'[f]] /\ ~teamPage'.fresh
        /\ teamPage'.fresh \in BOOLEAN
        /\ \A f \in {"gone", "loads"} : teamPage'[f] = teamPage[f]
    BY DEF TeamInv, PageShape, PageFields
  <1>2. PageShape(teamPage')
    BY <1>1 DEF TeamInv, PageShape
  <1> QED BY <1>1, <1>2 DEF TeamInv, Settled

LEMMA ServeKeeps ==
    ASSUME TeamInv, NEW c \in memberPanel.calls, ServeMember(c)
    PROVE  TeamInv'
  <1>1. CASE MayServe(c)
    <2>1. teamPage' = LoadTeam(teamPage) /\ FreeLoads(teamPage) # {}
      BY <1>1 DEF ServeMember, RoomForLoad
    <2> QED BY <2>1, ReloadKeeps DEF TeamInv
  <1>2. CASE ~MayServe(c)
    <2>1. teamPage' = teamPage /\ GetTeam' = GetTeam
      BY <1>2 DEF ServeMember, GetTeam
    <2> QED BY <2>1 DEF TeamInv
  <1> QED BY <1>1, <1>2

\* A step of the page that touches neither the rows nor its loads.
LEMMA DialogKeeps ==
    ASSUME TeamInv, OpenEdit \/ CloseEdit \/ FillTeamForm \/ SubmitTeam
                    \/ OpenDelete \/ CloseTeamDelete \/ ConfirmTeamDelete
    PROVE  TeamInv'
  <1> USE DEF ToTeam, Alike, TeamInv, PageShape, PageFields
  <1>1. GetTeam' = GetTeam
    BY DEF OpenEdit, CloseEdit, FillTeamForm, SubmitTeam, OpenDelete, CloseTeamDelete,
           ConfirmTeamDelete, GetTeam, teamRows
  <1>2. Alike(teamPage, teamPage')
    <2>1. CASE OpenEdit
      BY <2>1 DEF OpenEdit
    <2>2. CASE CloseEdit
      BY <2>2 DEF CloseEdit, Unmounted
    <2>3. CASE FillTeamForm
      BY <2>3 DEF FillTeamForm
    <2>4. CASE SubmitTeam
      BY <2>4 DEF SubmitTeam
    <2>5. CASE OpenDelete
      BY <2>5 DEF OpenDelete
    <2>6. CASE CloseTeamDelete
      BY <2>6 DEF CloseTeamDelete
    <2>7. CASE ConfirmTeamDelete
      BY <2>7 DEF ConfirmTeamDelete
    <2> QED BY <2>1, <2>2, <2>3, <2>4, <2>5, <2>6, <2>7
  <1> HIDE DEF Alike, TeamInv
  <1> QED BY <1>1, <1>2, AlikeKeeps

\* A step that leaves the page, the team and its members alone.
LEMMA AsideKeeps ==
    ASSUME TeamInv, UNCHANGED <<teamPage, teamRow, memberOf>>
    PROVE  TeamInv'
  BY DEF TeamInv, GetTeam, Settled, PageShape, FreeLoads

LEMMA RetryKeeps == ASSUME TeamInv, Retry PROVE TeamInv'
  BY ReloadKeeps DEF Retry, RoomForLoad, ToTeam, TeamInv

LEMMA TeamFailKeeps ==
    ASSUME TeamInv, NEW c \in teamPage.calls, TeamCallFails(c)
    PROVE  TeamInv'
  <1>1. GetTeam' = GetTeam
    BY DEF TeamCallFails, ToTeam, GetTeam, teamRows
  <1>2. Alike(teamPage, teamPage')
    BY DEF TeamCallFails, ToTeam, SaveRefused, DeleteRefused, Alike, TeamInv, PageShape, PageFields
  <1> QED BY <1>1, <1>2, AlikeKeeps

LEMMA TeamStepKeeps == ASSUME TeamInv, TeamNext PROVE TeamInv'
  <1>1. ASSUME NEW i \in TeamLoads, ReadTeam(i) \/ GotTeam(i) PROVE TeamInv'
    BY <1>1, ReadKeeps, GotKeeps
  <1>2. ASSUME NEW c \in teamPage.calls, UpdateTeam(c) \/ DeleteTeam(c) \/ TeamCallFails(c)
        PROVE  TeamInv'
    BY <1>2, UpdateKeeps, DeleteKeeps, TeamFailKeeps
  <1>3. CASE TeamElsewhere
    BY <1>3, MissedKeeps DEF TeamElsewhere
  <1> QED
    BY <1>1, <1>2, <1>3, RetryKeeps, DialogKeeps DEF TeamNext

LEMMA PanelKeeps ==
    ASSUME TeamInv, ChooseMember \/ HandleAddMember
                    \/ \E u : HandleToggleRole(u) \/ HandleRemoveMember(u)
    PROVE  TeamInv'
  <1>1. UNCHANGED <<teamPage, teamRow, memberOf>>
    BY DEF ChooseMember, HandleAddMember, HandleToggleRole, HandleRemoveMember, StartMember,
           ToPanel, teamRows
  <1> QED BY <1>1, AsideKeeps

LEMMA MemberCallsKeep == ASSUME TeamInv, MemberCalls PROVE TeamInv'
  <1>1. ASSUME NEW c \in memberPanel.calls, MemberCallFails(c) PROVE TeamInv'
    BY <1>1, AsideKeeps DEF MemberCallFails, ToPanel, teamRows
  <1> QED BY <1>1, ServeKeeps DEF MemberCalls

LEMMA MembersStepKeeps == ASSUME TeamInv, MembersNext PROVE TeamInv'
  <1>1. ASSUME NEW i \in TeamLoads, ReadTeam(i) \/ GotTeam(i) PROVE TeamInv'
    BY <1>1, ReadKeeps, GotKeeps
  <1>2. CASE MemberElsewhere
    BY <1>2, MissedKeeps DEF MemberElsewhere
  <1> QED
    BY <1>1, <1>2, RetryKeeps, PanelKeeps, MemberCallsKeep DEF MembersNext

LEMMA TeamsStepKeeps == ASSUME TeamInv, TeamsNext PROVE TeamInv'
  <1>1. UNCHANGED <<teamPage, teamRow, memberOf>>
    BY DEF TeamsNext, RetryTeams, ReadTeams, GotTeams, OpenAdd, CloseAdd, FillNewTeam,
           SubmitNewTeam, CreateTeam, NewTeamFails, OtherElsewhere, ToList, teamRows
  <1> QED BY <1>1, AsideKeeps

LEMMA TeamShows == TeamInv => OwnChangesShown
  BY DEF TeamInv, Settled, OwnChangesShown

----------------------------------------------------------------------------
(* The types of the drift review. *)

OpenKinds == {"accept", "dismiss", "reopen"}
FlagRequest == [kind : {Idle} \cup OpenKinds, flags : SUBSET FlagIds, view : Open]
InFlight(list, one, many) == Len(list) + Pending(one) + Pending(many) <= MaxFlying
ReviewTypes ==
    /\ flagStatus \in [FlagIds -> FlagStatus] /\ elsewhere \in 0..MaxElsewhere
    /\ page \in Page /\ ticked \in SUBSET FlagIds /\ seen \in SUBSET FlagIds
    /\ dialog \in {Idle, "accept", "dismiss"} /\ listing \in Seq(Listing)
    /\ single \in FlagRequest /\ bulk \in FlagRequest
    /\ single # NoSingle => single.kind # Idle /\ \E f \in FlagIds : single.flags = {f}
    /\ bulk # NoBulk => bulk.kind # Idle
    /\ InFlight(listing, single, bulk)

LEMMA NoRequest ==
    /\ NoSingle \in FlagRequest /\ NoBulk \in FlagRequest
    /\ Pending(NoSingle) = 0 /\ Pending(NoBulk) = 0
    /\ \A sent : Pending(sent) \in {0, 1}
    /\ \A sent : sent.flags # {} => Pending(sent) = 1
    /\ \A sent : sent.flags = {} => Pending(sent) = 0
  <1>1. NoSingle \in FlagRequest /\ NoBulk \in FlagRequest
        /\ NoSingle.flags = {} /\ NoBulk.flags = {}
    BY DEF NoSingle, NoBulk, FlagRequest, Open
  <1> QED BY <1>1 DEF Pending

LEMMA ShownTyped ==
    ASSUME NEW p \in Page
    PROVE  /\ Shown(p) \in SUBSET FlagIds /\ Filtered(p) \in SUBSET FlagIds
           /\ \A v \in Open : Loading([p EXCEPT !.view = v]) \in Page
           /\ \A t \in Filters : [p EXCEPT !.filter = t] \in Page
           /\ Loading(p) \in Page
           /\ \A failed \in BOOLEAN : [p EXCEPT !.failed = failed] \in Page
  <1>1. Shown(p) \in SUBSET FlagIds /\ Filtered(p) \in SUBSET FlagIds
    BY DEF Shown, Filtered, Page
  <1>2. ASSUME NEW v \in Open PROVE Loading([p EXCEPT !.view = v]) \in Page
    BY DEF Loading, Page
  <1>3. ASSUME NEW t \in Filters PROVE [p EXCEPT !.filter = t] \in Page
    BY DEF Page
  <1>4. Loading(p) \in Page
    BY DEF Loading, Page
  <1>5. ASSUME NEW failed \in BOOLEAN PROVE [p EXCEPT !.failed = failed] \in Page
    BY DEF Page
  <1> QED BY <1>1, <1>2, <1>3, <1>4, <1>5

LEMMA LookTyped ==
    ASSUME seen \in SUBSET FlagIds, NEW p \in Page, Look(p)
    PROVE  page' \in Page /\ seen' \in SUBSET FlagIds
  BY ShownTyped DEF Look

LEMMA RequestTyped ==
    ASSUME NEW list \in Seq(Listing), NEW view \in Open, NEW ofBulk \in BOOLEAN
    PROVE  /\ Append(list, Request(view, ofBulk)) \in Seq(Listing)
           /\ Len(Append(list, Request(view, ofBulk))) = Len(list) + 1
  <1>1. Request(view, ofBulk) \in Listing
    BY DEF Request, Listing
  <1> QED BY <1>1

LEMMA ActedTyped ==
    ASSUME flagStatus \in [FlagIds -> FlagStatus], NEW kind \in OpenKinds, NEW flags
    PROVE  Acted(kind, flags) \in [FlagIds -> FlagStatus]
  <1>1. ASSUME NEW f \in FlagIds
        PROVE  (IF f \in flags /\ flagStatus[f] \in Open
                THEN CASE kind = "accept" -> "closed" [] kind = "dismiss" -> "dismissed"
                       [] kind = "reopen" -> "pending"
                ELSE flagStatus[f]) \in FlagStatus
    BY DEF OpenKinds, FlagStatus, Open
  <1> QED BY <1>1 DEF Acted

LEMMA ReviewTypesStart == ReviewInit => ReviewTypes
  <1> SUFFICES ASSUME ReviewInit PROVE ReviewTypes
    OBVIOUS
  <1> DEFINE view == "pending"
             ofBulk == FALSE
             sent == Request(view, ofBulk)
  <1>1. sent \in Listing
    BY DEF Request, Listing, Open
  <1>2. listing = <<sent>> /\ single = NoSingle /\ bulk = NoBulk
    BY DEF ReviewInit
  <1> HIDE DEF sent
  <1>3. listing \in Seq(Listing) /\ Len(listing) = 1
    BY <1>1, <1>2
  <1>4. MaxFlying \in Nat \ {0} /\ MaxElsewhere \in Nat /\ AllTypes \in Filters
    BY ReviewConstants
  <1>5. InFlight(listing, single, bulk)
    BY <1>2, <1>3, <1>4, NoRequest DEF InFlight
  <1>6. page \in Page
    BY <1>4 DEF ReviewInit, Page, Open
  <1>7. flagStatus \in [FlagIds -> FlagStatus] /\ elsewhere \in 0..MaxElsewhere
    BY <1>4 DEF ReviewInit, FlagStatus, Open
  <1>8. ticked = {} /\ seen = {} /\ dialog = Idle
    BY DEF ReviewInit
  <1> QED BY <1>2, <1>3, <1>5, <1>6, <1>7, <1>8, NoRequest DEF ReviewTypes

LEMMA ReviewTypesKept ==
    ASSUME ReviewTypes, ReviewNext \/ UNCHANGED reviewVars
    PROVE  ReviewTypes'
  <1>1. /\ flagStatus \in [FlagIds -> FlagStatus] /\ page \in Page /\ seen \in SUBSET FlagIds
        /\ ticked \in SUBSET FlagIds /\ listing \in Seq(Listing) /\ Len(listing) \in Nat
        /\ page.view \in Open /\ InFlight(listing, single, bulk)
        /\ single \in FlagRequest /\ bulk \in FlagRequest
        /\ MaxFlying \in Nat
    BY ReviewConstants DEF ReviewTypes, Page
  <1>2. /\ Pending(single) \in {0, 1} /\ Pending(bulk) \in {0, 1}
        /\ Pending(NoSingle) = 0 /\ Pending(NoBulk) = 0
        /\ NoSingle \in FlagRequest /\ NoBulk \in FlagRequest
    BY NoRequest
  <1>3. ASSUME NEW v \in Open, SetView(v) PROVE ReviewTypes'
    <2> DEFINE p == Loading([page EXCEPT !.view = v])
               ofBulk == FALSE
               more == Append(listing, Request(v, ofBulk))
    <2>1. /\ page' = p /\ seen' = Shown(p) /\ ticked' = {} /\ listing' = more /\ MaySend
          /\ UNCHANGED <<flagStatus, elsewhere, dialog, single, bulk>>
      BY <1>3 DEF SetView
    <2>2. p \in Page
      BY <1>1, ShownTyped
    <2>3. ofBulk \in BOOLEAN
      OBVIOUS
    <2> HIDE DEF p, ofBulk
    <2>4. Shown(p) \in SUBSET FlagIds
      BY <2>2, ShownTyped
    <2>5. more \in Seq(Listing) /\ Len(more) = Len(listing) + 1
      BY <1>1, <2>3, RequestTyped
    <2> HIDE DEF more
    <2>6. InFlight(listing', single', bulk')
      BY <1>1, <1>2, <2>1, <2>5 DEF InFlight, MaySend
    <2> QED BY <2>1, <2>2, <2>4, <2>5, <2>6 DEF ReviewTypes
  <1>4. ASSUME NEW p \in Page, Look(p),
               UNCHANGED <<flagStatus, elsewhere, ticked, dialog, listing, single, bulk>>
        PROVE  ReviewTypes'
    BY <1>1, <1>4, LookTyped DEF ReviewTypes
  <1>5. ASSUME NEW t \in Filters, SetFilter(t) PROVE ReviewTypes'
    <2>1. [page EXCEPT !.filter = t] \in Page
      BY <1>1, ShownTyped
    <2> QED BY <1>4, <1>5, <2>1 DEF SetFilter
  <1>6. ASSUME NEW f \in FlagIds, Toggle(f) PROVE ReviewTypes'
    BY <1>1, <1>6 DEF Toggle, ReviewTypes
  <1>7. CASE SelectAll
    <2>1. ticked' \in SUBSET FlagIds
      BY <1>1, <1>7, ShownTyped DEF SelectAll, Selection
    <2> QED BY <1>7, <2>1 DEF SelectAll, ReviewTypes
  <1>8. ASSUME NEW f \in FlagIds, NEW kind \in OpenKinds, Click(f, kind) PROVE ReviewTypes'
    <2>1. /\ single' = [kind |-> kind, flags |-> {f}, view |-> page.view] /\ MaySend
          /\ UNCHANGED <<flagStatus, elsewhere, page, ticked, dialog, listing, bulk, seen>>
      BY <1>8 DEF Click
    <2>2. single' \in FlagRequest /\ single'.kind # Idle /\ single'.flags = {f}
      BY <1>1, <2>1 DEF FlagRequest, OpenKinds, Idle
    <2>3. single = NoSingle
      BY <1>8 DEF Click
    <2>4. Pending(single') = 1
      BY <2>2, NoRequest
    <2>5. InFlight(listing', single', bulk')
      BY <1>1, <1>2, <2>1, <2>3, <2>4 DEF InFlight, MaySend
    <2> QED BY <2>1, <2>2, <2>5 DEF ReviewTypes
  <1>9. ASSUME NEW kind \in {"accept", "dismiss"}, OpenDialog(kind) PROVE ReviewTypes'
    BY <1>9 DEF OpenDialog, ReviewTypes
  <1>10. CASE CloseDialog
    BY <1>10 DEF CloseDialog, ReviewTypes
  <1>11. CASE Confirm
    <2> DEFINE p == [page EXCEPT !.failed = FALSE]
    <2>1. /\ bulk' = [kind |-> dialog, flags |-> ticked, view |-> page.view] /\ MaySend
          /\ dialog # Idle /\ ticked # {} /\ bulk = NoBulk /\ Look(p)
          /\ UNCHANGED <<flagStatus, elsewhere, ticked, dialog, listing, single>>
      BY <1>11 DEF Confirm
    <2>2. p \in Page
      BY <1>1, ShownTyped
    <2> HIDE DEF p
    <2>3. page' \in Page /\ seen' \in SUBSET FlagIds
      BY <1>1, <2>1, <2>2, LookTyped
    <2>4. dialog \in {"accept", "dismiss"}
      BY <2>1 DEF ReviewTypes
    <2>5. bulk' \in FlagRequest /\ bulk'.kind # Idle /\ bulk'.flags # {}
      BY <1>1, <2>1, <2>4 DEF FlagRequest, OpenKinds, Idle
    <2>6. Pending(bulk') = 1
      BY <2>5, NoRequest
    <2>7. InFlight(listing', single', bulk')
      BY <1>1, <1>2, <2>1, <2>6 DEF InFlight, MaySend
    <2> QED BY <2>1, <2>3, <2>5, <2>7 DEF ReviewTypes
  <1>12. CASE ClearError
    <2>1. [page EXCEPT !.failed = FALSE] \in Page
      BY <1>1, ShownTyped
    <2> QED BY <1>4, <1>12, <2>1 DEF ClearError
  <1>13. CASE SingleDone
    <2> DEFINE f == CHOOSE x \in single.flags : TRUE
               ofBulk == FALSE
               more == Append(listing, Request(single.view, ofBulk))
               failing == [page EXCEPT !.failed = TRUE]
    <2>1. /\ single # NoSingle /\ single' = NoSingle /\ UNCHANGED <<elsewhere, ticked, dialog, bulk>>
          /\ \/ flagStatus' = Acted(single.kind, {f}) /\ listing' = more /\ Look(Loading(page))
             \/ UNCHANGED <<flagStatus, listing>> /\ Look(failing)
      BY <1>13 DEF SingleDone
    <2>2. single.kind \in OpenKinds /\ single.view \in Open /\ single.flags # {}
      BY <2>1 DEF ReviewTypes, FlagRequest
    <2>3. Pending(single) = 1
      BY <2>2, NoRequest
    <2>4. Loading(page) \in Page /\ failing \in Page /\ ofBulk \in BOOLEAN
      BY <1>1, ShownTyped
    <2> HIDE DEF f, ofBulk, failing
    <2>5. more \in Seq(Listing) /\ Len(more) = Len(listing) + 1
      BY <1>1, <2>2, <2>4, RequestTyped
    <2> HIDE DEF more
    <2>6. page' \in Page /\ seen' \in SUBSET FlagIds
      BY <1>1, <2>1, <2>4, LookTyped
    <2>7. flagStatus' \in [FlagIds -> FlagStatus]
      BY <1>1, <2>1, <2>2, ActedTyped
    <2>8. listing' \in Seq(Listing) /\ InFlight(listing', single', bulk')
      BY <1>1, <1>2, <2>1, <2>3, <2>5 DEF InFlight
    <2> QED BY <1>2, <2>1, <2>6, <2>7, <2>8 DEF ReviewTypes
  <1>14. CASE BulkDone
    <2> DEFINE ofBulk == TRUE
               more == Append(listing, Request(bulk.view, ofBulk))
               failing == [page EXCEPT !.failed = TRUE]
               done == [bulk EXCEPT !.flags = {}]
    <2>1. /\ bulk # NoBulk /\ bulk.flags # {} /\ UNCHANGED <<elsewhere, single>>
          /\ \/ /\ flagStatus' = Acted(bulk.kind, bulk.flags) /\ ticked' = {}
                /\ listing' = more /\ bulk' = done /\ Look(Loading(page)) /\ UNCHANGED dialog
             \/ /\ bulk' = NoBulk /\ dialog' = Idle /\ Look(failing)
                /\ UNCHANGED <<flagStatus, ticked, listing>>
      BY <1>14 DEF BulkDone
    <2>2. bulk.kind \in OpenKinds /\ bulk.view \in Open
      BY <2>1 DEF ReviewTypes, FlagRequest
    <2>3. Pending(bulk) = 1
      BY <2>1, NoRequest
    <2>4. Loading(page) \in Page /\ failing \in Page /\ ofBulk \in BOOLEAN
      BY <1>1, ShownTyped
    <2>5. done \in FlagRequest /\ done.kind = bulk.kind /\ done.flags = {} /\ done.kind # Idle
      BY <1>1, <2>2 DEF FlagRequest, OpenKinds, Idle
    <2> HIDE DEF ofBulk, failing, done
    <2>6. more \in Seq(Listing) /\ Len(more) = Len(listing) + 1
      BY <1>1, <2>2, <2>4, RequestTyped
    <2> HIDE DEF more
    <2>7. page' \in Page /\ seen' \in SUBSET FlagIds
      BY <1>1, <2>1, <2>4, LookTyped
    <2>8. flagStatus' \in [FlagIds -> FlagStatus]
      BY <1>1, <2>1, <2>2, ActedTyped
    <2>9. Pending(bulk') = 0 /\ bulk' \in FlagRequest /\ (bulk' # NoBulk => bulk'.kind # Idle)
      BY <1>2, <2>1, <2>5, NoRequest
    <2>10. listing' \in Seq(Listing) /\ InFlight(listing', single', bulk')
      BY <1>1, <1>2, <2>1, <2>3, <2>6, <2>9 DEF InFlight
    <2>11. ticked' \in SUBSET FlagIds /\ dialog' \in {Idle, "accept", "dismiss"}
      BY <1>1, <2>1 DEF ReviewTypes
    <2> QED BY <2>1, <2>7, <2>8, <2>9, <2>10, <2>11 DEF ReviewTypes
  <1>15. ASSUME NEW i \in DOMAIN listing, ListRead(i) PROVE ReviewTypes'
    <2> DEFINE answer == {f \in FlagIds : flagStatus[f] = listing[i].view}
               now == [listing[i] EXCEPT !.read = TRUE, !.answer = answer]
    <2>1. /\ listing' = [listing EXCEPT ![i].read = TRUE, ![i].answer = answer]
          /\ UNCHANGED <<flagStatus, elsewhere, page, ticked, dialog, single, bulk, seen>>
      BY <1>15 DEF ListRead
    <2>2. answer \in SUBSET FlagIds /\ listing[i] \in Listing
      BY <1>1
    <2> HIDE DEF answer
    <2>3. now \in Listing
      BY <2>2 DEF Listing
    <2>4. listing' = [listing EXCEPT ![i] = now]
      BY <1>1, <2>1
    <2> HIDE DEF now
    <2>5. listing' \in Seq(Listing) /\ Len(listing') = Len(listing)
      BY <1>1, <2>3, <2>4
    <2>6. InFlight(listing', single', bulk')
      BY <1>1, <2>1, <2>5 DEF InFlight
    <2> QED BY <2>1, <2>5, <2>6 DEF ReviewTypes
  <1>16. ASSUME NEW i \in DOMAIN listing, ListDone(i) PROVE ReviewTypes'
    <2> DEFINE got == [page EXCEPT !.list = listing[i].answer, !.loading = FALSE]
               failing == [page EXCEPT !.failed = TRUE, !.loading = FALSE]
    <2>1. /\ Look(got) \/ Look(failing)
          /\ bulk' \in {NoBulk, bulk}
          /\ dialog' \in {Idle, dialog}
          /\ listing' = RemoveAt(listing, i)
          /\ UNCHANGED <<flagStatus, elsewhere, ticked, single>>
      <3>1. Look(got) \/ Look(failing)
        BY <1>16 DEF ListDone
      <3>2. /\ bulk' = IF listing[i].bulk THEN NoBulk ELSE bulk
            /\ dialog' = IF listing[i].bulk THEN Idle ELSE dialog
            /\ listing' = RemoveAt(listing, i)
            /\ UNCHANGED <<flagStatus, elsewhere, ticked, single>>
        BY <1>16 DEF ListDone
      <3> HIDE DEF got, failing
      <3>3. bulk' \in {NoBulk, bulk}
        BY <3>2
      <3>4. dialog' \in {Idle, dialog}
        BY <3>2
      <3> QED BY <3>1, <3>2, <3>3, <3>4
    <2>2. got \in Page /\ failing \in Page
      <3>1. listing[i] \in Listing
        BY <1>1
      <3>2. listing[i].answer \in SUBSET FlagIds
        BY <3>1 DEF Listing
      <3> QED BY <1>1, <3>2 DEF Page
    <2> HIDE DEF got, failing
    <2>3. page' \in Page /\ seen' \in SUBSET FlagIds
      BY <1>1, <2>1, <2>2, LookTyped
    <2>4. i \in 1..Len(listing)
      BY <1>1
    <2>5. listing' \in Seq(Listing) /\ Len(listing') = Len(listing) - 1
      BY <1>1, <2>1, <2>4, Removed
    <2>6. Pending(bulk') \in {0, Pending(bulk)} /\ bulk' \in FlagRequest
      BY <1>1, <1>2, <2>1
    <2>7. InFlight(listing', single', bulk')
      BY <1>1, <1>2, <2>1, <2>5, <2>6 DEF InFlight
    <2> QED BY <2>1, <2>3, <2>5, <2>6, <2>7 DEF ReviewTypes
  <1>17. ASSUME NEW f \in FlagIds, NEW status \in FlagStatus, Elsewhere(f, status)
         PROVE  ReviewTypes'
    <2>1. /\ elsewhere < MaxElsewhere /\ elsewhere' = elsewhere + 1
          /\ flagStatus' = [flagStatus EXCEPT ![f] = status]
          /\ UNCHANGED <<page, ticked, dialog, listing, single, bulk, seen>>
      BY <1>17 DEF Elsewhere
    <2>2. elsewhere' \in 0..MaxElsewhere
      <3>1. elsewhere \in 0..MaxElsewhere /\ MaxElsewhere \in Nat
        BY ReviewConstants DEF ReviewTypes
      <3> QED BY <2>1, <3>1
    <2>3. flagStatus' \in [FlagIds -> FlagStatus]
      BY <1>1, <2>1
    <2> QED BY <2>1, <2>2, <2>3 DEF ReviewTypes
  <1>18. CASE UNCHANGED reviewVars
    BY <1>18 DEF reviewVars, ReviewTypes
  <1> QED
    BY <1>3, <1>5, <1>6, <1>7, <1>8, <1>9, <1>10, <1>11, <1>12, <1>13, <1>14, <1>15, <1>16,
       <1>17, <1>18 DEF ReviewNext, OpenKinds

LEMMA ReviewTyped == ReviewTypes => ReviewTypeOK
  <1> SUFFICES ASSUME ReviewTypes PROVE ReviewTypeOK
    OBVIOUS
  <1>1. Len(listing) <= MaxFlying /\ Range(listing) \subseteq Listing
    <2>1. listing \in Seq(Listing) /\ Len(listing) \in Nat /\ MaxFlying \in Nat
      BY ReviewConstants DEF ReviewTypes
    <2>2. Pending(single) \in {0, 1} /\ Pending(bulk) \in {0, 1}
      BY NoRequest
    <2>3. Len(listing) <= MaxFlying
      BY <2>1, <2>2 DEF ReviewTypes, InFlight
    <2> QED BY <2>1, <2>3 DEF Range
  <1>2. \A sent \in {single, bulk} :
           /\ sent.kind \in {Idle, "accept", "dismiss", "reopen"}
           /\ sent.flags \subseteq FlagIds /\ sent.view \in Open
    BY DEF ReviewTypes, FlagRequest, OpenKinds
  <1> QED BY <1>1, <1>2 DEF ReviewTypes, ReviewTypeOK

----------------------------------------------------------------------------
(* The types of the graph page. *)

\* What ViewInv leaves to be shown of ViewTypeOK: every graph of the page is a
\* part of one the server may answer.
ViewParts ==
    /\ topology \in [graph : Topologies, changes : 0..MaxReads]
    /\ fullGraph \in AnyGraph /\ drawn \in AnyGraph /\ fingerprint \in AnyGraph
    /\ Len(jobs) <= MaxJobs
    /\ \A i \in DOMAIN jobs : jobs[i].graph \in AnyGraph
    /\ screen \in {"graph", "spinner", "error"}

LEMMA CutAgain ==
    ASSUME NEW g \in AnyGraph, NEW nodes PROVE Restricted(g, nodes) \in AnyGraph
  <1>1. CASE g = Empty
    <2>1. Restricted(Empty, nodes) = Empty
      BY DEF Restricted, Empty
    <2> QED BY <1>1, <2>1 DEF AnyGraph
  <1>2. ASSUME NEW t \in Topologies, NEW n \in SUBSET GraphNodes, g = Restricted(t, n)
        PROVE  Restricted(g, nodes) \in AnyGraph
    <2>1. (t.nodes \cap n) \cap nodes = t.nodes \cap (n \cap nodes)
      OBVIOUS
    <2>2. (n \X n) \cap (nodes \X nodes) = (n \cap nodes) \X (n \cap nodes)
      OBVIOUS
    <2>3. (t.edges \cap (n \X n)) \cap (nodes \X nodes)
          = t.edges \cap ((n \cap nodes) \X (n \cap nodes))
      <3>1. (t.edges \cap (n \X n)) \cap (nodes \X nodes)
            = t.edges \cap ((n \X n) \cap (nodes \X nodes))
        OBVIOUS
      <3> QED BY <2>2, <3>1
    <2>4. Restricted(g, nodes) = Restricted(t, n \cap nodes)
      BY <1>2, <2>1, <2>3 DEF Restricted
    <2>5. n \cap nodes \in SUBSET GraphNodes
      OBVIOUS
    <2> QED BY <2>4, <2>5 DEF AnyGraph
  <1> QED BY <1>1, <1>2 DEF AnyGraph

LEMMA IsolatedPart ==
    ASSUME NEW g \in AnyGraph, NEW target PROVE Isolated(target, g) \in AnyGraph
  BY CutAgain DEF Isolated

LEMMA AnswerPart ==
    ASSUME NEW t \in Topologies, NEW c PROVE Answer(c, t) \in AnyGraph
  <1>1. t = [nodes |-> t.nodes, edges |-> t.edges]
        /\ t.edges \subseteq t.nodes \X t.nodes /\ t.nodes \subseteq GraphNodes
    BY ViewConstants DEF GraphNodes
  <1>2. t.nodes \cap GraphNodes = t.nodes /\ t.edges \cap (GraphNodes \X GraphNodes) = t.edges
    BY <1>1
  <1>3. Restricted(t, GraphNodes) = t
    BY <1>1, <1>2 DEF Restricted
  <1>4. t \in AnyGraph
    BY <1>3 DEF AnyGraph
  <1> QED BY <1>4, CutAgain DEF Answer

\* Starting jobs keeps to the bound, and their graphs are parts.
LEMMA StartedParts ==
    ASSUME jobs \in Seq(Job), \A i \in DOMAIN jobs : jobs[i].graph \in AnyGraph,
           NEW new \in Seq(Job), \A i \in DOMAIN new : new[i].graph \in AnyGraph, Start(new)
    PROVE  Len(jobs') <= MaxJobs /\ \A i \in DOMAIN jobs' : jobs'[i].graph \in AnyGraph
  <1>1. Len(jobs) + Len(new) <= MaxJobs
    BY DEF Start
  <1>2. /\ Len(jobs') = Len(jobs) + Len(new)
        /\ \A i \in DOMAIN jobs' :
              \/ i \in DOMAIN jobs /\ Kept(jobs[i], jobs'[i], jobs = <<>> /\ Len(new) = 1)
              \/ /\ i - Len(jobs) \in DOMAIN new
                 /\ Kept(new[i - Len(jobs)], jobs'[i], jobs = <<>> /\ Len(new) = 1)
    BY Started
  <1> QED BY <1>1, <1>2 DEF Kept

LEMMA LoadPart ==
    ASSUME NEW c \in ViewChoices, NEW b \in BOOLEAN
    PROVE  <<Load(c, b)>> \in Seq(Job) /\ \A i \in DOMAIN <<Load(c, b)>> : <<Load(c, b)>>[i].graph \in AnyGraph
  <1> DEFINE l == Load(c, b)
  <1>1. l.graph \in AnyGraph
    BY DEF Load, AnyGraph
  <1>2. <<l>> \in Seq(Job)
    BY LoadIsJob
  <1> HIDE DEF l
  <1>3. \A i \in DOMAIN <<l>> : <<l>>[i].graph \in AnyGraph
    BY <1>1, Single
  <1> QED BY <1>2, <1>3 DEF l

LEMMA LoadStartedParts ==
    ASSUME ViewTypes, ViewParts, NEW c \in ViewChoices, NEW b \in BOOLEAN, Start(<<Load(c, b)>>)
    PROVE  Len(jobs') <= MaxJobs /\ \A i \in DOMAIN jobs' : jobs'[i].graph \in AnyGraph
  <1> DEFINE new == <<Load(c, b)>>
  <1>1. new \in Seq(Job) /\ \A i \in DOMAIN new : new[i].graph \in AnyGraph
    BY LoadPart
  <1> HIDE DEF new
  <1>2. Start(new)
    BY DEF new
  <1>3. jobs \in Seq(Job) /\ \A i \in DOMAIN jobs : jobs[i].graph \in AnyGraph
    BY DEF ViewTypes, ViewParts
  <1> QED BY <1>1, <1>2, <1>3, StartedParts

LEMMA IsolateParts ==
    ASSUME ViewTypes, ViewParts, NEW target \in GraphNodes \cup {NoIsolation}, Isolate(target)
    PROVE  Len(jobs') <= MaxJobs /\ \A i \in DOMAIN jobs' : jobs'[i].graph \in AnyGraph
  <1> DEFINE c == [team |-> AllTeams, target |-> target]
             layouts == IF fullGraph.nodes # {} THEN <<Layout(c)>> ELSE <<>>
             loads == IF choice.team # AllTeams THEN <<Load(c, FALSE)>> ELSE <<>>
             y == Layout(c)
             l == Load(c, FALSE)
             new == layouts \o loads
  <1>1. Start(new)
    BY DEF Isolate
  <1>2. c \in ViewChoices /\ c.target = target
    <2>1. AllTeams \in TeamChoices
      BY ViewConstants
    <2> QED BY <2>1 DEF ViewChoices
  <1>3. fullGraph \in Graphs /\ fullGraph \in AnyGraph
    BY DEF ViewTypes, ViewParts
  <1>4. y \in Job /\ y.graph \in AnyGraph
    <2> HIDE DEF c
    <2>1. y \in Job /\ y.graph = Isolated(c.target, fullGraph)
      BY <1>2, <1>3, LayoutIsJob
    <2> QED BY <2>1, <1>3, IsolatedPart
  <1>5. l \in Job /\ l.graph \in AnyGraph
    <2> HIDE DEF c
    <2>1. l \in Job
      BY <1>2, LoadIsJob
    <2> QED BY <2>1 DEF Load, AnyGraph
  <1>6. layouts \in {<<y>>, <<>>} /\ loads \in {<<l>>, <<>>}
    OBVIOUS
  <1> HIDE DEF c, y, l, layouts, loads
  <1>7. ASSUME NEW s \in Seq(Job), NEW t \in Seq(Job), \A i \in DOMAIN s : s[i].graph \in AnyGraph,
               \A i \in DOMAIN t : t[i].graph \in AnyGraph
        PROVE  s \o t \in Seq(Job) /\ \A i \in DOMAIN (s \o t) : (s \o t)[i].graph \in AnyGraph
    <2>1. s \o t \in Seq(Job) /\ DOMAIN (s \o t) = 1..(Len(s) + Len(t))
      OBVIOUS
    <2>2. ASSUME NEW i \in DOMAIN (s \o t)
          PROVE  \/ i \in DOMAIN s /\ (s \o t)[i] = s[i]
                 \/ i - Len(s) \in DOMAIN t /\ (s \o t)[i] = t[i - Len(s)]
      BY <2>1
    <2> QED BY <1>7, <2>1, <2>2
  <1>8. \A x \in Job : x.graph \in AnyGraph =>
           <<x>> \in Seq(Job) /\ \A i \in DOMAIN <<x>> : <<x>>[i].graph \in AnyGraph
    BY Single
  <1>9. <<>> \in Seq(Job) /\ \A i \in DOMAIN <<>> : <<>>[i].graph \in AnyGraph
    OBVIOUS
  <1>10. /\ layouts \in Seq(Job) /\ loads \in Seq(Job)
         /\ \A i \in DOMAIN layouts : layouts[i].graph \in AnyGraph
         /\ \A i \in DOMAIN loads : loads[i].graph \in AnyGraph
    BY <1>4, <1>5, <1>6, <1>8, <1>9
  <1>11. new \in Seq(Job) /\ \A i \in DOMAIN new : new[i].graph \in AnyGraph
    BY <1>7, <1>10
  <1> HIDE DEF new
  <1>12. jobs \in Seq(Job) /\ \A i \in DOMAIN jobs : jobs[i].graph \in AnyGraph
    BY DEF ViewTypes, ViewParts
  <1> QED BY <1>1, <1>11, <1>12, StartedParts

\* A job that ends leaves the others.
LEMMA EndParts ==
    ASSUME ViewTypes, ViewParts, NEW i \in DOMAIN jobs, jobs' = RemoveAt(jobs, i)
    PROVE  Len(jobs') <= MaxJobs /\ \A k \in DOMAIN jobs' : jobs'[k].graph \in AnyGraph
  <1>1. jobs \in Seq(Job) /\ i \in 1..Len(jobs) /\ Len(jobs) <= MaxJobs
    BY DEF ViewTypes, ViewParts
  <1>2. /\ Len(jobs') = Len(jobs) - 1
        /\ \A k \in DOMAIN jobs' : \E m \in DOMAIN jobs : jobs'[k] = jobs[m]
    BY <1>1, Removed
  <1>3. Len(jobs') <= MaxJobs
    BY <1>1, <1>2, ViewConstants
  <1> QED BY <1>2, <1>3 DEF ViewParts

LEMMA ViewPartsStart == ViewInit => ViewParts
  <1> SUFFICES ASSUME ViewInit PROVE ViewParts
    OBVIOUS
  <1>1. MaxJobs \in Nat \ {0} /\ MaxReads \in Nat /\ AllTeams \in TeamChoices
    BY ViewConstants
  <1>2. topology \in [graph : Topologies, changes : 0..MaxReads]
    BY <1>1 DEF ViewInit
  <1>3. choice \in ViewChoices
    BY <1>1 DEF ViewInit, ViewChoices
  <1>4. \A i \in DOMAIN jobs : jobs[i].graph \in AnyGraph
    BY <1>3, LoadPart DEF ViewInit
  <1>5. Len(jobs) <= MaxJobs
    <2>1. Len(jobs) = 1
      BY Single DEF ViewInit
    <2> QED BY <1>1, <2>1
  <1>6. Empty \in AnyGraph
    BY DEF AnyGraph
  <1> QED BY <1>2, <1>4, <1>5, <1>6 DEF ViewInit, ViewParts

LEMMA ViewPartsKept ==
    ASSUME ViewTypes, ViewParts, ViewNext \/ UNCHANGED viewVars
    PROVE  ViewParts'
  <1>1. /\ choice \in ViewChoices /\ jobs \in Seq(Job) /\ topology.graph \in Topologies
        /\ screen \in {"graph", "spinner", "error"}
    BY DEF ViewTypes, ViewParts
  <1>2. ASSUME NEW t \in TeamChoices, ChooseTeam(t) PROVE ViewParts'
    <2>1. /\ [choice EXCEPT !.team = t] \in ViewChoices
          /\ Start(<<Load([choice EXCEPT !.team = t], FALSE)>>) /\ screen' = "spinner"
          /\ UNCHANGED <<topology, fullGraph, drawn, fingerprint>>
      BY <1>1, <1>2 DEF ChooseTeam, ViewChoices
    <2> QED BY <2>1, LoadStartedParts DEF ViewParts
  <1>3. ASSUME NEW n \in GraphNodes \cup {NoIsolation}, Isolate(n) PROVE ViewParts'
    <2>1. Len(jobs') <= MaxJobs /\ \A i \in DOMAIN jobs' : jobs'[i].graph \in AnyGraph
      BY <1>3, IsolateParts
    <2>2. screen' \in {"spinner", screen} /\ UNCHANGED <<topology, fullGraph, drawn, fingerprint>>
      BY <1>3 DEF Isolate, ScreenOf
    <2> QED BY <1>1, <2>1, <2>2 DEF ViewParts
  <1>4. CASE Reload
    BY <1>1, <1>4, LoadStartedParts DEF Reload, ViewParts
  <1>5. CASE Poll
    BY <1>1, <1>5, LoadStartedParts DEF Poll, ViewParts
  <1>6. ASSUME NEW g \in Topologies, ServerChange(g) PROVE ViewParts'
    <2>1. /\ topology.changes < MaxReads /\ topology' = [graph |-> g, changes |-> topology.changes + 1]
          /\ UNCHANGED <<fullGraph, drawn, fingerprint, jobs, screen>>
      BY <1>6 DEF ServerChange
    <2>2. topology.changes \in 0..MaxReads
      BY DEF ViewParts
    <2>3. topology' \in [graph : Topologies, changes : 0..MaxReads]
      BY <2>1, <2>2, ViewConstants
    <2> QED BY <2>1, <2>3 DEF ViewParts
  <1>7. ASSUME NEW i \in DOMAIN jobs, Fetched(i) PROVE ViewParts'
    <2> DEFINE answer == Answer(jobs[i].choice, topology.graph)
    <2>1. /\ jobs' = [jobs EXCEPT ![i].fetched = TRUE, ![i].graph = answer]
          /\ UNCHANGED <<topology, fullGraph, drawn, fingerprint, screen>>
      BY <1>7 DEF Fetched
    <2>2. answer \in AnyGraph
      BY <1>1, AnswerPart
    <2> HIDE DEF answer
    <2> DEFINE now == [jobs[i] EXCEPT !.fetched = TRUE, !.graph = answer]
    <2>3. now.graph = answer /\ jobs' = [jobs EXCEPT ![i] = now]
      <3>1. jobs[i] \in Job
        BY <1>1
      <3> QED BY <1>1, <2>1, <3>1 DEF Job
    <2> HIDE DEF now
    <2>4. Len(jobs') = Len(jobs) /\ DOMAIN jobs' = DOMAIN jobs
          /\ \A k \in DOMAIN jobs : jobs'[k] = now \/ jobs'[k] = jobs[k]
      BY <1>1, <2>3
    <2> QED BY <2>1, <2>2, <2>3, <2>4 DEF ViewParts
  <1>8. ASSUME NEW i \in DOMAIN jobs, LoadDone(i) PROVE ViewParts'
    <2> DEFINE full == IF KeepsDrawing(jobs[i]) THEN drawn ELSE jobs[i].graph
    <2>1. /\ fullGraph' = full /\ fingerprint' = jobs[i].graph
          /\ drawn' = Isolated(jobs[i].choice.target, full)
          /\ screen' \in {"graph", screen} /\ jobs' = RemoveAt(jobs, i) /\ UNCHANGED topology
      BY <1>8 DEF LoadDone
    <2>2. full \in AnyGraph /\ jobs[i].graph \in AnyGraph
      BY DEF ViewParts
    <2> HIDE DEF full
    <2>3. drawn' \in AnyGraph
      BY <2>1, <2>2, IsolatedPart
    <2> QED BY <1>1, <2>1, <2>2, <2>3, EndParts DEF ViewParts
  <1>9. ASSUME NEW i \in DOMAIN jobs, LoadFailed(i) PROVE ViewParts'
    BY <1>9, EndParts DEF LoadFailed, ViewParts
  <1>10. ASSUME NEW i \in DOMAIN jobs, LayoutDone(i) PROVE ViewParts'
    <2>1. /\ drawn' = jobs[i].graph /\ jobs' = RemoveAt(jobs, i)
          /\ UNCHANGED <<topology, fullGraph, fingerprint, screen>>
      BY <1>10 DEF LayoutDone
    <2> QED BY <2>1, EndParts DEF ViewParts
  <1>11. CASE UNCHANGED viewVars
    BY <1>11 DEF viewVars, ViewParts
  <1> QED
    BY <1>2, <1>3, <1>4, <1>5, <1>6, <1>7, <1>8, <1>9, <1>10, <1>11 DEF ViewNext

LEMMA ViewTyped == ViewTypes /\ ViewParts => ViewTypeOK
  <1> SUFFICES ASSUME ViewTypes, ViewParts PROVE ViewTypeOK
    OBVIOUS
  <1>1. ASSUME NEW j \in Range(jobs)
        PROVE  /\ j.kind \in {"load", "layout"} /\ j.graph \in AnyGraph
               /\ {j.background, j.fetched, j.alone} \subseteq BOOLEAN
    <2>1. PICK i \in DOMAIN jobs : j = jobs[i]
      BY DEF Range
    <2>2. j \in Job
      BY <2>1 DEF ViewTypes
    <2> QED BY <2>1, <2>2 DEF Job, ViewParts
  <1> QED BY <1>1 DEF ViewTypes, ViewParts, ViewTypeOK, ViewChoices

----------------------------------------------------------------------------
(* The rows of the metric editor, and the record they stand for. *)

\* Of numbers up to n, one is the greatest.
LEMMA Greatest ==
    ASSUME NEW n \in Nat, NEW S, S \subseteq 1..n, S # {}
    PROVE  \E m \in S : \A i \in S : i <= m
  <1> DEFINE R == StrictSubsetOrdering(Nat)
             F == FiniteSubsetsOf(Nat)
             W == {i..n : i \in S}
  <1>1. W \subseteq F
    <2>1. ASSUME NEW i \in S PROVE IsFiniteSet(i..n) /\ i..n \subseteq Nat
      BY FS_Interval
    <2>2. ASSUME NEW x \in W PROVE x \in F
      <3>1. PICK i \in S : x = i..n
        OBVIOUS
      <3>2. IsFiniteSet(x) /\ x \in SUBSET Nat
        BY <2>1, <3>1
      <3> QED BY <3>2 DEF FiniteSubsetsOf
    <2> QED BY <2>2
  <1>2. W # {}
    OBVIOUS
  <1>3. IsWellFoundedOn(R, F)
    BY FS_StrictSubsetOrderingWellFounded
  <1>4. \E x \in W : \A y \in W : ~ <<y, x>> \in R
    <2> HIDE DEF R, F, W
    <2> QED
      BY <1>1, <1>2, <1>3, WFMin
  <1>5. PICK m \in S : \A i \in S : ~ <<i..n, m..n>> \in R
    BY <1>4
  <1>6. ASSUME NEW i \in S, i > m
        PROVE  FALSE
    <2>1. i..n \in SUBSET Nat /\ m..n \in SUBSET Nat /\ i..n \subseteq m..n
      BY <1>6
    <2>2. m \in m..n /\ m \notin i..n
      BY <1>6
    <2>3. <<i..n, m..n>> \in R
      BY <2>1, <2>2 DEF StrictSubsetOrdering
    <2> QED
      BY <2>3, <1>5
  <1> QED
    BY <1>6

\* Row i is the last with the key k.
IsLast(rows, k, i) ==
    /\ i \in 1..Len(rows) /\ rows[i].key = k
    /\ \A j \in 1..Len(rows) : rows[j].key = k => j <= i

LEMMA LastRow ==
    ASSUME NEW rows \in Seq(MetricRow), NEW k \in KeysOf(rows)
    PROVE  \E i : IsLast(rows, k, i)
  <1> DEFINE S == {i \in 1..Len(rows) : rows[i].key = k}
  <1>1. Len(rows) \in Nat /\ DOMAIN rows = 1..Len(rows)
    OBVIOUS
  <1>2. S # {} /\ S \subseteq 1..Len(rows)
    BY <1>1 DEF KeysOf
  <1>3. PICK m \in S : \A i \in S : i <= m
    <2> HIDE DEF S
    <2> QED BY <1>1, <1>2, Greatest
  <1> QED BY <1>1, <1>3 DEF IsLast

\* The value of a key is that of the last row that has it.
LEMMA RecordAt ==
    ASSUME NEW rows \in Seq(MetricRow), NEW k \in KeysOf(rows), NEW i, IsLast(rows, k, i)
    PROVE  RecordOf(rows)[k] = rows[i].field
  <1> DEFINE Q(x) == x \in DOMAIN rows /\ rows[x].key = k
                     /\ \A j \in DOMAIN rows : rows[j].key = k => j <= x
             c == CHOOSE x \in DOMAIN rows :
                     rows[x].key = k /\ \A j \in DOMAIN rows : rows[j].key = k => j <= x
  <1>1. DOMAIN rows = 1..Len(rows) /\ Len(rows) \in Nat
    OBVIOUS
  <1>2. Q(i)
    BY <1>1 DEF IsLast
  <1>3. Q(c)
    BY <1>2
  <1>4. c = i
    <2> HIDE DEF c
    <2> QED BY <1>1, <1>2, <1>3
  <1>5. RecordOf(rows)[k] = rows[c].field
    BY DEF RecordOf
  <1> QED BY <1>4, <1>5

LEMMA RecordTyped ==
    ASSUME NEW rows \in Seq(MetricRow)
    PROVE  /\ KeysOf(rows) \subseteq MetricKeys
           /\ RecordOf(rows) \in [KeysOf(rows) -> MetricFields]
  <1>1. \A i \in 1..Len(rows) : rows[i] \in MetricRow
    OBVIOUS
  <1>2. DOMAIN rows = 1..Len(rows)
    OBVIOUS
  <1>3. KeysOf(rows) \subseteq MetricKeys
    BY <1>1, <1>2 DEF KeysOf, MetricRow
  <1>4. ASSUME NEW k \in KeysOf(rows)
        PROVE  RecordOf(rows)[k] \in MetricFields
    <2>1. PICK i : IsLast(rows, k, i)
      BY LastRow
    <2>2. rows[i].field \in MetricFields
      BY <1>1, <2>1 DEF IsLast, MetricRow
    <2> QED
      BY <2>1, <2>2, RecordAt
  <1>5. RecordOf(rows) = [k \in KeysOf(rows) |-> RecordOf(rows)[k]]
    BY DEF RecordOf
  <1> QED
    BY <1>3, <1>4, <1>5

\* Two editors with the same keys and the same last rows say the same.
LEMMA SameRecord ==
    ASSUME NEW rows \in Seq(MetricRow), NEW r, r = [k \in DOMAIN r |-> r[k]],
           KeysOf(rows) = DOMAIN r,
           \A k \in DOMAIN r : \A i : IsLast(rows, k, i) => rows[i].field = r[k]
    PROVE  RecordOf(rows) = r
  <1>1. ASSUME NEW k \in DOMAIN r
        PROVE  RecordOf(rows)[k] = r[k]
    <2>1. PICK i : IsLast(rows, k, i)
      BY LastRow
    <2> QED
      BY <2>1, RecordAt
  <1>2. RecordOf(rows) = [k \in KeysOf(rows) |-> RecordOf(rows)[k]]
    BY DEF RecordOf
  <1> QED
    BY <1>1, <1>2

\* A row without a key changes nothing.
LEMMA AddedRow ==
    ASSUME NEW rows \in Seq(MetricRow)
    PROVE  LET more == Append(rows, [key |-> "", field |-> FirstField])
           IN  /\ more \in Seq(MetricRow)
               /\ KeysOf(more) = KeysOf(rows) /\ RecordOf(more) = RecordOf(rows)
  <1> DEFINE new == [key |-> "", field |-> FirstField]
             more == Append(rows, new)
  <1>1. new \in MetricRow /\ new.key = ""
    BY FormConstants DEF MetricRow
  <1> HIDE DEF new
  <1>2. /\ more \in Seq(MetricRow) /\ Len(more) = Len(rows) + 1 /\ Len(rows) \in Nat
        /\ \A i \in 1..Len(rows) : more[i] = rows[i]
        /\ more[Len(rows) + 1] = new
    <2>1. Len(rows) \in Nat
      OBVIOUS
    <2> QED BY <1>1, <2>1, AppendProperties, Zenon
  <1> HIDE DEF more
  <1>3. DOMAIN rows = 1..Len(rows) /\ DOMAIN more = 1..(Len(rows) + 1)
    BY <1>2
  <1>4. KeysOf(more) = KeysOf(rows)
    <2>1. ASSUME NEW i \in DOMAIN more
          PROVE  more[i].key = "" \/ (i \in DOMAIN rows /\ more[i].key = rows[i].key)
      <3>1. i = Len(rows) + 1 \/ i \in 1..Len(rows)
        BY <1>2, <1>3
      <3> QED BY <1>1, <1>2, <1>3, <3>1
    <2>2. ASSUME NEW i \in DOMAIN rows
          PROVE  i \in DOMAIN more /\ more[i].key = rows[i].key
      BY <1>2, <1>3
    <2> QED BY <2>1, <2>2 DEF KeysOf
  <1>5. ASSUME NEW k \in KeysOf(rows), NEW i, IsLast(more, k, i)
        PROVE  IsLast(rows, k, i) /\ rows[i] = more[i]
    <2>1. k # ""
      BY DEF KeysOf
    <2>2. i # Len(rows) + 1
      BY <1>1, <1>2, <1>5, <2>1 DEF IsLast
    <2>3. i \in 1..Len(rows)
      BY <1>2, <1>5, <2>2 DEF IsLast
    <2> QED
      BY <1>2, <1>5, <2>3 DEF IsLast
  <1>6. RecordOf(rows) = [k \in DOMAIN RecordOf(rows) |-> RecordOf(rows)[k]]
        /\ DOMAIN RecordOf(rows) = KeysOf(rows)
    BY DEF RecordOf
  <1>7. \A k \in KeysOf(rows) : \A i : IsLast(more, k, i) => more[i].field = RecordOf(rows)[k]
    BY <1>5, RecordAt
  <1>8. RecordOf(more) = RecordOf(rows)
    BY <1>2, <1>4, <1>6, <1>7, SameRecord
  <1> QED
    BY <1>2, <1>4, <1>8 DEF more, new

----------------------------------------------------------------------------
(* recordToRows has a row for each key. *)

LEMMA Enumerated ==
    ASSUME NEW S, IsFiniteSet(S)
    PROVE  /\ SetToSeq(S) \in Seq(S)
           /\ \A x \in S : \E i \in DOMAIN SetToSeq(S) : SetToSeq(S)[i] = x
  <1> DEFINE n == Cardinality(S)
             s == SetToSeq(S)
  <1>1. n \in Nat /\ ExistsBijection(1..n, S)
    BY FS_CardinalityType
  <1>2. \E f \in [1..n -> S] : IsInjective(f)
    BY <1>1 DEF ExistsBijection, Bijection, Injection
  <1>3. s \in [1..n -> S] /\ IsInjective(s)
    BY <1>2 DEF SetToSeq
  <1>4. s \in Injection(1..n, S)
    BY <1>3 DEF Injection
  <1>5. IsFiniteSet(1..n) /\ Cardinality(1..n) = n
    BY <1>1, FS_Interval
  <1> HIDE DEF s
  <1>6. s \in Surjection(1..n, S)
    BY <1>4, <1>5, FS_Injection
  <1>7. \A x \in S : \E i \in 1..n : s[i] = x
    BY <1>6 DEF Surjection
  <1>8. s \in Seq(S) /\ DOMAIN s = 1..n
    BY <1>1, <1>3
  <1> QED
    BY <1>7, <1>8 DEF s

LEMMA RowsAreRecord ==
    ASSUME NEW ks \in SUBSET MetricKeys, NEW r \in [ks -> MetricFields]
    PROVE  /\ RowsOf(r) \in Seq(MetricRow)
           /\ KeysOf(RowsOf(r)) = ks /\ RecordOf(RowsOf(r)) = r
  <1> DEFINE S == {[key |-> k, field |-> r[k]] : k \in DOMAIN r}
             rows == RowsOf(r)
  <1>1. IsFiniteSet(ks)
    BY FormConstants, FS_Subset
  <1>2. IsFiniteSet(S)
    <2> DEFINE f == [k \in ks |-> [key |-> k, field |-> r[k]]]
    <2>1. f \in Surjection(ks, S)
      BY DEF Surjection
    <2> QED BY <1>1, <2>1, FS_Surjection
  <1>3. rows = SetToSeq(S)
    BY DEF RowsOf
  <1>4. \A x : x \in S <=> \E k \in ks : x = [key |-> k, field |-> r[k]]
    OBVIOUS
  <1>5. S \subseteq MetricRow
    <2>1. ASSUME NEW k \in ks
          PROVE  [key |-> k, field |-> r[k]] \in MetricRow
      BY DEF MetricRow
    <2> QED BY <2>1
  <1> HIDE DEF S
  <1>6. rows \in Seq(S) /\ \A x \in S : \E i \in DOMAIN rows : rows[i] = x
    BY <1>2, <1>3, Enumerated
  <1> HIDE DEF rows
  <1>7. rows \in Seq(MetricRow)
    BY <1>5, <1>6
  <1>8. /\ DOMAIN rows = 1..Len(rows)
        /\ \A i \in DOMAIN rows : \E k \in ks : rows[i] = [key |-> k, field |-> r[k]]
    BY <1>4, <1>6
  <1>9. \A i \in DOMAIN rows : rows[i].key \in ks /\ rows[i].field = r[rows[i].key]
    BY <1>8
  <1>10. \A k \in ks : \E i \in DOMAIN rows : rows[i].key = k
    <2>1. ASSUME NEW k \in ks
          PROVE  \E x \in S : x.key = k
      <3> DEFINE x == [key |-> k, field |-> r[k]]
      <3>1. x \in S /\ x.key = k
        BY <1>4
      <3> QED BY <3>1
    <2> QED BY <1>6, <2>1
  <1>11. KeysOf(rows) = ks
    <2>1. "" \notin ks
      BY FormConstants
    <2>2. KeysOf(rows) \subseteq ks
      BY <1>9 DEF KeysOf
    <2>3. \A k \in ks : k \in {rows[i].key : i \in DOMAIN rows}
      BY <1>10
    <2> QED BY <2>1, <2>2, <2>3 DEF KeysOf
  <1>12. \A k \in DOMAIN r : \A i : IsLast(rows, k, i) => rows[i].field = r[k]
    BY <1>8, <1>9 DEF IsLast
  <1>13. RecordOf(rows) = r
    BY <1>7, <1>11, <1>12, SameRecord
  <1> QED
    BY <1>7, <1>11, <1>13 DEF rows

----------------------------------------------------------------------------

----------------------------------------------------------------------------
(* The form of a service. *)

Configs == {NoConfig} \cup Mapping \cup Config
Sent == [fmt : Formats, endpoint : Endpoints, config : Configs, edit : BOOLEAN]

\* A mapping in the JSON view is the one the form would send, or without the
\* comparison, and so is what the guided view shows.
TextFits(text, c) ==
    text.kind = "mapping" => c.kind = "mapping" /\ text \in {c, FieldsOnly(c)}
GuidedFits(g, c) ==
    /\ c.kind # "metrics"
    /\ g.useKey => g.name = ""
    /\ ~g.custom => c = NoConfig /\ g.root = ""
    /\ g.custom /\ Complete(g) => c.kind = "mapping" /\ ShowMapping(g, c) = g
    /\ TextFits(g.text, c)
MetricFits(e, c) == Says(c) = ConfigOf(e)

FormShape ==
    /\ form = Absent => guided = Absent /\ metric = Absent
    /\ form # Absent =>
          /\ form.fmt = "schema" <=> guided # Absent
          /\ form.fmt \in MetricFormats <=> metric # Absent
          /\ guided # Absent => GuidedFits(guided, form.schema)
          /\ metric # Absent => MetricFits(metric, form.metrics)
FormRequest ==
    request # Absent => request \in Sent /\ (form # Absent => request = Payload(form))
FormInv == FormTypeOK /\ FormShape /\ FormRequest

\* Configurations by their kind.
LEMMA Kinds ==
    /\ \A c \in Configs : c.kind = "none" <=> c = NoConfig
    /\ \A c \in Configs : c.kind = "mapping" <=> c \in Mapping
    /\ \A c \in Configs : c.kind = "metrics" <=> c \in Config
    /\ NoConfig \in Configs /\ NoConfig.kind = "none"
    /\ \A c \in Configs : c.kind \in {"none", "mapping", "metrics"}
  <1>1. NoConfig.kind = "none"
    BY DEF NoConfig
  <1>2. \A c \in Mapping : c.kind = "mapping"
    BY DEF Mapping
  <1>3. \A c \in Config : c.kind = "metrics"
    BY DEF Config
  <1>4. \A c : c \in Configs <=> c = NoConfig \/ c \in Mapping \/ c \in Config
    BY DEF Configs
  <1> QED
    BY <1>1, <1>2, <1>3, <1>4

----------------------------------------------------------------------------
(* The editor of mappings. *)

LEMMA MappingTyped ==
    ASSUME NEW g \in Guided, Complete(g)
    PROVE  MappingOf(g) \in Mapping
  BY DEF Guided, Complete, MappingOf, Mapping

\* The fields of the editor are those of a mapping.
Displays(g, c) ==
    /\ g.root = c.root /\ (g.useKey <=> c.name = "$key")
    /\ g.name = (IF c.name = "$key" THEN "" ELSE c.name)
    /\ g.latency = Plain(c.latency)

LEMMA ShownIs ==
    ASSUME NEW g \in Guided, NEW c \in Mapping
    PROVE  /\ ShowMapping(g, c) \in Guided
           /\ ShowMapping(g, c).useKey => ShowMapping(g, c).name = ""
           /\ Displays(g, c) <=> ShowMapping(g, c) = g
  <1> DEFINE s == ShowMapping(g, c)
             name == IF c.name = "$key" THEN "" ELSE c.name
  <1>1. c.root = "r" /\ c.name \in {"n", "$key"} /\ c.latency \in {"", "l", "l=x", "$key"}
    BY DEF Mapping
  <1>2. name \in {"", "n"} /\ (c.name = "$key" => name = "")
    BY <1>1
  <1>3. Plain(c.latency) \in {"", "l", "$key"} /\ (c.name = "$key") \in BOOLEAN
    BY <1>1 DEF Plain
  <1>4. s = [g EXCEPT !.root = c.root, !.useKey = (c.name = "$key"), !.name = name,
                      !.latency = Plain(c.latency)]
    BY DEF ShowMapping
  <1> HIDE DEF name, s
  <1>5. s \in Guided
    BY <1>1, <1>2, <1>3, <1>4 DEF Guided
  <1>6. s.root = c.root /\ s.useKey = (c.name = "$key") /\ s.name = name
        /\ s.latency = Plain(c.latency) /\ s.custom = g.custom
        /\ s.advanced = g.advanced /\ s.text = g.text
    BY <1>4 DEF Guided
  <1>7. s.useKey => s.name = ""
    BY <1>2, <1>6
  <1>8. ASSUME g.root = c.root, g.useKey = (c.name = "$key"), g.name = name,
               g.latency = Plain(c.latency)
        PROVE  s = g
    BY <1>4, <1>8 DEF Guided
  <1>9. g.useKey \in BOOLEAN
    BY DEF Guided
  <1>10. s = g <=> /\ g.root = c.root /\ (g.useKey <=> c.name = "$key")
                   /\ g.name = name /\ g.latency = Plain(c.latency)
    BY <1>6, <1>8, <1>9
  <1> QED
    BY <1>5, <1>7, <1>10 DEF s, name, Displays

\* A complete mapping that is reported is what the editor shows.
LEMMA ReportFits ==
    ASSUME NEW g \in Guided, g.custom, g.useKey => g.name = "", Complete(g)
    PROVE  /\ MappingOf(g) \in Mapping
           /\ [g EXCEPT !.text = MappingOf(g)] \in Guided
           /\ GuidedFits([g EXCEPT !.text = MappingOf(g)], MappingOf(g))
  <1> DEFINE m == MappingOf(g)
             h == [g EXCEPT !.text = m]
  <1>1. m \in Mapping
    BY MappingTyped
  <1>2. h \in Guided /\ h.custom /\ h.root = g.root /\ h.useKey = g.useKey
        /\ h.name = g.name /\ h.latency = g.latency /\ h.text = m
    BY <1>1 DEF Guided
  <1>3. m.kind = "mapping" /\ m.root = g.root /\ m.latency = g.latency
        /\ m.name = (IF g.useKey THEN "$key" ELSE g.name)
    BY DEF MappingOf
  <1>4. g.name # "$key" /\ Plain(g.latency) = g.latency
    BY DEF Guided, Plain
  <1> HIDE DEF m, h
  <1>5. ShowMapping(h, m) = h
    <2>1. Displays(h, m)
      BY <1>2, <1>3, <1>4 DEF Displays
    <2> QED BY <1>1, <1>2, <2>1, ShownIs
  <1>6. GuidedFits(h, m)
    BY <1>2, <1>3, <1>5 DEF GuidedFits, TextFits
  <1> QED
    BY <1>1, <1>2, <1>6 DEF m, h

\* What the toggle writes for a mapping that the guided view shows.
LEMMA WrittenFits ==
    ASSUME NEW g \in Guided, NEW c \in Mapping, ShowMapping(g, c) = g
    PROVE  TextFits(MappingOf(g), c)
  <1>1. Displays(g, c)
    BY ShownIs
  <1>2. c = [kind |-> "mapping", root |-> c.root, name |-> c.name, latency |-> c.latency]
        /\ c.kind = "mapping"
    BY DEF Mapping
  <1>3. MappingOf(g) = [kind |-> "mapping", root |-> c.root, name |-> c.name,
                        latency |-> Plain(c.latency)]
    BY <1>1 DEF MappingOf, Displays
  <1>4. FieldsOnly(c) = [kind |-> "mapping", root |-> c.root, name |-> c.name,
                         latency |-> Plain(c.latency)]
    BY <1>2 DEF FieldsOnly
  <1> QED BY <1>2, <1>3, <1>4 DEF TextFits

LEMMA MountedFits ==
    ASSUME NEW c \in Configs, c.kind # "metrics"
    PROVE  Mounted(c) \in Guided /\ GuidedFits(Mounted(c), c) /\ EmptyGuided \in Guided
  <1>0. EmptyGuided \in Guided
    BY DEF EmptyGuided, Guided, Text
  <1>1. CASE c = NoConfig
    <2>1. Mounted(c) = EmptyGuided
      BY <1>1 DEF Mounted
    <2>2. ~EmptyGuided.custom /\ ~EmptyGuided.useKey /\ EmptyGuided.root = ""
          /\ EmptyGuided.text.kind = "empty"
      BY DEF EmptyGuided
    <2> QED
      BY <1>0, <1>1, <2>1, <2>2 DEF GuidedFits, TextFits
  <1>2. CASE c \in Mapping
    <2> DEFINE s == ShowMapping(EmptyGuided, c)
               h == [s EXCEPT !.custom = TRUE, !.text = c]
    <2>1. s \in Guided /\ (s.useKey => s.name = "")
      BY <1>0, <1>2, ShownIs
    <2>2. s.root = c.root /\ (s.useKey <=> c.name = "$key")
          /\ s.name = (IF c.name = "$key" THEN "" ELSE c.name)
          /\ s.latency = Plain(c.latency)
      BY DEF ShowMapping, EmptyGuided
    <2> HIDE DEF s
    <2>3. h \in Guided /\ h.custom /\ h.root = s.root /\ h.useKey = s.useKey
          /\ h.name = s.name /\ h.latency = s.latency /\ h.text = c
      BY <1>2, <2>1 DEF Guided
    <2>4. Mounted(c) = h
      <3>1. c # NoConfig
        BY <1>2, Kinds
      <3> QED BY <3>1 DEF Mounted, s
    <2> HIDE DEF h
    <2>5. ShowMapping(h, c) = h
      <3>1. Displays(h, c)
        BY <2>2, <2>3 DEF Displays
      <3> QED BY <1>2, <2>3, <3>1, ShownIs
    <2>6. c.kind = "mapping"
      BY <1>2 DEF Mapping
    <2> QED
      BY <1>0, <2>1, <2>3, <2>4, <2>5, <2>6 DEF GuidedFits, TextFits
  <1> QED
    BY <1>1, <1>2, Kinds

\* What the shown mapping depends on.
LEMMA FitsAlike ==
    ASSUME NEW g \in Guided, NEW h \in Guided, NEW c \in Configs, GuidedFits(g, c),
           h.root = g.root, h.useKey = g.useKey, h.name = g.name, h.latency = g.latency,
           h.custom = g.custom \/ (h.custom /\ ~g.custom), TextFits(h.text, c)
    PROVE  GuidedFits(h, c)
  <1>1. Complete(h) <=> Complete(g)
    BY DEF Complete
  <1>2. CASE h.custom = g.custom
    <2>1. ASSUME c.kind = "mapping", ShowMapping(g, c) = g
          PROVE  ShowMapping(h, c) = h
      <3>1. c \in Mapping
        BY <2>1, Kinds
      <3>2. Displays(g, c)
        BY <2>1, <3>1, ShownIs
      <3>3. Displays(h, c)
        BY <3>2 DEF Displays
      <3> QED BY <3>1, <3>3, ShownIs
    <2> QED
      BY <1>1, <1>2, <2>1 DEF GuidedFits
  <1>3. CASE h.custom /\ ~g.custom
    BY <1>1, <1>3 DEF GuidedFits, Complete
  <1> QED BY <1>2, <1>3

----------------------------------------------------------------------------
(* The editor of metrics. *)

LEMMA ConfigSaid ==
    ASSUME NEW e \in Metric
    PROVE  ConfigOf(e) \in {NoConfig} \cup Config /\ MetricFits(e, ConfigOf(e))
  <1>1. e.rows \in Seq(MetricRow) /\ e.seconds \in BOOLEAN
    BY DEF Metric
  <1>2. KeysOf(e.rows) \subseteq MetricKeys /\ RecordOf(e.rows) \in [KeysOf(e.rows) -> MetricFields]
    BY <1>1, RecordTyped
  <1>3. CASE KeysOf(e.rows) = {} /\ ~e.seconds
    BY <1>3 DEF ConfigOf, MetricFits, Says, NoConfig
  <1>4. CASE ~(KeysOf(e.rows) = {} /\ ~e.seconds)
    <2> DEFINE c == [kind |-> "metrics", rows |-> RecordOf(e.rows), seconds |-> e.seconds]
    <2>1. ConfigOf(e) = c
      BY <1>4 DEF ConfigOf
    <2>2. RecordOf(e.rows) \in UNION {[ks -> MetricFields] : ks \in SUBSET MetricKeys}
      BY <1>2
    <2>3. c \in Config
      BY <1>1, <2>2 DEF Config
    <2>4. DOMAIN c.rows = KeysOf(e.rows) /\ c.seconds = e.seconds
      BY <1>2
    <2> HIDE DEF c
    <2>5. Says(c) = c
      BY <1>4, <2>4 DEF Says
    <2> QED BY <2>1, <2>3, <2>5 DEF MetricFits
  <1> QED BY <1>3, <1>4

LEMMA MetricMounted ==
    ASSUME NEW c \in {NoConfig} \cup Config
    PROVE  MountedMetric(c) \in Metric /\ MetricFits(MountedMetric(c), c)
  <1>1. CASE c = NoConfig
    <2> DEFINE e == [rows |-> <<>>, seconds |-> FALSE]
    <2>1. MountedMetric(c) = e
      BY <1>1 DEF MountedMetric
    <2>2. e \in Metric
      BY DEF Metric
    <2>3. KeysOf(e.rows) = {} /\ ~e.seconds
      BY DEF KeysOf
    <2>4. ConfigOf(e) = NoConfig
      BY <2>3 DEF ConfigOf
    <2>5. Says(c) = NoConfig
      BY <1>1 DEF Says, NoConfig
    <2> QED BY <2>1, <2>2, <2>4, <2>5 DEF MetricFits
  <1>2. CASE c \in Config
    <2>1. PICK ks \in SUBSET MetricKeys : c.rows \in [ks -> MetricFields]
      BY <1>2 DEF Config
    <2>2. c.kind = "metrics" /\ c.seconds \in BOOLEAN /\ c # NoConfig
          /\ c = [kind |-> "metrics", rows |-> c.rows, seconds |-> c.seconds]
      BY <1>2 DEF Config, NoConfig
    <2>3. /\ RowsOf(c.rows) \in Seq(MetricRow)
          /\ KeysOf(RowsOf(c.rows)) = ks /\ RecordOf(RowsOf(c.rows)) = c.rows
      BY <2>1, RowsAreRecord
    <2> DEFINE e == [rows |-> RowsOf(c.rows), seconds |-> c.seconds]
    <2>4. MountedMetric(c) = e
      BY <2>2 DEF MountedMetric
    <2>5. e \in Metric /\ e.rows = RowsOf(c.rows) /\ e.seconds = c.seconds
      BY <2>2, <2>3 DEF Metric
    <2> HIDE DEF e
    <2>6. ConfigOf(e) = IF ks = {} /\ ~c.seconds THEN NoConfig ELSE c
      BY <2>2, <2>3, <2>5 DEF ConfigOf
    <2>7. Says(c) = IF ks = {} /\ ~c.seconds THEN NoConfig ELSE c
      BY <2>1, <2>2 DEF Says
    <2> QED BY <2>4, <2>5, <2>6, <2>7 DEF MetricFits
  <1> QED BY <1>1, <1>2

LEMMA RowAddedFits ==
    ASSUME NEW e \in Metric, NEW c, MetricFits(e, c)
    PROVE  LET more == [e EXCEPT !.rows = Append(@, [key |-> "", field |-> FirstField])]
           IN  more \in Metric /\ MetricFits(more, c)
  <1> DEFINE rows == Append(e.rows, [key |-> "", field |-> FirstField])
             more == [e EXCEPT !.rows = rows]
  <1>1. e.rows \in Seq(MetricRow) /\ e.seconds \in BOOLEAN
    BY DEF Metric
  <1>2. rows \in Seq(MetricRow) /\ KeysOf(rows) = KeysOf(e.rows)
        /\ RecordOf(rows) = RecordOf(e.rows)
    BY <1>1, AddedRow
  <1> HIDE DEF rows
  <1>3. more \in Metric /\ more.rows = rows /\ more.seconds = e.seconds
    BY <1>2 DEF Metric
  <1> HIDE DEF more
  <1>4. ConfigOf(more) = ConfigOf(e)
    BY <1>2, <1>3 DEF ConfigOf
  <1> QED BY <1>3, <1>4 DEF MetricFits, more, rows

\* What EditMetric makes of the rows.
LEMMA RowsEdited ==
    ASSUME NEW e \in Metric, NEW i \in DOMAIN e.rows
    PROVE  /\ [e EXCEPT !.rows = RemoveAt(@, i)] \in Metric
           /\ \A k \in MetricKeys \cup {""} : [e EXCEPT !.rows[i].key = k] \in Metric
           /\ \A f \in MetricFields : [e EXCEPT !.rows[i].field = f] \in Metric
  <1>1. e.rows \in Seq(MetricRow) /\ e.seconds \in BOOLEAN /\ i \in 1..Len(e.rows)
        /\ Len(e.rows) \in Nat /\ e = [rows |-> e.rows, seconds |-> e.seconds]
    BY DEF Metric
  <1>2. RemoveAt(e.rows, i) \in Seq(MetricRow)
    <2>1. SubSeq(e.rows, 1, i - 1) \in Seq(MetricRow)
      BY <1>1
    <2>2. SubSeq(e.rows, i + 1, Len(e.rows)) \in Seq(MetricRow)
      BY <1>1
    <2> QED BY <2>1, <2>2 DEF RemoveAt
  <1>3. e.rows[i] \in MetricRow
    BY <1>1
  <1>4. \A r \in MetricRow : [e.rows EXCEPT ![i] = r] \in Seq(MetricRow)
    BY <1>1
  <1>5. ASSUME NEW k \in MetricKeys \cup {""}
        PROVE  [e EXCEPT !.rows[i].key = k] \in Metric
    <2>1. [e.rows[i] EXCEPT !.key = k] \in MetricRow
      BY <1>3 DEF MetricRow
    <2>2. [e.rows EXCEPT ![i] = [e.rows[i] EXCEPT !.key = k]] \in Seq(MetricRow)
      BY <1>4, <2>1
    <2> QED BY <1>1, <2>2 DEF Metric
  <1>6. ASSUME NEW f \in MetricFields
        PROVE  [e EXCEPT !.rows[i].field = f] \in Metric
    <2>1. [e.rows[i] EXCEPT !.field = f] \in MetricRow
      BY <1>3 DEF MetricRow
    <2>2. [e.rows EXCEPT ![i] = [e.rows[i] EXCEPT !.field = f]] \in Seq(MetricRow)
      BY <1>4, <2>1
    <2> QED BY <1>1, <2>2 DEF Metric
  <1> QED
    BY <1>1, <1>2, <1>5, <1>6 DEF Metric

----------------------------------------------------------------------------
(* What the steps do to the form. *)

LEMMA FormIs ==
    ASSUME FormInv
    PROVE  /\ service # Absent => service \in Row
           /\ form # Absent =>
                 /\ form \in FormState /\ form.fmt \in Formats /\ form.endpoint \in Endpoints
                 /\ form.schema \in Configs /\ form.metrics \in {NoConfig} \cup Config
                 /\ form.edit \in BOOLEAN
           /\ guided # Absent => guided \in Guided /\ form # Absent /\ form.fmt = "schema"
           /\ metric # Absent => metric \in Metric /\ form # Absent /\ form.fmt \in MetricFormats
           /\ Absent \notin FormState /\ Absent \notin Guided /\ Absent \notin Metric
           /\ Absent \notin Row
  <1>1. FormTypeOK /\ FormShape
    BY DEF FormInv
  <1>2. form # Absent => form \in FormState
    BY <1>1 DEF FormTypeOK
  <1>3. form # Absent =>
           /\ form.fmt \in Formats /\ form.endpoint \in Endpoints
           /\ form.schema \in Configs /\ form.metrics \in {NoConfig} \cup Config
           /\ form.edit \in BOOLEAN
    BY <1>2 DEF FormState, Configs
  <1> QED
    BY <1>1, <1>2, <1>3, NullIsNoForm DEF FormTypeOK, FormShape

LEMMA PayloadTyped ==
    ASSUME FormInv, form # Absent
    PROVE  Payload(form) \in Sent
  <1>1. "" \in Endpoints /\ NoConfig \in Configs /\ {NoConfig} \cup Config \subseteq Configs
    BY FormConstants DEF Configs
  <1>2. form.fmt \in Formats /\ form.endpoint \in Endpoints /\ form.edit \in BOOLEAN
        /\ form.schema \in Configs /\ form.metrics \in Configs
    BY <1>1, FormIs
  <1>3. SentConfig(form) \in Configs
    BY <1>1, <1>2 DEF SentConfig
  <1> QED
    BY <1>1, <1>2, <1>3 DEF Payload, Sent

LEMMA FormLeft ==
    ASSUME FormInv, service' \in Row \cup {Absent}, UNCHANGED <<form, guided, metric>>,
           request' \in {request, Absent} \/ (form # Absent /\ request' = Payload(form))
    PROVE  FormInv'
  <1>1. FormTypeOK'
    BY DEF FormInv, FormTypeOK
  <1>2. FormShape'
    BY DEF FormInv, FormShape
  <1>3. FormRequest'
    BY PayloadTyped DEF FormInv, FormRequest
  <1> QED BY <1>1, <1>2, <1>3 DEF FormInv

LEMMA FormClosed ==
    ASSUME FormInv, service' \in Row \cup {Absent}, Done, request' \in {request, Absent}
    PROVE  FormInv'
  <1>1. FormTypeOK'
    BY DEF FormInv, FormTypeOK, Done
  <1>2. FormShape'
    BY DEF FormInv, FormShape, Done
  <1>3. FormRequest'
    BY DEF FormInv, FormRequest, Done
  <1> QED BY <1>1, <1>2, <1>3 DEF FormInv

LEMMA SchemaEdited ==
    ASSUME FormInv, Editing, guided # Absent, guided' \in Guided,
           NEW c \in Configs, form' = [form EXCEPT !.schema = c], GuidedFits(guided', c),
           UNCHANGED <<service, metric, request>>
    PROVE  FormInv'
  <1>1. form \in FormState /\ form' \in FormState /\ form.fmt = "schema"
    BY FormIs DEF FormState, Configs
  <1>2. form'.fmt = form.fmt /\ form'.schema = c /\ form'.metrics = form.metrics
    BY <1>1 DEF FormState
  <1>3. form # Absent /\ form' # Absent /\ guided' # Absent
    BY <1>1, NullIsNoForm
  <1>4. FormTypeOK'
    BY <1>1, <1>3 DEF FormInv, FormTypeOK
  <1>5. FormShape'
    BY <1>1, <1>2, <1>3 DEF FormInv, FormShape
  <1>6. FormRequest'
    BY DEF Editing, FormRequest
  <1> QED BY <1>4, <1>5, <1>6 DEF FormInv

LEMMA MetricsEdited ==
    ASSUME FormInv, Editing, metric # Absent, metric' \in Metric,
           NEW c \in {NoConfig} \cup Config, form' = [form EXCEPT !.metrics = c],
           MetricFits(metric', c), UNCHANGED <<service, guided, request>>
    PROVE  FormInv'
  <1>1. form \in FormState /\ form' \in FormState /\ form.fmt \in MetricFormats
    BY FormIs DEF FormState, Configs
  <1>2. form'.fmt = form.fmt /\ form'.schema = form.schema /\ form'.metrics = c
    BY <1>1 DEF FormState
  <1>3. form # Absent /\ form' # Absent /\ metric' # Absent
    BY <1>1, NullIsNoForm
  <1>4. FormTypeOK'
    BY <1>1, <1>3 DEF FormInv, FormTypeOK
  <1>5. FormShape'
    BY <1>1, <1>2, <1>3 DEF FormInv, FormShape
  <1>6. FormRequest'
    BY DEF Editing, FormRequest
  <1> QED BY <1>4, <1>5, <1>6 DEF FormInv

LEMMA FormRendered ==
    ASSUME FormInv, request = Absent, UNCHANGED <<service, request>>,
           NEW f \in FormState, Rendered(f),
           guided # Absent => GuidedFits(guided, f.schema),
           metric # Absent => MetricFits(metric, f.metrics)
    PROVE  FormInv'
  <1>1. f.fmt \in Formats /\ f.schema \in Configs /\ f.metrics \in {NoConfig} \cup Config
    BY DEF FormState, Configs
  <1>2. /\ guided \in Guided \cup {Absent} /\ metric \in Metric \cup {Absent}
        /\ service \in Row \cup {Absent}
    BY DEF FormInv, FormTypeOK
  <1>3. Absent \notin FormState /\ Absent \notin Guided /\ Absent \notin Metric
    BY NullIsNoForm
  <1>4. f.fmt = "schema" => f.fmt \notin MetricFormats
    BY DEF MetricFormats
  <1>5. CASE Crashes(f)
    <2>1. Done
      BY <1>4, <1>5 DEF Crashes, Rendered, Done
    <2> QED BY <1>2, <2>1, FormClosed
  <1>6. CASE ~Crashes(f)
    <2>1. form' = f /\ form' # Absent
      BY <1>3, <1>6 DEF Rendered
    <2>2. f.fmt = "schema" => guided' \in Guided /\ GuidedFits(guided', f.schema)
      <3>1. f.fmt = "schema" => f.schema.kind # "metrics"
        BY <1>6 DEF Crashes
      <3> QED BY <1>1, <1>2, <1>6, <3>1, MountedFits DEF Rendered
    <2>3. f.fmt # "schema" => guided' = Absent
      BY DEF Rendered
    <2>4. f.fmt \in MetricFormats => metric' \in Metric /\ MetricFits(metric', f.metrics)
      BY <1>1, <1>2, MetricMounted DEF Rendered
    <2>5. f.fmt \notin MetricFormats => metric' = Absent
      BY DEF Rendered
    <2>6. FormTypeOK'
      BY <1>2, <2>1, <2>2, <2>3, <2>4, <2>5 DEF FormTypeOK
    <2>7. FormShape'
      BY <1>3, <2>1, <2>2, <2>3, <2>4, <2>5 DEF FormShape
    <2>8. FormRequest'
      BY DEF FormRequest
    <2> QED BY <2>6, <2>7, <2>8 DEF FormInv
  <1> QED BY <1>5, <1>6

----------------------------------------------------------------------------
(* The user's steps. *)

LEMMA OpenKeeps == ASSUME FormInv, OpenForm PROVE FormInv'
  <1> DEFINE f == IF service = Absent THEN NewForm ELSE FormOf(service)
  <1>1. NewForm \in FormState
    BY FormConstants DEF NewForm, FormState, Formats
  <1>2. ASSUME service # Absent
        PROVE  FormOf(service) \in FormState
    <2>1. service.fmt \in Formats /\ service.endpoint \in Endpoints /\ service.config \in Configs
      BY <1>2, FormIs, FormConstants DEF Row, Configs
    <2>2. service.config.kind = "metrics" => service.config \in Config
      BY <2>1, Kinds
    <2> QED
      BY <2>1, <2>2 DEF FormOf, FormState, Configs
  <1>3. f \in FormState
    BY <1>1, <1>2
  <1>4. guided = Absent /\ metric = Absent
    BY DEF FormInv, FormShape, OpenForm
  <1>5. Rendered(f) /\ request = Absent /\ UNCHANGED <<service, request>>
    BY DEF OpenForm
  <1> HIDE DEF f
  <1> QED BY <1>3, <1>4, <1>5, FormRendered

LEMMA ChooseKeeps == ASSUME FormInv, NEW fmt \in Formats, ChooseFormat(fmt) PROVE FormInv'
  <1> DEFINE f == [form EXCEPT !.fmt = fmt]
  <1>1. form # Absent /\ request = Absent /\ UNCHANGED <<service, request>> /\ Rendered(f)
    BY DEF ChooseFormat, Editing
  <1>2. form \in FormState
    BY <1>1, FormIs
  <1>3. f \in FormState /\ f.schema = form.schema /\ f.metrics = form.metrics
    BY <1>2 DEF FormState
  <1>4. (guided # Absent => GuidedFits(guided, form.schema))
        /\ (metric # Absent => MetricFits(metric, form.metrics))
    BY <1>1 DEF FormInv, FormShape
  <1> HIDE DEF f
  <1> QED BY <1>1, <1>3, <1>4, FormRendered

LEMMA EndpointKeeps == ASSUME FormInv, NEW e \in Endpoints, TypeEndpoint(e) PROVE FormInv'
  <1>1. form # Absent /\ form \in FormState
    BY FormIs DEF TypeEndpoint, Editing
  <1>2. form' \in FormState /\ form'.fmt = form.fmt /\ form'.schema = form.schema
        /\ form'.metrics = form.metrics
    BY <1>1 DEF TypeEndpoint, FormState
  <1>3. UNCHANGED <<service, guided, metric, request>> /\ request = Absent
    BY DEF TypeEndpoint, Editing
  <1>4. form' # Absent
    BY <1>2, NullIsNoForm
  <1>5. FormTypeOK'
    BY <1>2, <1>3, <1>4 DEF FormInv, FormTypeOK
  <1>6. FormShape'
    BY <1>1, <1>2, <1>3, <1>4 DEF FormInv, FormShape
  <1>7. FormRequest'
    BY <1>3 DEF FormRequest
  <1> QED BY <1>5, <1>6, <1>7 DEF FormInv

\* What the editor of mappings shows while it is open.
LEMMA GuidedIs ==
    ASSUME FormInv, guided # Absent
    PROVE  /\ guided \in Guided /\ form # Absent /\ form \in FormState
           /\ form.schema \in Configs /\ GuidedFits(guided, form.schema)
           /\ guided.useKey => guided.name = ""
           /\ form = [form EXCEPT !.schema = form.schema]
  <1>1. guided \in Guided /\ form # Absent /\ form \in FormState /\ form.schema \in Configs
    BY FormIs
  <1>2. GuidedFits(guided, form.schema)
    BY <1>1 DEF FormInv, FormShape
  <1> QED
    BY <1>1, <1>2 DEF GuidedFits, FormState

LEMMA ReportKeeps ==
    ASSUME FormInv, InGuided, NEW g \in Guided, g.custom, g.useKey => g.name = "",
           g.text = guided.text, UpdateFromGuided(g)
    PROVE  FormInv'
  <1>1. Editing /\ guided # Absent /\ UNCHANGED <<service, metric, request>>
    BY DEF InGuided, UpdateFromGuided
  <1>2. CASE Complete(g)
    <2>1. guided' = [g EXCEPT !.text = MappingOf(g)]
          /\ form' = [form EXCEPT !.schema = MappingOf(g)]
      BY <1>2 DEF UpdateFromGuided
    <2>2. MappingOf(g) \in Configs
      BY <1>2, ReportFits DEF Configs
    <2>3. guided' \in Guided /\ GuidedFits(guided', MappingOf(g))
      BY <1>2, <2>1, ReportFits
    <2> QED BY <1>1, <2>1, <2>2, <2>3, SchemaEdited
  <1>3. CASE ~Complete(g)
    <2>1. guided' = g /\ form' = form
      BY <1>3 DEF UpdateFromGuided
    <2>2. form.schema.kind # "metrics" /\ form.schema \in Configs
          /\ TextFits(g.text, form.schema) /\ form = [form EXCEPT !.schema = form.schema]
      BY <1>1, GuidedIs DEF GuidedFits
    <2>3. GuidedFits(g, form.schema)
      BY <1>3, <2>2 DEF GuidedFits
    <2>4. form' = [form EXCEPT !.schema = form.schema]
      BY <2>1, <2>2
    <2> QED BY <1>1, <2>1, <2>2, <2>3, <2>4, SchemaEdited
  <1> QED BY <1>2, <1>3

LEMMA GuidedKeeps == ASSUME FormInv, EditGuided PROVE FormInv'
  <1>1. InGuided /\ guided # Absent /\ guided.custom
    BY DEF EditGuided, InGuided
  <1>2. guided \in Guided /\ (guided.useKey => guided.name = "")
    BY <1>1, GuidedIs
  <1>3. ASSUME NEW r \in {"", "r"}, UpdateFromGuided([guided EXCEPT !.root = r])
        PROVE  FormInv'
    <2> DEFINE g == [guided EXCEPT !.root = r]
    <2>1. g \in Guided /\ g.custom /\ (g.useKey => g.name = "") /\ g.text = guided.text
      BY <1>1, <1>2 DEF Guided
    <2> HIDE DEF g
    <2> QED BY <1>1, <1>3, <2>1, ReportKeeps DEF g
  <1>4. ASSUME NEW n \in {"", "n"}, ~guided.useKey, UpdateFromGuided([guided EXCEPT !.name = n])
        PROVE  FormInv'
    <2> DEFINE g == [guided EXCEPT !.name = n]
    <2>1. g \in Guided /\ g.custom /\ (g.useKey => g.name = "") /\ g.text = guided.text
      BY <1>1, <1>2, <1>4 DEF Guided
    <2> HIDE DEF g
    <2> QED BY <1>1, <1>4, <2>1, ReportKeeps DEF g
  <1>5. ASSUME NEW l \in {"", "l"}, UpdateFromGuided([guided EXCEPT !.latency = l])
        PROVE  FormInv'
    <2> DEFINE g == [guided EXCEPT !.latency = l]
    <2>1. g \in Guided /\ g.custom /\ (g.useKey => g.name = "") /\ g.text = guided.text
      BY <1>1, <1>2 DEF Guided
    <2> HIDE DEF g
    <2> QED BY <1>1, <1>5, <2>1, ReportKeeps DEF g
  <1> QED BY <1>3, <1>4, <1>5 DEF EditGuided

LEMMA UseKeyKeeps == ASSUME FormInv, ToggleUseKey PROVE FormInv'
  <1> DEFINE name == IF guided.useKey THEN guided.name ELSE ""
             g == [guided EXCEPT !.useKey = ~guided.useKey, !.name = name]
  <1>1. InGuided /\ guided # Absent /\ guided.custom /\ UpdateFromGuided(g)
    BY DEF ToggleUseKey, InGuided
  <1>2. guided \in Guided /\ (guided.useKey => guided.name = "")
    BY <1>1, GuidedIs
  <1>3. name = ""
    BY <1>2
  <1>4. g \in Guided /\ g.custom /\ (g.useKey => g.name = "") /\ g.text = guided.text
    <2> HIDE DEF name
    <2> QED BY <1>1, <1>2, <1>3 DEF Guided
  <1> HIDE DEF g
  <1> QED BY <1>1, <1>4, ReportKeeps

LEMMA ModeKeeps == ASSUME FormInv, NEW custom \in BOOLEAN, HandleModeChange(custom) PROVE FormInv'
  <1>1. Editing /\ guided # Absent /\ UNCHANGED <<service, metric, request>>
    BY DEF HandleModeChange
  <1>2. guided \in Guided /\ form.schema \in Configs /\ GuidedFits(guided, form.schema)
        /\ form = [form EXCEPT !.schema = form.schema]
    BY <1>1, GuidedIs
  <1>3. CASE custom
    <2>1. guided' = [guided EXCEPT !.custom = TRUE] /\ form' = form
      BY <1>3 DEF HandleModeChange
    <2>2. guided' \in Guided /\ guided'.custom /\ guided'.root = guided.root
          /\ guided'.useKey = guided.useKey /\ guided'.name = guided.name
          /\ guided'.latency = guided.latency /\ guided.custom \in BOOLEAN
          /\ guided'.text = guided.text
      BY <1>2, <2>1 DEF Guided
    <2>3. GuidedFits(guided', form.schema)
      <3>1. TextFits(guided'.text, form.schema)
        BY <1>2, <2>2 DEF GuidedFits
      <3> QED BY <1>2, <2>2, <3>1, FitsAlike
    <2>4. form' = [form EXCEPT !.schema = form.schema]
      BY <1>2, <2>1
    <2> QED BY <1>1, <1>2, <2>2, <2>3, <2>4, SchemaEdited
  <1>4. CASE ~custom
    <2>1. guided' = [EmptyGuided EXCEPT !.advanced = guided.advanced]
          /\ form' = [form EXCEPT !.schema = NoConfig]
      BY <1>4 DEF HandleModeChange
    <2>2. EmptyGuided \in Guided /\ guided.advanced \in BOOLEAN
      BY <1>2, Kinds, MountedFits DEF Guided
    <2>3. ~EmptyGuided.custom /\ ~EmptyGuided.useKey /\ EmptyGuided.root = ""
          /\ EmptyGuided.text.kind = "empty"
      BY DEF EmptyGuided
    <2>4. guided' \in Guided /\ ~guided'.custom /\ ~guided'.useKey /\ guided'.root = ""
          /\ guided'.text.kind = "empty"
      BY <2>1, <2>2, <2>3 DEF Guided
    <2>5. GuidedFits(guided', NoConfig)
      BY <2>4, Kinds DEF GuidedFits, TextFits
    <2> QED BY <1>1, <2>1, <2>4, <2>5, Kinds, SchemaEdited
  <1> QED BY <1>3, <1>4

LEMMA JsonKeeps == ASSUME FormInv, NEW text \in Typed, HandleJsonChange(text) PROVE FormInv'
  <1>1. Editing /\ guided # Absent /\ guided.custom /\ UNCHANGED <<service, metric, request>>
    BY DEF HandleJsonChange
  <1>2. guided \in Guided /\ form.schema \in Configs /\ GuidedFits(guided, form.schema)
        /\ form = [form EXCEPT !.schema = form.schema]
    BY <1>1, GuidedIs
  <1>3. text \in Mapping \cup Text
    BY FormConstants
  <1>4. CASE text.kind = "mapping"
    <2> DEFINE s == ShowMapping(guided, text)
    <2>1. text \in Mapping
      BY <1>3, <1>4 DEF Text
    <2>2. s \in Guided /\ (s.useKey => s.name = "")
      BY <1>2, <2>1, ShownIs
    <2>3. Displays(s, text) /\ s.custom
      BY <1>1, <1>2 DEF ShowMapping, Displays, Guided
    <2>4. guided' = [s EXCEPT !.text = text] /\ form' = [form EXCEPT !.schema = text]
      BY <1>4 DEF HandleJsonChange
    <2> HIDE DEF s
    <2>5. guided' \in Guided /\ guided'.root = s.root /\ guided'.useKey = s.useKey
          /\ guided'.name = s.name /\ guided'.latency = s.latency /\ guided'.custom
          /\ guided'.text = text
      BY <1>3, <2>2, <2>3, <2>4 DEF Guided
    <2>6. Displays(guided', text)
      BY <2>3, <2>5 DEF Displays
    <2>7. ShowMapping(guided', text) = guided'
      BY <2>1, <2>5, <2>6, ShownIs
    <2>8. GuidedFits(guided', text) /\ text \in Configs
      BY <1>4, <2>1, <2>2, <2>5, <2>7 DEF GuidedFits, TextFits, Configs
    <2> QED BY <1>1, <2>4, <2>5, <2>8, SchemaEdited
  <1>5. CASE text.kind # "mapping"
    <2>1. guided' = [guided EXCEPT !.text = text] /\ form' = form
      BY <1>5 DEF HandleJsonChange
    <2>2. guided' \in Guided /\ guided'.custom = guided.custom /\ guided'.root = guided.root
          /\ guided'.useKey = guided.useKey /\ guided'.name = guided.name
          /\ guided'.latency = guided.latency /\ guided'.text = text
      BY <1>2, <1>3, <2>1 DEF Guided
    <2>3. GuidedFits(guided', form.schema)
      BY <1>2, <1>5, <2>2, FitsAlike DEF TextFits
    <2>4. form' = [form EXCEPT !.schema = form.schema]
      BY <1>2, <2>1
    <2> QED BY <1>1, <1>2, <2>2, <2>3, <2>4, SchemaEdited
  <1> QED BY <1>4, <1>5

LEMMA AdvancedKeeps == ASSUME FormInv, ToggleAdvanced PROVE FormInv'
  <1> DEFINE text == IF ~guided.advanced /\ Complete(guided) THEN MappingOf(guided) ELSE guided.text
  <1>1. Editing /\ guided # Absent /\ form' = form /\ UNCHANGED <<service, metric, request>>
        /\ guided' = [guided EXCEPT !.advanced = ~guided.advanced, !.text = text]
    BY DEF ToggleAdvanced
  <1>2. guided \in Guided /\ form.schema \in Configs /\ GuidedFits(guided, form.schema)
        /\ form = [form EXCEPT !.schema = form.schema]
    BY <1>1, GuidedIs
  <1>3. text \in Mapping \cup Text
    BY <1>2, MappingTyped DEF Guided
  <1>7. TextFits(text, form.schema)
    <2>1. guided.custom /\ TextFits(guided.text, form.schema)
      BY <1>2 DEF ToggleAdvanced, GuidedFits
    <2>2. ASSUME Complete(guided)
          PROVE  TextFits(MappingOf(guided), form.schema)
      <3>1. form.schema \in Mapping /\ ShowMapping(guided, form.schema) = guided
        BY <1>2, <2>1, <2>2, Kinds DEF GuidedFits
      <3> QED BY <1>2, <2>2, <3>1, WrittenFits
    <2> QED BY <2>1, <2>2
  <1> HIDE DEF text
  <1>4. guided' \in Guided /\ guided'.custom = guided.custom /\ guided'.root = guided.root
        /\ guided'.useKey = guided.useKey /\ guided'.name = guided.name
        /\ guided'.latency = guided.latency /\ guided'.text = text
    BY <1>1, <1>2, <1>3 DEF Guided
  <1>5. GuidedFits(guided', form.schema)
    BY <1>2, <1>4, <1>7, FitsAlike
  <1>6. form' = [form EXCEPT !.schema = form.schema]
    BY <1>1, <1>2
  <1> QED BY <1>1, <1>2, <1>4, <1>5, <1>6, SchemaEdited

LEMMA MetricIs ==
    ASSUME FormInv, metric # Absent
    PROVE  /\ metric \in Metric /\ form # Absent /\ form \in FormState
           /\ form.metrics \in {NoConfig} \cup Config /\ MetricFits(metric, form.metrics)
           /\ form = [form EXCEPT !.metrics = form.metrics]
  <1>1. metric \in Metric /\ form # Absent /\ form \in FormState
        /\ form.metrics \in {NoConfig} \cup Config
    BY FormIs
  <1>2. MetricFits(metric, form.metrics)
    BY <1>1 DEF FormInv, FormShape
  <1> QED
    BY <1>1, <1>2 DEF FormState

LEMMA AddRowKeeps == ASSUME FormInv, AddRow PROVE FormInv'
  <1> DEFINE more == [metric EXCEPT !.rows = Append(@, [key |-> "", field |-> FirstField])]
  <1>1. Editing /\ metric # Absent /\ metric' = more /\ form' = form
        /\ UNCHANGED <<service, guided, request>>
    BY DEF AddRow
  <1>2. metric \in Metric /\ form.metrics \in {NoConfig} \cup Config
        /\ MetricFits(metric, form.metrics) /\ form = [form EXCEPT !.metrics = form.metrics]
    BY <1>1, MetricIs
  <1>3. more \in Metric /\ MetricFits(more, form.metrics)
    BY <1>2, RowAddedFits
  <1> HIDE DEF more
  <1>4. form' = [form EXCEPT !.metrics = form.metrics]
    BY <1>1, <1>2
  <1>5. metric' \in Metric /\ MetricFits(metric', form.metrics)
    BY <1>1, <1>3
  <1> QED BY <1>1, <1>2, <1>4, <1>5, MetricsEdited

LEMMA EmitKeeps ==
    ASSUME FormInv, Editing, metric # Absent, NEW e \in Metric, EmitChange(e)
    PROVE  FormInv'
  <1>1. metric' = e /\ form' = [form EXCEPT !.metrics = ConfigOf(e)]
        /\ UNCHANGED <<service, guided, request>>
    BY DEF EmitChange
  <1>2. ConfigOf(e) \in {NoConfig} \cup Config /\ MetricFits(metric', ConfigOf(e))
    BY <1>1, ConfigSaid
  <1> QED BY <1>1, <1>2, MetricsEdited

LEMMA EditMetricKeeps == ASSUME FormInv, EditMetric PROVE FormInv'
  <1>1. Editing /\ metric # Absent
    BY DEF EditMetric
  <1>2. metric \in Metric
    BY <1>1, MetricIs
  <1>3. ASSUME NEW i \in DOMAIN metric.rows,
               EmitChange([metric EXCEPT !.rows = RemoveAt(@, i)])
        PROVE  FormInv'
    BY <1>1, <1>2, <1>3, RowsEdited, EmitKeeps
  <1>4. ASSUME NEW i \in DOMAIN metric.rows, NEW k \in MetricKeys \cup {""},
               EmitChange([metric EXCEPT !.rows[i].key = k])
        PROVE  FormInv'
    BY <1>1, <1>2, <1>4, RowsEdited, EmitKeeps
  <1>5. ASSUME NEW i \in DOMAIN metric.rows, NEW f \in MetricFields,
               EmitChange([metric EXCEPT !.rows[i].field = f])
        PROVE  FormInv'
    BY <1>1, <1>2, <1>5, RowsEdited, EmitKeeps
  <1>6. ASSUME EmitChange([metric EXCEPT !.seconds = ~@])
        PROVE  FormInv'
    <2>1. [metric EXCEPT !.seconds = ~@] \in Metric
      BY <1>2 DEF Metric
    <2> QED BY <1>1, <1>6, <2>1, EmitKeeps
  <1> QED BY <1>3, <1>4, <1>5, <1>6 DEF EditMetric

----------------------------------------------------------------------------
(* The server's steps. *)

\* What a request may name of a row.
Part(p) ==
    /\ Has(p, "fmt") => p.fmt \in Formats
    /\ Has(p, "endpoint") => p.endpoint \in {""} \cup Endpoints
    /\ Has(p, "config") => p.config \in Configs
    /\ ~Has(p, "interval")

LEMMA StoredTyped ==
    /\ \A fmt : \A c \in Configs : Stored(fmt, c) \in Configs
    /\ \A p : Part(p) /\ Has(p, "config") => ConfigToStore(p) \in Configs
  <1>1. \A fmt : \A c \in Configs : Stored(fmt, c) \in Configs
    BY Kinds DEF Stored
  <1> QED BY <1>1 DEF ConfigToStore, Part

LEMMA UpdatedTyped ==
    ASSUME NEW row \in Row, NEW p, Part(p)
    PROVE  Updated(row, p) \in Row
  <1> DEFINE u == Updated(row, p)
  <1>1. /\ row.fmt \in Formats /\ row.endpoint \in {""} \cup Endpoints
        /\ row.interval \in Intervals /\ row.config \in Configs
        /\ DOMAIN row = {"fmt", "endpoint", "interval", "config"}
    BY DEF Row, Configs
  <1>2. /\ u.fmt = (IF Has(p, "fmt") THEN p.fmt ELSE row.fmt)
        /\ u.endpoint = (IF Has(p, "endpoint") THEN p.endpoint ELSE row.endpoint)
        /\ u.interval = (IF Has(p, "interval") THEN p.interval ELSE row.interval)
        /\ u.config = (IF Has(p, "config") THEN ConfigToStore(p) ELSE row.config)
    BY <1>1 DEF Updated
  <1>3. u = [row EXCEPT !.fmt = u.fmt, !.endpoint = u.endpoint, !.interval = u.interval,
                        !.config = u.config]
    BY <1>1 DEF Updated
  <1>4. u.fmt \in Formats /\ u.endpoint \in {""} \cup Endpoints
        /\ u.interval \in Intervals /\ u.config \in Configs
    BY <1>1, <1>2, StoredTyped DEF Part
  <1> HIDE DEF u
  <1>5. u \in Row
    BY <1>3, <1>4 DEF Row, Configs
  <1> QED BY <1>5 DEF u

LEMMA PutsAreParts == ASSUME NEW p \in Puts PROVE Part(p)
  <1>1. PICK whole \in Put :
           DOMAIN p \subseteq DOMAIN whole /\ \A field \in DOMAIN p : p[field] = whole[field]
    BY FormConstants
  <1>2. whole.fmt \in Formats /\ whole.endpoint \in Endpoints /\ whole.config \in Configs
        /\ DOMAIN whole = {"fmt", "endpoint", "config"}
    BY DEF Put, Configs
  <1> QED BY <1>1, <1>2 DEF Part, Has

LEMMA SentIsPart ==
    ASSUME NEW p \in Sent
    PROVE  Part(p) /\ Has(p, "fmt") /\ Has(p, "endpoint") /\ Has(p, "config")
  <1>1. p.fmt \in Formats /\ p.endpoint \in Endpoints /\ p.config \in Configs
        /\ DOMAIN p = {"fmt", "endpoint", "config", "edit"}
    BY DEF Sent
  <1> QED BY <1>1 DEF Part, Has

LEMMA CreatedTyped == ASSUME NEW p \in Sent PROVE Created(p) \in Row
  <1>1. p.fmt \in Formats /\ p.endpoint \in Endpoints /\ p.config \in Configs
    BY DEF Sent
  <1>2. Stored(p.fmt, p.config) \in Configs
    BY <1>1, StoredTyped
  <1> QED BY <1>1, <1>2 DEF Created, Row, Configs, Intervals

LEMMA ServerKeeps ==
    ASSUME FormInv, Submit \/ CreateService \/ UpdateService \/ RequestFails \/ AutoCreate
                    \/ \E p \in Puts : PutElsewhere(p)
    PROVE  FormInv'
  <1>1. service \in Row \cup {Absent} /\ (request # Absent => request \in Sent)
    BY DEF FormInv, FormTypeOK, FormRequest
  <1>2. CASE Submit
    BY <1>1, <1>2, FormLeft DEF Submit, Editing
  <1>3. CASE CreateService
    <2>1. request \in Sent /\ request' = Absent
      BY <1>1, <1>3 DEF CreateService
    <2>2. (service' = Created(request) /\ Done) \/ UNCHANGED <<service, form, guided, metric>>
      BY <1>3 DEF CreateService, Refuse
    <2> QED BY <1>1, <2>1, <2>2, CreatedTyped, FormClosed, FormLeft
  <1>4. CASE UpdateService
    <2>1. request \in Sent /\ request' = Absent
      BY <1>1, <1>4 DEF UpdateService
    <2>2. \/ service # Absent /\ service' = Updated(service, request) /\ Done
          \/ UNCHANGED <<service, form, guided, metric>>
      BY <1>4 DEF UpdateService, Refuse
    <2> QED BY <1>1, <2>1, <2>2, SentIsPart, UpdatedTyped, FormClosed, FormLeft
  <1>5. CASE RequestFails
    BY <1>1, <1>5, FormLeft DEF RequestFails, Refuse
  <1>6. CASE AutoCreate
    <2>1. service' \in Row
      BY <1>6 DEF AutoCreate, Row, Formats, Intervals
    <2> QED BY <1>6, <2>1, FormLeft DEF AutoCreate
  <1>7. ASSUME NEW p \in Puts, PutElsewhere(p)
        PROVE  FormInv'
    <2>1. service \in Row /\ service' = Updated(service, p)
          /\ UNCHANGED <<form, guided, metric, request>>
      BY <1>1, <1>7 DEF PutElsewhere
    <2> QED BY <2>1, PutsAreParts, UpdatedTyped, FormLeft
  <1> QED BY <1>2, <1>3, <1>4, <1>5, <1>6, <1>7

LEMMA FormStarts == FormInit => FormInv
  BY DEF FormInit, FormInv, FormTypeOK, FormShape, FormRequest

LEMMA FormKeeps ==
    ASSUME FormInv, FormNext \/ UNCHANGED formVars
    PROVE  FormInv'
  <1>1. CASE UNCHANGED formVars
    BY <1>1 DEF formVars, FormInv, FormTypeOK, FormShape, FormRequest
  <1>2. CASE Cancel
    <2>1. Done /\ service' = service /\ request' = request /\ service \in Row \cup {Absent}
      BY <1>2 DEF Cancel, Done, FormInv, FormTypeOK
    <2> QED BY <2>1, FormClosed
  <1> QED
    BY <1>1, <1>2, OpenKeeps, EndpointKeeps, ChooseKeeps, GuidedKeeps, UseKeyKeeps,
       AdvancedKeeps, ModeKeeps, JsonKeeps, AddRowKeeps, EditMetricKeeps, ServerKeeps
    DEF FormNext

----------------------------------------------------------------------------
(* What is saved is what was shown. *)

\* The configuration that the form sends says what its editor shows.
LEMMA SentAsShown ==
    ASSUME FormInv, form # Absent
    PROVE  ShownConfig(Stored(form.fmt, SentConfig(form)))
  <1>1. form.fmt \in Formats
    BY FormIs
  <1>2. CASE form.fmt = "default"
    BY <1>2 DEF ShownConfig, Stored
  <1>3. CASE form.fmt = "schema"
    <2>1. guided # Absent /\ GuidedFits(guided, form.schema)
      BY <1>3 DEF FormInv, FormShape
    <2>2. Stored(form.fmt, SentConfig(form)) = form.schema
      BY <1>3 DEF Stored, SentConfig
    <2> QED BY <1>3, <2>1, <2>2 DEF ShownConfig, GuidedFits, TextFits
  <1>4. CASE form.fmt \in MetricFormats
    <2>1. form.fmt # "schema" /\ form.fmt # "default"
      BY <1>4 DEF MetricFormats
    <2>2. metric # Absent /\ MetricFits(metric, form.metrics)
      BY <1>4 DEF FormInv, FormShape
    <2>3. Stored(form.fmt, SentConfig(form)) = form.metrics
      BY <1>4, <2>1 DEF Stored, SentConfig
    <2> QED BY <2>1, <2>2, <2>3 DEF ShownConfig, MetricFits
  <1> QED BY <1>1, <1>2, <1>3, <1>4 DEF Formats, MetricFormats

LEMMA FormSaves ==
    ASSUME FormInv, FormNext \/ UNCHANGED formVars
    PROVE  FormSaved
  <1> SUFFICES ASSUME form # Absent, request # Absent, request' = Absent, form' = Absent
               PROVE  /\ service'.fmt = form.fmt
                      /\ service'.endpoint = (IF form.fmt = "otlp" THEN "" ELSE form.endpoint)
                      /\ ShownConfig(service'.config)
    BY DEF FormSaved
  <1>1. request = Payload(form) /\ request \in Sent
    BY DEF FormInv, FormRequest
  <1>2. CreateService \/ UpdateService
    BY DEF FormNext, formVars, OpenForm, Cancel, TypeEndpoint, ChooseFormat, EditGuided,
           UpdateFromGuided, ToggleUseKey, ToggleAdvanced, HandleModeChange, HandleJsonChange,
           AddRow, EditMetric, EmitChange, Submit, RequestFails, Refuse, PutElsewhere,
           AutoCreate
  <1>3. \/ service' = Created(request)
        \/ service \in Row /\ service' = Updated(service, request)
    BY <1>2, FormIs DEF CreateService, UpdateService, Refuse
  <1>4. /\ service'.fmt = request.fmt /\ service'.endpoint = request.endpoint
        /\ service'.config = Stored(request.fmt, request.config)
    <2>1. CASE service' = Created(request)
      BY <2>1 DEF Created
    <2>2. CASE service \in Row /\ service' = Updated(service, request)
      <3>1. DOMAIN service = {"fmt", "endpoint", "interval", "config"}
        BY <2>2 DEF Row
      <3>2. Has(request, "fmt") /\ Has(request, "endpoint") /\ Has(request, "config")
        BY <1>1, SentIsPart
      <3> QED BY <2>2, <3>1, <3>2 DEF Updated, ConfigToStore
    <2> QED BY <1>3, <2>1, <2>2
  <1>5. /\ request.fmt = form.fmt /\ request.config = SentConfig(form)
        /\ request.endpoint = (IF form.fmt = "otlp" THEN "" ELSE form.endpoint)
    BY <1>1 DEF Payload
  <1> QED BY <1>4, <1>5, SentAsShown

----------------------------------------------------------------------------
(* Loads of the panels of a team's alert settings. *)

LoadOf(lists) == {NoLoad, Asked, Failed} \cup {RowsRead(rows) : rows \in lists}

LEMMA LoadStates ==
    /\ NoLoad # Asked /\ NoLoad # Failed /\ Asked # Failed
    /\ \A lists : NoLoad \in LoadOf(lists) /\ Asked \in LoadOf(lists) /\ Failed \in LoadOf(lists)
    /\ \A lists : \A rows \in lists : RowsRead(rows) \in LoadOf(lists)
    /\ \A lists : \A l \in LoadOf(lists) :
          l \notin {NoLoad, Asked} /\ l # Failed => l.rows \in lists
    /\ \A rows : RowsRead(rows) # NoLoad /\ RowsRead(rows) # Asked /\ RowsRead(rows) # Failed
    /\ Failed.rows = None
  <1>1. NoLoad # Asked /\ NoLoad # Failed /\ Asked # Failed /\ Failed.rows = None
    BY DEF NoLoad, Asked, Failed, LoadIn
  <1>2. \A rows : RowsRead(rows).rows = rows /\ RowsRead(rows) # NoLoad
                  /\ RowsRead(rows) # Asked /\ RowsRead(rows) # Failed
    BY DEF RowsRead, NoLoad, Asked, Failed, LoadIn
  <1> QED BY <1>1, <1>2 DEF LoadOf

----------------------------------------------------------------------------
(* The panel of the channels. *)

ChannelForm ==
    [editing : ChannelIds \cup {None}, type : ChannelTypes, slackUrl : TypedUrls \cup {""},
     hookUrl : TypedUrls \cup {""}, header : HeaderValues \cup {None}, showUrl : BOOLEAN]
ListedChannel == [type : ChannelTypes, active : BOOLEAN, header : {"mask", None}]
ChannelList == [ChannelIds -> ListedChannel \cup {None}]
ChannelSent == [type : ChannelTypes] \cup [type : ChannelTypes, config : ChannelConfig]
ChannelCall == [kind : {"create", "update", "toggle", "test", "delete"}, id : ChannelIds,
                sent : ChannelSent \cup [active : BOOLEAN] \cup {<<>>}]
ChannelPanel ==
    [list : ChannelList, loading : BOOLEAN, loads : [{"mount", "call"} -> LoadOf(ChannelList)],
     form : ChannelForm \cup {None}, deleteId : ChannelIds \cup {None},
     call : ChannelCall \cup {None}]

\* What a form has sent is what it shows.
CallOfForm(p) ==
    p.call # None /\ p.call.kind \in {"create", "update"} =>
       /\ p.form # None /\ p.call.sent = SentByForm(p.form)
       /\ p.form.showUrl => FormUrl(p.form) # ""
       /\ p.call.kind = "create" => p.form.editing = None
       /\ p.call.kind = "update" => p.call.id = p.form.editing
ChannelFits(p) ==
    /\ p \in ChannelPanel /\ CallOfForm(p)
    /\ p.form # None => p.form.editing # None \/ p.form.showUrl
    /\ p.call # None /\ p.call.kind = "toggle" => p.call.sent \in [active : BOOLEAN]
    /\ p.loads["call"] # NoLoad => p.call # None

ChannelInv ==
    /\ channelRows \in [ChannelIds -> ChannelRow \cup {None}]
    /\ ruleRow \in AlertRule \cup {None}
    /\ ChannelFits(channelPanel)

LEMMA DefaultTyped == DefaultRule \in AlertRule
  BY DEF DefaultRule, AlertRule

LEMMA PanelIs ==
    ASSUME NEW p \in ChannelPanel
    PROVE  /\ p.list \in ChannelList /\ p.loads \in [{"mount", "call"} -> LoadOf(ChannelList)]
           /\ p.form \in ChannelForm \cup {None} /\ p.deleteId \in ChannelIds \cup {None}
           /\ p.call \in ChannelCall \cup {None}
           /\ p.loads["call"] \in LoadOf(ChannelList) /\ p.loads["mount"] \in LoadOf(ChannelList)
  BY DEF ChannelPanel

\* A panel that differs in one field, or in some that the rest does not look at.
LEMMA FormSet ==
    ASSUME NEW p, ChannelFits(p), NEW f \in ChannelForm \cup {None},
           f # None => f.editing # None \/ f.showUrl,
           p.call # None => p.call.kind \notin {"create", "update"}
    PROVE  ChannelFits([p EXCEPT !.form = f])
  <1> DEFINE q == [p EXCEPT !.form = f]
  <1>1. q \in ChannelPanel /\ q.form = f /\ q.call = p.call /\ q.loads = p.loads
    BY DEF ChannelFits, ChannelPanel
  <1> HIDE DEF q
  <1>2. ChannelFits(q)
    BY <1>1 DEF ChannelFits, CallOfForm
  <1> QED BY <1>2 DEF q

LEMMA CallSet ==
    ASSUME NEW p, ChannelFits(p), p.call = None, NEW call \in ChannelCall,
           call.kind = "toggle" => call.sent \in [active : BOOLEAN],
           CallOfForm([p EXCEPT !.call = call])
    PROVE  ChannelFits([p EXCEPT !.call = call])
  <1> DEFINE q == [p EXCEPT !.call = call]
  <1>1. q \in ChannelPanel /\ q.form = p.form /\ q.call = call /\ q.loads = p.loads
    BY DEF ChannelFits, ChannelPanel
  <1>2. CallOfForm(q)
    OBVIOUS
  <1> HIDE DEF q
  <1>3. ChannelFits(q)
    BY <1>1, <1>2 DEF ChannelFits
  <1> QED BY <1>3 DEF q

LEMMA DeleteIdSet ==
    ASSUME NEW p, ChannelFits(p), NEW c \in ChannelIds \cup {None}
    PROVE  ChannelFits([p EXCEPT !.deleteId = c])
  <1> DEFINE q == [p EXCEPT !.deleteId = c]
  <1>1. q \in ChannelPanel /\ q.form = p.form /\ q.call = p.call /\ q.loads = p.loads
    BY DEF ChannelFits, ChannelPanel
  <1> HIDE DEF q
  <1>2. ChannelFits(q)
    BY <1>1 DEF ChannelFits, CallOfForm
  <1> QED BY <1>2 DEF q

Loaded(p, l, load, loading, list) ==
    [p EXCEPT !.loads[l] = load, !.loading = loading, !.list = list]

LEMMA LoadsSet ==
    ASSUME NEW p, ChannelFits(p), NEW l \in {"mount", "call"}, NEW load \in LoadOf(ChannelList),
           NEW loading \in BOOLEAN, NEW list \in ChannelList,
           l = "call" => p.call # None \/ load = NoLoad
    PROVE  /\ ChannelFits(Loaded(p, l, load, loading, list))
           /\ Loaded(p, l, load, loading, list).loads[l] = load
  <1> DEFINE loads == [p.loads EXCEPT ![l] = load]
             q == [p EXCEPT !.loads = loads, !.loading = loading, !.list = list]
  <1>1. p \in ChannelPanel
    BY DEF ChannelFits
  <1>2. loads \in [{"mount", "call"} -> LoadOf(ChannelList)] /\ loads[l] = load
        /\ (l = "mount" => loads["call"] = p.loads["call"])
    BY <1>1, PanelIs
  <1>3. q = Loaded(p, l, load, loading, list)
    BY <1>1 DEF ChannelPanel, Loaded
  <1> HIDE DEF loads
  <1>4. q \in ChannelPanel /\ q.form = p.form /\ q.call = p.call /\ q.loads = loads
    BY <1>1, <1>2 DEF ChannelPanel
  <1>5. q.loads["call"] # NoLoad => p.call # None
    BY <1>2, <1>4 DEF ChannelFits
  <1> HIDE DEF q
  <1>6. ChannelFits(q)
    BY <1>4, <1>5 DEF ChannelFits, CallOfForm
  <1> QED BY <1>2, <1>3, <1>4, <1>6

LEMMA EndedFits ==
    ASSUME NEW p, ChannelFits(p), p.loads["call"] = NoLoad, NEW done \in BOOLEAN
    PROVE  ChannelFits(Ended(p, done)) /\ Ended(p, done).loads = p.loads
  <1> DEFINE newForm == IF done /\ p.call.kind \in {"create", "update"} THEN None ELSE p.form
             deleteId == IF p.call.kind = "delete" THEN None ELSE p.deleteId
             q == [p EXCEPT !.call = None, !.form = newForm, !.deleteId = deleteId]
  <1>1. p \in ChannelPanel
    BY DEF ChannelFits
  <1>2. newForm \in ChannelForm \cup {None} /\ deleteId \in ChannelIds \cup {None}
        /\ (newForm # None => newForm = p.form)
    BY <1>1, PanelIs
  <1>3. Ended(p, done) = q
    BY DEF Ended
  <1> HIDE DEF newForm, deleteId
  <1>4. q \in ChannelPanel /\ q.form = newForm /\ q.call = None /\ q.loads = p.loads
    BY <1>1, <1>2 DEF ChannelPanel
  <1> HIDE DEF q
  <1>5. ChannelFits(q)
    BY <1>2, <1>4 DEF ChannelFits, CallOfForm
  <1> QED BY <1>3, <1>4, <1>5

LEMMA ReloadsFits ==
    ASSUME NEW p, ChannelFits(p), p.call # None
    PROVE  ChannelFits(Reloads(p))
  <1>1. p \in ChannelPanel
    BY DEF ChannelFits
  <1>2. Asked \in LoadOf(ChannelList) /\ p.list \in ChannelList
    BY <1>1, LoadStates, PanelIs
  <1>3. ChannelFits(Loaded(p, "call", Asked, TRUE, p.list))
    BY <1>2, LoadsSet
  <1>4. Reloads(p) = Loaded(p, "call", Asked, TRUE, p.list)
    BY <1>1 DEF Reloads, ChannelPanel, Loaded
  <1> QED BY <1>3, <1>4

----------------------------------------------------------------------------
(* The rows of channels. *)

LEMMA ListIs == ASSUME ChannelInv PROVE ListAlertChannels \in LoadOf(ChannelList)
  <1>1. ASSUME NEW c \in ChannelIds
        PROVE  MaskedChannel(channelRows[c]) \in ListedChannel \cup {None}
    <2>1. channelRows[c] \in ChannelRow \cup {None}
      BY DEF ChannelInv
    <2> QED BY <2>1 DEF MaskedChannel, ChannelRow, ListedChannel
  <1>2. [c \in ChannelIds |-> MaskedChannel(channelRows[c])] \in ChannelList
    BY <1>1 DEF ChannelList
  <1> QED BY <1>2, LoadStates DEF ListAlertChannels

\* What a form sends can be stored.
LEMMA FormConfigTyped ==
    ASSUME NEW f \in ChannelForm, FormUrl(f) # ""
    PROVE  FormConfig(f) \in ChannelConfig /\ FormConfig(f).kind = f.type
  <1>1. f.type \in ChannelTypes /\ f.header \in HeaderValues \cup {None}
        /\ f.slackUrl \in TypedUrls \cup {""} /\ f.hookUrl \in TypedUrls \cup {""}
    BY DEF ChannelForm
  <1>2. FormUrl(f) \in Urls
    BY <1>1, SettingsConstants DEF FormUrl
  <1>3. CASE f.type = "slack"
    BY <1>2, <1>3 DEF FormConfig, ChannelConfig
  <1>4. CASE f.type = "webhook"
    BY <1>1, <1>2, <1>4 DEF FormConfig, ChannelConfig
  <1> QED BY <1>1, <1>3, <1>4 DEF ChannelTypes

LEMMA SentByFormTyped ==
    ASSUME NEW f \in ChannelForm, f.showUrl => FormUrl(f) # "", f.editing # None \/ f.showUrl
    PROVE  /\ SentByForm(f) \in ChannelSent
           /\ f.showUrl => SentByForm(f) = [type |-> f.type, config |-> FormConfig(f)]
           /\ ~f.showUrl => SentByForm(f) = [type |-> f.type]
  <1>1. f.type \in ChannelTypes /\ f.showUrl \in BOOLEAN
    BY DEF ChannelForm
  <1>2. CASE f.showUrl
    BY <1>1, <1>2, FormConfigTyped DEF SentByForm, ChannelSent
  <1>3. CASE ~f.showUrl
    BY <1>1, <1>3 DEF SentByForm, ChannelSent
  <1> QED BY <1>2, <1>3

\* A request that names some of the fields of a row.
ChannelPart(sent) ==
    /\ Sends(sent, "type") => sent.type \in ChannelTypes
    /\ Sends(sent, "config") => sent.config \in ChannelConfig
    /\ Sends(sent, "active") => sent.active \in BOOLEAN
LEMMA PutTyped ==
    ASSUME NEW row \in ChannelRow, NEW sent, ChannelPart(sent)
    PROVE  /\ PutChannel(row, sent) \in ChannelRow
           /\ PutChannel(row, sent).type = IF Sends(sent, "type") THEN sent.type ELSE row.type
           /\ PutChannel(row, sent).config = IF Sends(sent, "config") THEN sent.config ELSE row.config
  <1> DEFINE u == PutChannel(row, sent)
  <1>1. /\ row.type \in ChannelTypes /\ row.config \in ChannelConfig /\ row.active \in BOOLEAN
        /\ DOMAIN row = {"type", "config", "active"}
    BY DEF ChannelRow
  <1>2. /\ u.type = (IF Sends(sent, "type") THEN sent.type ELSE row.type)
        /\ u.config = (IF Sends(sent, "config") THEN sent.config ELSE row.config)
        /\ u.active = (IF Sends(sent, "active") THEN sent.active ELSE row.active)
    BY <1>1 DEF PutChannel
  <1>3. u = [row EXCEPT !.type = u.type, !.config = u.config, !.active = u.active]
    BY <1>1 DEF PutChannel
  <1>4. u.type \in ChannelTypes /\ u.config \in ChannelConfig /\ u.active \in BOOLEAN
    BY <1>1, <1>2 DEF ChannelPart
  <1> HIDE DEF u
  <1>5. u \in ChannelRow
    BY <1>3, <1>4 DEF ChannelRow
  <1> QED BY <1>2, <1>5 DEF u

LEMMA SentAreParts ==
    /\ \A sent \in ChannelSent \cup [active : BOOLEAN] : ChannelPart(sent)
    /\ \A sent \in ChannelPuts : ChannelPart(sent)
  <1>1. \A sent \in [type : ChannelTypes] : ChannelPart(sent)
    BY DEF ChannelPart, Sends
  <1>2. \A sent \in [type : ChannelTypes, config : ChannelConfig] : ChannelPart(sent)
    BY DEF ChannelPart, Sends
  <1>3. \A sent \in [active : BOOLEAN] : ChannelPart(sent)
    BY DEF ChannelPart, Sends
  <1>4. ASSUME NEW sent \in ChannelPuts
        PROVE  ChannelPart(sent)
    <2>1. PICK whole \in ChannelRow :
             DOMAIN sent \subseteq DOMAIN whole /\ \A f \in DOMAIN sent : sent[f] = whole[f]
      BY SettingsConstants
    <2>2. whole.type \in ChannelTypes /\ whole.config \in ChannelConfig /\ whole.active \in BOOLEAN
      BY DEF ChannelRow
    <2> QED BY <2>1, <2>2 DEF ChannelPart, Sends
  <1> QED BY <1>1, <1>2, <1>3, <1>4 DEF ChannelSent

\* The rows stay well-typed.
LEMMA RowSet ==
    ASSUME ChannelInv, NEW c \in ChannelIds, NEW row \in ChannelRow \cup {None}
    PROVE  [channelRows EXCEPT ![c] = row] \in [ChannelIds -> ChannelRow \cup {None}]
           /\ [channelRows EXCEPT ![c] = row][c] = row
  BY DEF ChannelInv

LEMMA CreatesChannel ==
    ASSUME ChannelInv, NEW c \in ChannelIds, NEW sent, ChannelPart(sent),
           Sends(sent, "type"), Sends(sent, "config"), CreateChannel(c, sent)
    PROVE  /\ channelRows' \in [ChannelIds -> ChannelRow \cup {None}]
           /\ ruleRow' \in AlertRule \cup {None}
           /\ channelRows'[c] = [type |-> sent.type, config |-> sent.config, active |-> TRUE]
  <1> DEFINE row == [type |-> sent.type, config |-> sent.config, active |-> TRUE]
  <1>1. row \in ChannelRow
    BY DEF ChannelPart, ChannelRow
  <1>2. channelRows' = [channelRows EXCEPT ![c] = row]
        /\ ruleRow' = IF ruleRow = None THEN DefaultRule ELSE ruleRow
    BY DEF CreateChannel
  <1> HIDE DEF row
  <1>3. ruleRow' \in AlertRule \cup {None}
    BY <1>2, DefaultTyped DEF ChannelInv
  <1>4. channelRows' \in [ChannelIds -> ChannelRow \cup {None}] /\ channelRows'[c] = row
    BY <1>1, <1>2, RowSet
  <1> QED BY <1>3, <1>4 DEF row

----------------------------------------------------------------------------
(* The steps of the panel. *)

LEMMA PanelSet ==
    ASSUME ChannelInv, NEW p, ChannelFits(p), ToChannel(p)
    PROVE  ChannelInv'
  BY DEF ChannelInv, ToChannel, settingsRows

LEMMA FormOpens == ASSUME ChannelInv, OpenCreateForm PROVE ChannelInv'
  <1>1. NoForm \in ChannelForm /\ NoForm.showUrl
    BY DEF NoForm, ChannelForm, ChannelTypes
  <1>2. channelPanel.call # None => channelPanel.call.kind \notin {"create", "update"}
    BY DEF OpenCreateForm, ChannelInv, ChannelFits, CallOfForm
  <1>3. ChannelFits([channelPanel EXCEPT !.form = NoForm])
    BY <1>1, <1>2, FormSet DEF ChannelInv
  <1> QED BY <1>3, PanelSet DEF OpenCreateForm, EditChannelForm

LEMMA EditOpens == ASSUME ChannelInv, NEW c \in ChannelIds, OpenEditForm(c) PROVE ChannelInv'
  <1> DEFINE row == channelPanel.list[c]
             f == [NoForm EXCEPT !.editing = c, !.showUrl = FALSE, !.type = row.type,
                                 !.header = row.header]
  <1>1. row # None /\ channelPanel.call = None /\ EditChannelForm(f)
    BY DEF OpenEditForm, Listed, ChannelFree
  <1>2. row \in ListedChannel
    <2>1. channelPanel.list \in ChannelList
      BY PanelIs DEF ChannelInv, ChannelFits
    <2> QED BY <1>1, <2>1 DEF ChannelList
  <1>3. row.type \in ChannelTypes /\ row.header \in HeaderValues \cup {None}
    BY <1>2 DEF ListedChannel, HeaderValues
  <1> HIDE DEF row
  <1>4. NoForm \in ChannelForm
    BY DEF NoForm, ChannelForm, ChannelTypes
  <1>5. f \in ChannelForm /\ f.editing # None
    BY <1>3, <1>4, SettingsConstants DEF ChannelForm
  <1> HIDE DEF f
  <1>6. ChannelFits([channelPanel EXCEPT !.form = f])
    BY <1>1, <1>5, FormSet DEF ChannelInv
  <1> QED BY <1>1, <1>6, PanelSet DEF EditChannelForm

LEMMA FormFilled == ASSUME ChannelInv, FillChannelForm PROVE ChannelInv'
  <1> DEFINE f == channelPanel.form
  <1>1. channelPanel.call = None /\ f \in ChannelForm /\ (f.editing # None \/ f.showUrl)
    BY PanelIs DEF ChannelInv, ChannelFits, FillChannelForm, ChannelFree
  <1>2. \E g \in ChannelForm \cup {None} :
           (g # None => g.editing # None \/ g.showUrl) /\ EditChannelForm(g)
    <2> HIDE DEF f
    <2>0. \/ \E t \in ChannelTypes : EditChannelForm([f EXCEPT !.type = t])
          \/ EditChannelForm([f EXCEPT !.showUrl = TRUE])
          \/ \E u \in TypedUrls \cup {""} : EditChannelForm([f EXCEPT !.slackUrl = u])
          \/ \E u \in TypedUrls \cup {""} : EditChannelForm([f EXCEPT !.hookUrl = u])
          \/ \E h \in {"secret", None} : EditChannelForm([f EXCEPT !.header = h])
          \/ EditChannelForm(None)
      BY DEF FillChannelForm, f
    <2>1. \A t \in ChannelTypes : LET g == [f EXCEPT !.type = t]
             IN  g \in ChannelForm /\ (g.editing # None \/ g.showUrl)
      BY <1>1 DEF ChannelForm
    <2>2. LET g == [f EXCEPT !.showUrl = TRUE] IN g \in ChannelForm /\ g.showUrl
      BY <1>1 DEF ChannelForm
    <2>3. \A u \in TypedUrls \cup {""} : LET g == [f EXCEPT !.slackUrl = u]
             IN  g \in ChannelForm /\ (g.editing # None \/ g.showUrl)
      BY <1>1 DEF ChannelForm
    <2>4. \A u \in TypedUrls \cup {""} : LET g == [f EXCEPT !.hookUrl = u]
             IN  g \in ChannelForm /\ (g.editing # None \/ g.showUrl)
      BY <1>1 DEF ChannelForm
    <2>5. \A h \in {"secret", None} : LET g == [f EXCEPT !.header = h]
             IN  g \in ChannelForm /\ (g.editing # None \/ g.showUrl)
      BY <1>1 DEF ChannelForm, HeaderValues
    <2> QED BY <2>0, <2>1, <2>2, <2>3, <2>4, <2>5
  <1>3. PICK g \in ChannelForm \cup {None} :
           (g # None => g.editing # None \/ g.showUrl) /\ EditChannelForm(g)
    BY <1>2
  <1>4. ChannelFits([channelPanel EXCEPT !.form = g])
    BY <1>1, <1>3, FormSet DEF ChannelInv
  <1> QED BY <1>3, <1>4, PanelSet DEF EditChannelForm

LEMMA CallStarts ==
    ASSUME ChannelInv, channelPanel.call = None, NEW call \in ChannelCall,
           call.kind = "toggle" => call.sent \in [active : BOOLEAN],
           CallOfForm([channelPanel EXCEPT !.call = call]),
           ToChannel([channelPanel EXCEPT !.call = call])
    PROVE  ChannelInv'
  <1>1. ChannelFits([channelPanel EXCEPT !.call = call])
    BY CallSet DEF ChannelInv
  <1> QED BY <1>1, PanelSet

\* A call that no form has sent.
LEMMA OtherCallStarts ==
    ASSUME ChannelInv, channelPanel.call = None, NEW kind \in {"toggle", "test", "delete"},
           NEW c \in ChannelIds, NEW sent \in [active : BOOLEAN] \cup {<<>>},
           kind = "toggle" => sent \in [active : BOOLEAN], StartChannel(kind, c, sent)
    PROVE  ChannelInv'
  <1> DEFINE call == Call(kind, c, sent)
  <1>1. call \in ChannelCall /\ call.kind = kind /\ call.sent = sent
    BY DEF Call, ChannelCall
  <1> HIDE DEF call
  <1>2. [channelPanel EXCEPT !.call = call].call = call
    BY DEF ChannelInv, ChannelFits, ChannelPanel
  <1>3. CallOfForm([channelPanel EXCEPT !.call = call])
    BY <1>1, <1>2 DEF CallOfForm
  <1>4. ToChannel([channelPanel EXCEPT !.call = call])
    BY DEF StartChannel, call
  <1> QED BY <1>1, <1>3, <1>4, CallStarts

LEMMA Submits == ASSUME ChannelInv, SubmitChannel PROVE ChannelInv'
  <1> DEFINE f == channelPanel.form
  <1>1. /\ channelPanel.call = None /\ f # None /\ f \in ChannelForm
        /\ (f.showUrl => FormUrl(f) # "") /\ (f.editing # None \/ f.showUrl)
    BY PanelIs DEF ChannelInv, ChannelFits, SubmitChannel, ChannelFree
  <1>2. SentByForm(f) \in ChannelSent /\ f.editing \in ChannelIds \cup {None}
    BY <1>1, SentByFormTyped DEF ChannelForm
  <1>3. ASSUME NEW kind \in {"create", "update"}, NEW c \in ChannelIds,
               kind = "create" => f.editing = None, kind = "update" => c = f.editing,
               StartChannel(kind, c, SentByForm(f))
        PROVE  ChannelInv'
    <2> DEFINE call == Call(kind, c, SentByForm(f))
    <2>1. call \in ChannelCall /\ call.kind = kind /\ call.sent = SentByForm(f) /\ call.id = c
      BY <1>2 DEF Call, ChannelCall
    <2> HIDE DEF call
    <2> DEFINE q == [channelPanel EXCEPT !.call = call]
    <2>2. q.call = call /\ q.form = f
      BY DEF ChannelInv, ChannelFits, ChannelPanel
    <2>3. ToChannel(q)
      BY <1>3 DEF StartChannel, call
    <2> HIDE DEF q, f
    <2>4. CallOfForm(q)
      BY <1>1, <1>3, <2>1, <2>2 DEF CallOfForm
    <2> QED BY <1>1, <2>1, <2>3, <2>4, CallStarts DEF q
  <1>4. CASE f.editing # None
    <2>1. StartChannel("update", f.editing, SentByForm(f))
      BY <1>4 DEF SubmitChannel
    <2> QED BY <1>2, <1>3, <1>4, <2>1
  <1>5. CASE f.editing = None
    <2>1. \E c \in ChannelIds : StartChannel("create", c, SentByForm(f))
      BY <1>5 DEF SubmitChannel
    <2> QED BY <1>3, <1>5, <2>1
  <1> QED BY <1>4, <1>5

\* The call that the server takes next.
LEMMA CallIs ==
    ASSUME ChannelInv, CallPending
    PROVE  /\ channelPanel.call \in ChannelCall /\ channelPanel.call # None
           /\ channelPanel.call.id \in ChannelIds
           /\ channelPanel.call.kind \in {"create", "update", "toggle", "test", "delete"}
           /\ channelRows[channelPanel.call.id] \in ChannelRow \cup {None}
           /\ channelPanel.call.kind = "toggle" => channelPanel.call.sent \in [active : BOOLEAN]
           /\ channelPanel.call.kind \in {"create", "update"} =>
                 /\ channelPanel.form # None /\ channelPanel.form \in ChannelForm
                 /\ channelPanel.call.sent = SentByForm(channelPanel.form)
                 /\ channelPanel.call.sent \in ChannelSent
                 /\ channelPanel.form.showUrl =>
                       channelPanel.call.sent = [type |-> channelPanel.form.type,
                                                 config |-> FormConfig(channelPanel.form)]
                 /\ ~channelPanel.form.showUrl =>
                       channelPanel.call.sent = [type |-> channelPanel.form.type]
           /\ channelPanel.call.kind = "create" => channelPanel.form.showUrl
  <1> DEFINE p == channelPanel
  <1>1. ChannelFits(p) /\ p.call # None
    BY DEF ChannelInv, CallPending
  <1>2. p.call \in ChannelCall /\ p.form \in ChannelForm \cup {None}
    BY <1>1, PanelIs DEF ChannelFits
  <1>3. p.call.id \in ChannelIds
        /\ p.call.kind \in {"create", "update", "toggle", "test", "delete"}
    BY <1>2 DEF ChannelCall
  <1>4. channelRows[p.call.id] \in ChannelRow \cup {None}
    BY <1>3 DEF ChannelInv
  <1> HIDE DEF p
  <1>5. p.call.kind \in {"create", "update"} =>
           /\ p.form # None /\ p.form \in ChannelForm /\ p.call.sent = SentByForm(p.form)
           /\ p.form.showUrl => FormUrl(p.form) # ""
           /\ p.form.editing # None \/ p.form.showUrl
    BY <1>1, <1>2 DEF ChannelFits, CallOfForm
  <1>6. p.call.kind = "create" => p.form.showUrl
    BY <1>1, <1>5 DEF ChannelFits, CallOfForm
  <1>7. p.call.kind \in {"create", "update"} =>
           /\ p.call.sent \in ChannelSent
           /\ p.form.showUrl => p.call.sent = [type |-> p.form.type, config |-> FormConfig(p.form)]
           /\ ~p.form.showUrl => p.call.sent = [type |-> p.form.type]
    BY <1>5, SentByFormTyped
  <1>8. p.call.kind = "toggle" => p.call.sent \in [active : BOOLEAN]
    BY <1>1 DEF ChannelFits
  <1> QED
    BY <1>1, <1>2, <1>3, <1>4, <1>5, <1>6, <1>7, <1>8 DEF p

\* The four ends of a call.
ServedCreate ==
    /\ channelPanel.call.kind = "create"
    /\ CreateChannel(channelPanel.call.id, channelPanel.call.sent)
    /\ channelPanel' = Reloads(channelPanel)
ServedUpdate ==
    /\ channelPanel.call.kind \in {"update", "toggle"} /\ UNCHANGED ruleRow
    /\ channelRows[channelPanel.call.id] # None
    /\ ValidChannel(channelPanel.call.sent, channelRows[channelPanel.call.id])
    /\ LET new == PutChannel(channelRows[channelPanel.call.id], channelPanel.call.sent)
       IN  /\ channelRows' = [channelRows EXCEPT ![channelPanel.call.id] = new]
           /\ channelPanel' = IF Fits(new) THEN Reloads(channelPanel)
                              ELSE Ended(channelPanel, FALSE)
ServedDelete ==
    /\ channelPanel.call.kind = "delete" /\ UNCHANGED ruleRow
    /\ channelRows' = [channelRows EXCEPT ![channelPanel.call.id] = None]
    /\ channelPanel' \in {Reloads(channelPanel), Ended(channelPanel, FALSE)}
NotServed ==
    UNCHANGED <<channelRows, ruleRow>> /\ channelPanel' = Ended(channelPanel, FALSE)

LEMMA ServeIs ==
    ASSUME ChannelInv, ServeChannel
    PROVE  CallPending /\ (ServedCreate \/ ServedUpdate \/ ServedDelete \/ NotServed)
  <1>0. CallPending
    BY DEF ServeChannel
  <1>1. channelPanel.call.kind \in {"create", "update", "toggle", "test", "delete"}
    BY <1>0, CallIs
  <1>2. CASE channelPanel.call.kind = "create"
    BY <1>0, <1>2 DEF ServeChannel, ServedCreate
  <1>3. CASE channelPanel.call.kind \in {"update", "toggle"}
    BY <1>0, <1>3 DEF ServeChannel, ServedUpdate, NotServed
  <1>4. CASE channelPanel.call.kind = "delete"
    BY <1>0, <1>4 DEF ServeChannel, ServedDelete
  <1>5. CASE channelPanel.call.kind = "test"
    BY <1>0, <1>5 DEF ServeChannel, NotServed
  <1> QED BY <1>0, <1>1, <1>2, <1>3, <1>4, <1>5

LEMMA Served == ASSUME ChannelInv, ServeChannel PROVE ChannelInv'
  <1> DEFINE p == channelPanel
             c == channelPanel.call.id
             sent == channelPanel.call.sent
  <1>1. CallPending /\ ChannelFits(p) /\ p.loads["call"] = NoLoad
    BY DEF ServeChannel, CallPending, ChannelInv
  <1>2. c \in ChannelIds /\ p.call # None /\ channelRows[c] \in ChannelRow \cup {None}
    BY <1>1, CallIs
  <1>3. ChannelFits(Reloads(p)) /\ ChannelFits(Ended(p, FALSE))
    BY <1>1, <1>2, ReloadsFits, EndedFits
  <1>4. channelRows \in [ChannelIds -> ChannelRow \cup {None}] /\ ruleRow \in AlertRule \cup {None}
    BY DEF ChannelInv
  <1>5. CASE ServedCreate
    <2>1. p.call.kind = "create" /\ CreateChannel(c, sent) /\ channelPanel' = Reloads(p)
      BY <1>5 DEF ServedCreate
    <2>2. ChannelPart(sent) /\ Sends(sent, "type") /\ Sends(sent, "config")
      <3>1. sent \in ChannelSent /\ sent = [type |-> p.form.type, config |-> FormConfig(p.form)]
        BY <1>1, <2>1, CallIs
      <3> QED BY <3>1, SentAreParts DEF Sends
    <2> HIDE DEF p, c, sent
    <2>3. channelRows' \in [ChannelIds -> ChannelRow \cup {None}]
          /\ ruleRow' \in AlertRule \cup {None}
      BY <1>2, <2>1, <2>2, CreatesChannel
    <2> QED BY <1>3, <2>1, <2>3 DEF ChannelInv
  <1>6. CASE ServedUpdate
    <2> DEFINE new == PutChannel(channelRows[c], sent)
    <2>1. channelRows[c] # None /\ channelRows' = [channelRows EXCEPT ![c] = new]
          /\ UNCHANGED ruleRow /\ channelPanel' \in {Reloads(p), Ended(p, FALSE)}
      BY <1>6 DEF ServedUpdate
    <2>2. sent \in ChannelSent \cup [active : BOOLEAN]
      BY <1>1, <1>6, CallIs DEF ServedUpdate
    <2> HIDE DEF p, c, sent
    <2>3. new \in ChannelRow
      BY <1>2, <2>1, <2>2, SentAreParts, PutTyped
    <2> HIDE DEF new
    <2>4. channelRows' \in [ChannelIds -> ChannelRow \cup {None}]
      BY <1>2, <2>1, <2>3, RowSet
    <2> QED BY <1>3, <1>4, <2>1, <2>4 DEF ChannelInv
  <1>7. CASE ServedDelete
    <2>1. channelRows' = [channelRows EXCEPT ![c] = None] /\ UNCHANGED ruleRow
          /\ channelPanel' \in {Reloads(p), Ended(p, FALSE)}
      BY <1>7 DEF ServedDelete
    <2> HIDE DEF p, c, sent
    <2>2. channelRows' \in [ChannelIds -> ChannelRow \cup {None}]
      BY <1>2, <2>1, RowSet
    <2> QED BY <1>3, <1>4, <2>1, <2>2 DEF ChannelInv
  <1>8. CASE NotServed
    <2>1. UNCHANGED <<channelRows, ruleRow>> /\ channelPanel' = Ended(p, FALSE)
      BY <1>8 DEF NotServed
    <2> HIDE DEF p, c, sent
    <2> QED BY <1>3, <1>4, <2>1 DEF ChannelInv
  <1> QED BY <1>5, <1>6, <1>7, <1>8, ServeIs

LEMMA CallFailed == ASSUME ChannelInv, ChannelCallFails PROVE ChannelInv'
  <1>1. ChannelFits(Ended(channelPanel, FALSE))
    BY EndedFits DEF ChannelInv, ChannelCallFails, CallPending
  <1> QED BY <1>1, PanelSet DEF ChannelCallFails

LEMMA ChannelsRead ==
    ASSUME ChannelInv, NEW l \in {"mount", "call"}, ReadChannels(l)
    PROVE  ChannelInv'
  <1> DEFINE p == channelPanel
  <1>1. PICK answer \in {ListAlertChannels, Failed} :
           ToChannel([p EXCEPT !.loads[l] = answer])
    BY DEF ReadChannels
  <1>2. answer \in LoadOf(ChannelList)
    BY <1>1, ListIs, LoadStates
  <1>3. ChannelFits(p) /\ p \in ChannelPanel /\ p.loading \in BOOLEAN /\ p.list \in ChannelList
        /\ p.loads[l] = Asked
    BY PanelIs DEF ChannelInv, ChannelFits, ReadChannels, ChannelPanel
  <1>4. l = "call" => p.call # None
    BY <1>3, LoadStates DEF ChannelFits
  <1> DEFINE q == [p EXCEPT !.loads[l] = answer, !.loading = p.loading, !.list = p.list]
  <1>5. q = [p EXCEPT !.loads[l] = answer]
    BY <1>3 DEF ChannelPanel
  <1> HIDE DEF p
  <1>6. ChannelFits(q)
    BY <1>2, <1>3, <1>4, LoadsSet DEF Loaded
  <1> HIDE DEF q
  <1> QED BY <1>1, <1>5, <1>6, PanelSet

LEMMA ChannelsGot ==
    ASSUME ChannelInv, NEW l \in {"mount", "call"}, GotChannels(l)
    PROVE  ChannelInv'
  <1> DEFINE p == channelPanel
             answer == p.loads[l]
             list == IF answer = Failed THEN p.list ELSE answer.rows
             q == [p EXCEPT !.loads[l] = NoLoad, !.loading = FALSE, !.list = list]
  <1>1. answer \notin {NoLoad, Asked} /\ ToChannel(IF l = "call" THEN Ended(q, TRUE) ELSE q)
    BY DEF GotChannels
  <1>2. ChannelFits(p) /\ p.list \in ChannelList /\ answer \in LoadOf(ChannelList)
    BY PanelIs DEF ChannelInv, ChannelFits
  <1>3. list \in ChannelList
    <2> HIDE DEF answer
    <2> QED BY <1>1, <1>2, LoadStates
  <1> HIDE DEF list, p, answer
  <1>4. NoLoad \in LoadOf(ChannelList)
    BY LoadStates
  <1>5. q = Loaded(p, l, NoLoad, FALSE, list) /\ FALSE \in BOOLEAN
    BY DEF Loaded
  <1> HIDE DEF q
  <1>8. ChannelFits(q) /\ q.loads[l] = NoLoad
    <2>1. /\ ChannelFits(Loaded(p, l, NoLoad, FALSE, list))
          /\ Loaded(p, l, NoLoad, FALSE, list).loads[l] = NoLoad
      <3> DEFINE idle == NoLoad
                 hidden == FALSE
      <3>1. idle \in LoadOf(ChannelList) /\ hidden \in BOOLEAN
            /\ (l = "call" => p.call # None \/ idle = NoLoad)
        BY <1>4
      <3> HIDE DEF idle, hidden
      <3>2. /\ ChannelFits(Loaded(p, l, idle, hidden, list))
            /\ Loaded(p, l, idle, hidden, list).loads[l] = idle
        BY <1>2, <1>3, <3>1, LoadsSet
      <3> QED BY <3>2 DEF idle, hidden
    <2> QED BY <1>5, <2>1
  <1>6. CASE l = "call"
    <2>1. ChannelFits(Ended(q, TRUE))
      BY <1>6, <1>8, EndedFits
    <2> QED BY <1>1, <1>6, <2>1, PanelSet
  <1>7. CASE l = "mount"
    BY <1>1, <1>7, <1>8, PanelSet
  <1> QED BY <1>6, <1>7

LEMMA ChangedElsewhere == ASSUME ChannelInv, ChannelElsewhere PROVE ChannelInv'
  <1>1. UNCHANGED channelPanel
    BY DEF ChannelElsewhere
  <1>2. ASSUME NEW c \in ChannelIds, channelRows[c] # None, UNCHANGED ruleRow,
               NEW sent \in ChannelPuts,
               channelRows' = [channelRows EXCEPT ![c] = PutChannel(channelRows[c], sent)]
        PROVE  ChannelInv'
    <2>1. channelRows[c] \in ChannelRow
      BY <1>2 DEF ChannelInv
    <2>2. PutChannel(channelRows[c], sent) \in ChannelRow
      BY <2>1, SentAreParts, PutTyped
    <2> QED BY <1>1, <1>2, <2>2, RowSet DEF ChannelInv
  <1>3. ASSUME NEW c \in ChannelIds, UNCHANGED ruleRow,
               channelRows' = [channelRows EXCEPT ![c] = None]
        PROVE  ChannelInv'
    BY <1>1, <1>3, RowSet DEF ChannelInv
  <1>4. ASSUME NEW c \in ChannelIds, NEW sent \in ChannelPuts,
               Sends(sent, "type"), Sends(sent, "config"), CreateChannel(c, sent)
        PROVE  ChannelInv'
    BY <1>1, <1>4, SentAreParts, CreatesChannel DEF ChannelInv
  <1> QED BY <1>2, <1>3, <1>4 DEF ChannelElsewhere

LEMMA ChannelStep == ASSUME ChannelInv, ChannelNext PROVE ChannelInv'
  <1>1. ASSUME NEW c \in ChannelIds, ToggleActive(c) PROVE ChannelInv'
    <2>1. [active |-> ~channelPanel.list[c].active] \in [active : BOOLEAN]
      OBVIOUS
    <2> QED BY <1>1, <2>1, OtherCallStarts DEF ToggleActive, ChannelFree
  <1>2. ASSUME NEW c \in ChannelIds, TestChannel(c) PROVE ChannelInv'
    BY <1>2, OtherCallStarts DEF TestChannel, ChannelFree
  <1>3. CASE ConfirmDelete
    <2>1. channelPanel.deleteId \in ChannelIds
      BY <1>3, PanelIs DEF ConfirmDelete, ChannelInv, ChannelFits
    <2> QED BY <1>3, <2>1, OtherCallStarts DEF ConfirmDelete
  <1>4. ASSUME NEW c \in ChannelIds, AskDelete(c) PROVE ChannelInv'
    <2>1. ChannelFits([channelPanel EXCEPT !.deleteId = c])
      BY DeleteIdSet DEF ChannelInv
    <2> QED BY <1>4, <2>1, PanelSet DEF AskDelete
  <1>5. CASE CloseDelete
    <2>1. ChannelFits([channelPanel EXCEPT !.deleteId = None])
      BY DeleteIdSet DEF ChannelInv
    <2> QED BY <1>5, <2>1, PanelSet DEF CloseDelete
  <1> QED
    BY <1>1, <1>2, <1>3, <1>4, <1>5, FormOpens, EditOpens, FormFilled, Submits, Served,
       CallFailed, ChannelsRead, ChannelsGot, ChangedElsewhere
    DEF ChannelNext

----------------------------------------------------------------------------
(* What is saved of a channel is what its form showed. *)

SavedChannel ==
    ChannelTaken =>
       LET f == channelPanel.form
           c == channelPanel.call.id
       IN  /\ channelRows'[c].type = f.type /\ Fits(channelRows'[c])
           /\ channelRows'[c].config = IF f.showUrl THEN FormConfig(f) ELSE channelRows[c].config

LEMMA ChannelSaves ==
    ASSUME ChannelInv, ChannelNext \/ UNCHANGED channelPanel
    PROVE  SavedChannel
  <1> SUFFICES ASSUME ChannelTaken
               PROVE  LET f == channelPanel.form
                          c == channelPanel.call.id
                      IN  /\ channelRows'[c].type = f.type /\ Fits(channelRows'[c])
                          /\ channelRows'[c].config = IF f.showUrl THEN FormConfig(f)
                                                      ELSE channelRows[c].config
    BY DEF SavedChannel
  <1> DEFINE p == channelPanel
             f == channelPanel.form
             c == channelPanel.call.id
             sent == channelPanel.call.sent
  <1>1. /\ CallPending /\ p.call # None /\ p.loads["call"] = NoLoad /\ p \in ChannelPanel
        /\ p.call.kind \in {"create", "update"} /\ channelPanel'.loads["call"] = Asked
    BY DEF ChannelTaken, CallPending, ChannelInv, ChannelFits
  <1>2. NoLoad # Asked
    BY LoadStates
  <1>3. ServeChannel
    <2>1. \A q : ToChannel(q) => q.loads["call"] = Asked
      BY <1>1 DEF ToChannel
    <2>2. UNCHANGED channelPanel => FALSE
      BY <1>1, <1>2
    <2>3. ~OpenCreateForm /\ ~FillChannelForm /\ ~SubmitChannel /\ ~CloseDelete /\ ~ConfirmDelete
      <3>1. \A x : [p EXCEPT !.form = x].loads = p.loads /\ [p EXCEPT !.deleteId = x].loads = p.loads
        BY <1>1 DEF ChannelPanel
      <3> QED
        <4>1. ASSUME NEW x, EditChannelForm(x)
              PROVE  FALSE
          <5>1. channelPanel' = [p EXCEPT !.form = x]
            BY <4>1 DEF EditChannelForm, ToChannel
          <5>2. channelPanel'.loads = p.loads
            BY <3>1, <5>1
          <5> QED BY <1>1, <1>2, <5>2
        <4>2. ASSUME CloseDelete
              PROVE  FALSE
          <5>1. channelPanel' = [p EXCEPT !.deleteId = None]
            BY <4>2 DEF CloseDelete, ToChannel
          <5>2. channelPanel'.loads = p.loads
            BY <3>1, <5>1
          <5> QED BY <1>1, <1>2, <5>2
        <4> QED
          BY <1>1, <4>1, <4>2 DEF OpenCreateForm, FillChannelForm, ChannelFree, SubmitChannel,
             ConfirmDelete
    <2>4. \A d \in ChannelIds : ~OpenEditForm(d) /\ ~ToggleActive(d) /\ ~TestChannel(d) /\ ~AskDelete(d)
      BY <1>1 DEF OpenEditForm, ToggleActive, TestChannel, AskDelete, ChannelFree
    <2>5. ~ChannelCallFails
      BY <1>1, <1>2, <2>1, EndedFits DEF ChannelCallFails, ChannelInv
    <2>6. \A l \in {"mount", "call"} : ~ReadChannels(l)
      <3>1. \A x : [p EXCEPT !.loads["mount"] = x].loads["call"] = p.loads["call"]
        BY <1>1 DEF ChannelPanel
      <3> QED BY <1>1, <1>2, <2>1, <3>1 DEF ReadChannels
    <2>7. \A l \in {"mount", "call"} : ~GotChannels(l)
      <3>1. \A x, y, z : [p EXCEPT !.loads["mount"] = x, !.loading = y, !.list = z].loads["call"]
                            = p.loads["call"]
        BY <1>1 DEF ChannelPanel
      <3>2. ~GotChannels("call")
        BY <1>1 DEF GotChannels
      <3>3. ASSUME GotChannels("mount")
            PROVE  FALSE
        <4>1. PICK z : channelPanel' =
                 [p EXCEPT !.loads["mount"] = NoLoad, !.loading = FALSE, !.list = z]
          BY <3>3 DEF GotChannels, ToChannel
        <4>2. channelPanel'.loads["call"] = p.loads["call"]
          BY <3>1, <4>1
        <4> QED BY <1>1, <1>2, <4>2
      <3> QED BY <3>2, <3>3
    <2>8. ~ChannelElsewhere
      BY <2>2 DEF ChannelElsewhere
    <2> QED BY <2>2, <2>3, <2>4, <2>5, <2>6, <2>7, <2>8 DEF ChannelNext
  <1>4. ServedCreate \/ ServedUpdate
    <2>1. ~NotServed
      BY <1>1, <1>2, EndedFits DEF NotServed, ChannelInv
    <2> QED BY <1>1, <1>3, <2>1, ServeIs DEF ServedDelete
  <1>5. /\ c \in ChannelIds /\ f \in ChannelForm /\ sent \in ChannelSent
        /\ channelRows[c] \in ChannelRow \cup {None}
        /\ f.showUrl => sent = [type |-> f.type, config |-> FormConfig(f)]
        /\ ~f.showUrl => sent = [type |-> f.type]
        /\ p.call.kind = "create" => f.showUrl
    BY <1>1, CallIs
  <1>6. f.showUrl => FormConfig(f).kind = f.type
    BY DEF FormConfig
  <1>7. Sends(sent, "type") /\ sent.type = f.type
        /\ (Sends(sent, "config") <=> f.showUrl) /\ (f.showUrl => sent.config = FormConfig(f))
    <2>1. f.showUrl \in BOOLEAN
      BY <1>5 DEF ChannelForm
    <2> HIDE DEF f, sent
    <2> QED BY <1>5, <2>1 DEF Sends
  <1>8. ChannelPart(sent)
    BY <1>5, SentAreParts
  <1>9. CASE ServedCreate
    <2>1. CreateChannel(c, sent) /\ f.showUrl
      BY <1>5, <1>9 DEF ServedCreate
    <2>2. channelRows'[c] = [type |-> sent.type, config |-> sent.config, active |-> TRUE]
      BY <1>5, <1>7, <1>8, <2>1, CreatesChannel
    <2> HIDE DEF f, c, sent, p
    <2> QED BY <1>6, <1>7, <2>1, <2>2 DEF Fits, f, c
  <1>10. CASE ServedUpdate
    <2> DEFINE new == PutChannel(channelRows[c], sent)
    <2>1. channelRows[c] # None /\ channelRows' = [channelRows EXCEPT ![c] = new]
          /\ channelPanel' = IF Fits(new) THEN Reloads(p) ELSE Ended(p, FALSE)
      BY <1>10 DEF ServedUpdate
    <2>2. Fits(new)
      BY <1>1, <1>2, <2>1, EndedFits DEF ChannelInv
    <2>3. channelRows[c] \in ChannelRow
      BY <1>5, <2>1
    <2> HIDE DEF f, c, sent, p
    <2>4. /\ new \in ChannelRow /\ new.type = f.type
          /\ new.config = IF f.showUrl THEN FormConfig(f) ELSE channelRows[c].config
      BY <1>7, <1>8, <2>3, PutTyped
    <2> HIDE DEF new
    <2>5. channelRows'[c] = new
      BY <1>5, <2>1, <2>4, RowSet
    <2> QED BY <2>2, <2>4, <2>5 DEF f, c
  <1> QED BY <1>4, <1>9, <1>10

----------------------------------------------------------------------------
(* The panel of the rule. *)

RuleFields == [severity : {"all", "critical"}, active : BOOLEAN, custom : BOOLEAN,
               limit : Limits \cup {""}]
RulePanel == [form : RuleFields, changed : BOOLEAN, saving : BOOLEAN,
              load : LoadOf(AlertRule \cup {None})]
RuleInv == ruleRow \in AlertRule \cup {None} /\ rulePanel \in RulePanel

\* A request that names some of the fields of a rule, its severity among them.
RulePart(sent) ==
    /\ Sends(sent, "severity") /\ sent.severity \in {"all", "critical"}
    /\ Sends(sent, "active") => sent.active \in BOOLEAN
    /\ Sends(sent, "custom") => sent.custom \in BOOLEAN
    /\ Sends(sent, "limit") => sent.limit \in Limits \cup {None}

LEMMA RulePutsAreParts == ASSUME NEW sent \in RulePuts PROVE RulePart(sent)
  <1>1. PICK whole \in RuleSent :
           DOMAIN sent \subseteq DOMAIN whole /\ \A f \in DOMAIN sent : sent[f] = whole[f]
    BY SettingsConstants
  <1>2. "severity" \in DOMAIN sent
    BY SettingsConstants
  <1>3. /\ whole.severity \in {"all", "critical"} /\ whole.active \in BOOLEAN
        /\ whole.custom \in BOOLEAN /\ whole.limit \in Limits \cup {None}
    BY DEF RuleSent
  <1> QED BY <1>1, <1>2, <1>3 DEF RulePart, Sends

LEMMA Upserted ==
    ASSUME ruleRow \in AlertRule \cup {None}, NEW sent, RulePart(sent), ValidRule(sent)
    PROVE  UpsertRule(sent) \in AlertRule
  <1> DEFINE row == IF ruleRow = None THEN [DefaultRule EXCEPT !.severity = sent.severity]
                    ELSE ruleRow
  <1>1. [DefaultRule EXCEPT !.severity = sent.severity] \in AlertRule
    BY DefaultTyped DEF RulePart, AlertRule
  <1>2. row.custom \in BOOLEAN /\ row.limit \in {"set", None}
    <2>1. row \in AlertRule
      BY <1>1
    <2> HIDE DEF row
    <2> QED BY <2>1 DEF AlertRule
  <1>3. UpsertRule(sent) =
           [severity |-> sent.severity, active |-> IsActive(sent),
            custom |-> IF Sends(sent, "custom") THEN sent.custom ELSE row.custom,
            limit |-> IF Sends(sent, "limit") THEN sent.limit ELSE row.limit]
    BY DEF UpsertRule
  <1> HIDE DEF row
  <1>4. IsActive(sent) \in BOOLEAN
    BY DEF IsActive, RulePart
  <1>5. (IF Sends(sent, "limit") THEN sent.limit ELSE row.limit) \in {"set", None}
    BY <1>2 DEF RulePart, ValidRule, Limits
  <1>6. (IF Sends(sent, "custom") THEN sent.custom ELSE row.custom) \in BOOLEAN
    BY <1>2 DEF RulePart
  <1> QED BY <1>3, <1>4, <1>5, <1>6 DEF AlertRule, RulePart

LEMMA FormRuleTyped ==
    /\ \A rule \in AlertRule : RuleForm(rule) \in RuleFields
    /\ \A f \in RuleFields : RulePart(SentByRules(f))
  <1>1. ASSUME NEW rule \in AlertRule
        PROVE  RuleForm(rule) \in RuleFields
    BY DEF RuleForm, AlertRule, RuleFields, Limits
  <1>2. ASSUME NEW f \in RuleFields
        PROVE  RulePart(SentByRules(f))
    <2> DEFINE limit == IF f.limit = "" THEN None ELSE f.limit
               s == [f EXCEPT !.limit = limit]
    <2>1. limit \in Limits \cup {None}
      BY DEF RuleFields
    <2>2. s = SentByRules(f)
      BY DEF SentByRules
    <2> HIDE DEF limit
    <2>3. /\ s.severity \in {"all", "critical"} /\ s.active \in BOOLEAN
          /\ s.custom \in BOOLEAN /\ s.limit = limit
          /\ DOMAIN s = {"severity", "active", "custom", "limit"}
      BY <2>1 DEF RuleFields
    <2> HIDE DEF s
    <2> QED BY <2>1, <2>2, <2>3 DEF RulePart, Sends
  <1> QED BY <1>1, <1>2

LEMMA RulePanelIs ==
    ASSUME NEW p \in RulePanel
    PROVE  p.form \in RuleFields /\ p.load \in LoadOf(AlertRule \cup {None})
           /\ p.changed \in BOOLEAN /\ p.saving \in BOOLEAN
           /\ p.form.severity \in {"all", "critical"} /\ p.form.active \in BOOLEAN
           /\ p.form.custom \in BOOLEAN /\ p.form.limit \in Limits \cup {""}
  BY DEF RulePanel, RuleFields

LEMMA RulePanelSet ==
    ASSUME RuleInv, NEW p \in RulePanel, ToRule(p)
    PROVE  RuleInv'
  BY DEF RuleInv, ToRule, settingsRows

LEMMA RuleStep == ASSUME RuleInv, RuleNext PROVE RuleInv'
  <1> DEFINE p == rulePanel
  <1>1. p \in RulePanel /\ ruleRow \in AlertRule \cup {None}
    BY DEF RuleInv
  <1>2. Asked \in LoadOf(AlertRule \cup {None}) /\ Failed \in LoadOf(AlertRule \cup {None})
        /\ NoLoad \in LoadOf(AlertRule \cup {None})
        /\ RowsRead(ruleRow) \in LoadOf(AlertRule \cup {None})
    BY <1>1, LoadStates
  <1>3. CASE FillRules
    <2>1. ASSUME NEW g \in RuleFields, ToRule([rulePanel EXCEPT !.form = g, !.changed = TRUE])
          PROVE  RuleInv'
      <3>1. [rulePanel EXCEPT !.form = g, !.changed = TRUE] \in RulePanel
        BY <1>1 DEF RulePanel
      <3> QED BY <2>1, <3>1, RulePanelSet
    <2> DEFINE f == rulePanel.form
    <2>2. f \in RuleFields
      BY <1>1, RulePanelIs
    <2>3. /\ \A s \in {"all", "critical"} : [f EXCEPT !.severity = s] \in RuleFields
          /\ [f EXCEPT !.active = ~@] \in RuleFields /\ [f EXCEPT !.custom = ~@] \in RuleFields
          /\ \A l \in Limits \cup {""} : [f EXCEPT !.limit = l] \in RuleFields
      BY <2>2 DEF RuleFields
    <2> QED BY <1>3, <2>1, <2>3 DEF FillRules
  <1>4. CASE SaveRules
    <2>1. [rulePanel EXCEPT !.saving = TRUE] \in RulePanel
      BY <1>1 DEF RulePanel
    <2> QED BY <1>4, <2>1, RulePanelSet DEF SaveRules
  <1>5. CASE ServeRules
    <2> DEFINE sent == SentByRules(rulePanel.form)
    <2>1. [rulePanel EXCEPT !.load = Asked] \in RulePanel
          /\ [rulePanel EXCEPT !.saving = FALSE] \in RulePanel
      BY <1>1, <1>2 DEF RulePanel
    <2>2. RulePart(sent)
      BY <1>1, RulePanelIs, FormRuleTyped
    <2>3. CASE ValidRule(sent)
      <3>1. ruleRow' = UpsertRule(sent) /\ rulePanel' = [rulePanel EXCEPT !.load = Asked]
        BY <1>5, <2>3 DEF ServeRules
      <3> HIDE DEF sent
      <3> QED BY <1>1, <2>1, <2>2, <2>3, <3>1, Upserted DEF RuleInv
    <2>4. CASE ~ValidRule(sent)
      <3>1. ruleRow' = ruleRow /\ rulePanel' = [rulePanel EXCEPT !.saving = FALSE]
        BY <1>5, <2>4 DEF ServeRules
      <3> QED BY <1>1, <2>1, <3>1 DEF RuleInv
    <2> QED BY <2>3, <2>4
  <1>6. CASE RulesCallFails
    <2>1. [rulePanel EXCEPT !.saving = FALSE] \in RulePanel
      BY <1>1 DEF RulePanel
    <2> QED BY <1>6, <2>1, RulePanelSet DEF RulesCallFails
  <1>7. CASE ReadRules
    <2>1. PICK answer \in {RowsRead(ruleRow), Failed} : ToRule([rulePanel EXCEPT !.load = answer])
      BY <1>7 DEF ReadRules
    <2>2. answer \in LoadOf(AlertRule \cup {None})
      BY <1>2, <2>1
    <2>3. [rulePanel EXCEPT !.load = answer] \in RulePanel
      BY <1>1, <2>2 DEF RulePanel
    <2> QED BY <2>1, <2>3, RulePanelSet
  <1>8. CASE GotRules
    <2> DEFINE rows == rulePanel.load.rows
               synced == rows # None
               newForm == IF synced THEN RuleForm(rows) ELSE rulePanel.form
               changed == rulePanel.changed /\ ~synced /\ ~rulePanel.saving
               q == [form |-> newForm, changed |-> changed, saving |-> FALSE, load |-> NoLoad]
    <2>1. rulePanel.load \notin {NoLoad, Asked} /\ ToRule(q)
      BY <1>8 DEF GotRules
    <2>2. rows \in AlertRule \cup {None}
      <3>1. rulePanel.load \in LoadOf(AlertRule \cup {None})
        BY <1>1, RulePanelIs
      <3> QED BY <2>1, <3>1, LoadStates
    <2> HIDE DEF rows
    <2>3. newForm \in RuleFields
      BY <1>1, <2>2, RulePanelIs, FormRuleTyped
    <2> HIDE DEF newForm
    <2>4. q \in RulePanel
      BY <1>2, <2>3 DEF RulePanel
    <2> HIDE DEF q
    <2> QED BY <2>1, <2>4, RulePanelSet
  <1>9. CASE RuleElsewhere
    <2>1. ruleRow' \in AlertRule
      BY <1>1, <1>9, RulePutsAreParts, Upserted, DefaultTyped DEF RuleElsewhere
    <2> QED BY <1>1, <1>9, <2>1 DEF RuleElsewhere, RuleInv
  <1> QED BY <1>3, <1>4, <1>5, <1>6, <1>7, <1>8, <1>9 DEF RuleNext

SavedRule == RuleTaken => RuleForm(ruleRow') = rulePanel.form

\* The rule that the form sent gives the form again.
LEMMA RuleSaves ==
    ASSUME RuleInv, RuleNext \/ UNCHANGED rulePanel
    PROVE  SavedRule
  <1> SUFFICES ASSUME RuleTaken PROVE RuleForm(ruleRow') = rulePanel.form
    BY DEF SavedRule
  <1>1. /\ rulePanel.saving /\ rulePanel.load = NoLoad /\ rulePanel'.load = Asked
        /\ rulePanel \in RulePanel /\ ruleRow \in AlertRule \cup {None}
    BY DEF RuleTaken, RuleInv
  <1>2. NoLoad # Asked
    BY LoadStates
  <1>3. ServeRules
    <2>1. ~FillRules /\ ~SaveRules
      BY <1>1 DEF FillRules, SaveRules
    <2>2. ~RulesCallFails
      BY <1>1, <1>2 DEF RulesCallFails, ToRule, RulePanel
    <2>3. ~ReadRules /\ ~GotRules
      BY <1>1, <1>2 DEF ReadRules, GotRules
    <2>4. rulePanel' # rulePanel
      BY <1>1, <1>2
    <2> QED BY <2>1, <2>2, <2>3, <2>4 DEF RuleNext, RuleElsewhere
  <1> DEFINE f == rulePanel.form
             limit == IF f.limit = "" THEN None ELSE f.limit
             sent == SentByRules(f)
  <1>4. f \in RuleFields
    BY <1>1, RulePanelIs
  <1>5. sent = [f EXCEPT !.limit = limit]
    BY DEF SentByRules
  <1> HIDE DEF limit, f
  <1>6. /\ sent.severity = f.severity /\ sent.active = f.active /\ sent.custom = f.custom
        /\ sent.limit = limit /\ DOMAIN sent = {"severity", "active", "custom", "limit"}
    BY <1>4, <1>5 DEF RuleFields
  <1>7. ValidRule(sent) /\ ruleRow' = UpsertRule(sent)
    <2>1. CASE ~ValidRule(sent)
      <3>1. rulePanel'.load = rulePanel.load
        BY <1>1, <1>3, <2>1 DEF ServeRules, RulePanel, f
      <3> QED BY <1>1, <1>2, <3>1
    <2> QED BY <1>3, <2>1 DEF ServeRules, f
  <1> HIDE DEF sent
  <1>8. f.limit # "bad" /\ f.limit \in Limits \cup {""}
    BY <1>4, <1>6, <1>7 DEF ValidRule, Sends, limit, RuleFields
  <1>9. UpsertRule(sent) = [severity |-> f.severity, active |-> f.active, custom |-> f.custom,
                            limit |-> limit]
    BY <1>6 DEF UpsertRule, IsActive, Sends
  <1>10. (IF limit = None THEN "" ELSE limit) = f.limit
    <2>1. None # "set"
      BY SettingsConstants
    <2>2. f.limit = "" \/ f.limit = "set"
      BY <1>8 DEF Limits
    <2>3. CASE f.limit = ""
      BY <2>3 DEF limit
    <2>4. CASE f.limit = "set"
      <3>1. limit = "set"
        BY <2>4 DEF limit
      <3> QED BY <2>1, <2>4, <3>1
    <2> QED BY <2>2, <2>3, <2>4
  <1>11. RuleForm(UpsertRule(sent)) =
            [severity |-> f.severity, active |-> f.active, custom |-> f.custom, limit |-> f.limit]
    <2> DEFINE u == UpsertRule(sent)
               empty == IF limit = None THEN "" ELSE limit
    <2>1. u.severity = f.severity /\ u.active = f.active /\ u.custom = f.custom
          /\ u.limit = limit
      BY <1>9
    <2>2. empty = f.limit
      BY <1>10
    <2> HIDE DEF u
    <2>3. RuleForm(u) = [severity |-> f.severity, active |-> f.active, custom |-> f.custom,
                         limit |-> empty]
      BY <2>1 DEF RuleForm
    <2> HIDE DEF empty
    <2>4. RuleForm(u) = [severity |-> f.severity, active |-> f.active, custom |-> f.custom,
                         limit |-> f.limit]
      BY <2>2, <2>3
    <2> QED BY <2>4 DEF u
  <1>12. f = [severity |-> f.severity, active |-> f.active, custom |-> f.custom,
              limit |-> f.limit]
    BY <1>4 DEF RuleFields
  <1> QED BY <1>7, <1>11, <1>12 DEF f

----------------------------------------------------------------------------
(* The panel of the mutes. *)

MutePanel ==
    [list : SUBSET Muteable, loading : BOOLEAN, open : BOOLEAN, scope : Muteable,
     typed : SUBSET Muteable, confirm : Muteable \cup {None},
     sent : SUBSET ({"create"} \cup Muteable), loads : [MuteLoads -> LoadOf(SUBSET Muteable)]]
\* A request has no load before the server has taken it.
MuteFits(p) == p \in MutePanel /\ \A l \in p.sent : p.loads[l] = NoLoad
MuteInv ==
    /\ muteRows \in [Muteable -> {"own", "other", None}] /\ home \in Homes
    /\ MuteFits(mutePanel)

LEMMA MutePanelIs ==
    ASSUME NEW p \in MutePanel
    PROVE  /\ p.list \in SUBSET Muteable /\ p.scope \in Muteable /\ p.typed \in SUBSET Muteable
           /\ p.sent \in SUBSET ({"create"} \cup Muteable) /\ p.confirm \in Muteable \cup {None}
           /\ p.loads \in [MuteLoads -> LoadOf(SUBSET Muteable)]
           /\ p.loading \in BOOLEAN /\ p.open \in BOOLEAN
           /\ \A l \in p.sent : l \in MuteLoads
  BY DEF MutePanel, MuteLoads

LEMMA MuteSet ==
    ASSUME MuteInv, NEW p, MuteFits(p), ToMute(p)
    PROVE  MuteInv'
  BY DEF MuteInv, ToMute, settingsRows

\* A panel with the same requests and loads.
LEMMA MuteAlike ==
    ASSUME NEW p, MuteFits(p)
    PROVE  /\ \A b \in BOOLEAN : MuteFits([p EXCEPT !.open = b])
           /\ \A t \in Muteable : MuteFits([p EXCEPT !.scope = t])
           /\ \A ts \in SUBSET Muteable : MuteFits([p EXCEPT !.typed = ts])
           /\ \A t \in Muteable \cup {None} : MuteFits([p EXCEPT !.confirm = t])
  <1>1. ASSUME NEW b \in BOOLEAN PROVE MuteFits([p EXCEPT !.open = b])
    BY DEF MuteFits, MutePanel
  <1>2. ASSUME NEW t \in Muteable PROVE MuteFits([p EXCEPT !.scope = t])
    BY DEF MuteFits, MutePanel
  <1>3. ASSUME NEW ts \in SUBSET Muteable PROVE MuteFits([p EXCEPT !.typed = ts])
    BY DEF MuteFits, MutePanel
  <1>4. ASSUME NEW t \in Muteable \cup {None} PROVE MuteFits([p EXCEPT !.confirm = t])
    BY DEF MuteFits, MutePanel
  <1> QED BY <1>1, <1>2, <1>3, <1>4

LEMMA MuteStarts ==
    ASSUME MuteInv, NEW l \in {"create"} \cup Muteable, l \notin MuteCalls, StartMute(l)
    PROVE  MuteInv'
  <1> DEFINE p == mutePanel
             q == [mutePanel EXCEPT !.sent = mutePanel.sent \cup {l}]
  <1>1. MuteFits(p) /\ p \in MutePanel
    BY DEF MuteInv, MuteFits
  <1>2. l \in MuteLoads /\ p.loads[l] = NoLoad
    BY DEF MuteLoads, MuteCalls
  <1>3. q \in MutePanel /\ q.sent = p.sent \cup {l} /\ q.loads = p.loads
    BY <1>1 DEF MutePanel
  <1> HIDE DEF q
  <1>4. MuteFits(q)
    BY <1>1, <1>2, <1>3 DEF MuteFits
  <1>5. ToMute(q)
    BY DEF StartMute, q
  <1> QED BY <1>4, <1>5, MuteSet

LEMMA MuteLoaded ==
    ASSUME NEW p, MuteFits(p), NEW l \in MuteLoads, NEW load \in LoadOf(SUBSET Muteable),
           NEW loading \in BOOLEAN, NEW list \in SUBSET Muteable, NEW sent \in SUBSET p.sent,
           l \notin sent
    PROVE  MuteFits([p EXCEPT !.sent = sent, !.loads[l] = load, !.loading = loading,
                              !.list = list])
  <1> DEFINE loads == [p.loads EXCEPT ![l] = load]
             q == [p EXCEPT !.sent = sent, !.loads = loads, !.loading = loading, !.list = list]
  <1>1. p \in MutePanel
    BY DEF MuteFits
  <1>2. loads \in [MuteLoads -> LoadOf(SUBSET Muteable)]
        /\ \A k \in MuteLoads \ {l} : loads[k] = p.loads[k]
    BY <1>1, MutePanelIs
  <1>3. q = [p EXCEPT !.sent = sent, !.loads[l] = load, !.loading = loading, !.list = list]
    BY <1>1 DEF MutePanel
  <1> HIDE DEF loads
  <1>4. sent \in SUBSET ({"create"} \cup Muteable) /\ sent \subseteq MuteLoads
    BY <1>1, MutePanelIs
  <1>5. q \in MutePanel /\ q.sent = sent /\ q.loads = loads
    BY <1>1, <1>2, <1>4 DEF MutePanel
  <1> HIDE DEF q
  <1>6. MuteFits(q)
    BY <1>2, <1>4, <1>5 DEF MuteFits
  <1> QED BY <1>3, <1>6

LEMMA MuteEndedFits ==
    ASSUME NEW p, MuteFits(p), NEW l, NEW done \in BOOLEAN
    PROVE  MuteFits(MuteEnded(p, l, done)) /\ MuteEnded(p, l, done).loads = p.loads
  <1> DEFINE confirm == IF l \in Muteable THEN None ELSE p.confirm
             open == IF l = "create" /\ done THEN FALSE ELSE p.open
             typed == IF l = "create" /\ done THEN {} ELSE p.typed
             q == [p EXCEPT !.sent = p.sent \ {l}, !.confirm = confirm, !.open = open,
                            !.typed = typed]
  <1>1. p \in MutePanel
    BY DEF MuteFits
  <1>2. confirm \in Muteable \cup {None} /\ open \in BOOLEAN /\ typed \in SUBSET Muteable
    BY <1>1, MutePanelIs
  <1>3. MuteEnded(p, l, done) = q
    BY DEF MuteEnded
  <1> HIDE DEF confirm, open, typed
  <1>4. q \in MutePanel /\ q.sent = p.sent \ {l} /\ q.loads = p.loads
    BY <1>1, <1>2 DEF MutePanel
  <1> HIDE DEF q
  <1>5. MuteFits(q)
    BY <1>4 DEF MuteFits
  <1> QED BY <1>3, <1>4, <1>5

LEMMA LoadsOfMutes ==
    /\ ListAlertMutes \in LoadOf(SUBSET Muteable)
    /\ \A p : MuteFits(p) =>
          \A l \in MuteLoads : p.loads[l] \notin {NoLoad, Asked} =>
             p.loads[l] = Failed \/ p.loads[l].rows \in SUBSET Muteable
  <1>1. ListAlertMutes \in LoadOf(SUBSET Muteable)
    BY LoadStates DEF ListAlertMutes
  <1>2. ASSUME NEW p, MuteFits(p), NEW l \in MuteLoads, p.loads[l] \notin {NoLoad, Asked}
        PROVE  p.loads[l] = Failed \/ p.loads[l].rows \in SUBSET Muteable
    <2>1. p.loads \in [MuteLoads -> LoadOf(SUBSET Muteable)]
      BY <1>2, MutePanelIs DEF MuteFits
    <2>2. p.loads[l] \in LoadOf(SUBSET Muteable)
      BY <2>1
    <2> QED BY <1>2, <2>2, LoadStates
  <1> QED BY <1>1, <1>2

LEMMA MuteReloadsFits ==
    ASSUME NEW p, MuteFits(p), NEW l \in p.sent
    PROVE  MuteFits(MuteReloads(p, l))
  <1> DEFINE sent == p.sent \ {l}
             loading == TRUE
             load == Asked
             list == p.list
             q == [p EXCEPT !.sent = sent, !.loads[l] = load, !.loading = loading, !.list = list]
  <1>1. p \in MutePanel /\ l \in MuteLoads /\ list \in SUBSET Muteable
    BY MutePanelIs DEF MuteFits
  <1>2. load \in LoadOf(SUBSET Muteable) /\ sent \in SUBSET p.sent /\ l \notin sent
        /\ loading \in BOOLEAN
    BY LoadStates
  <1>3. MuteReloads(p, l) = q
    BY <1>1 DEF MuteReloads, MutePanel
  <1> HIDE DEF sent, loading, load, list
  <1>4. MuteFits(q)
    BY <1>1, <1>2, MuteLoaded
  <1> QED BY <1>3, <1>4

LEMMA MuteServed ==
    ASSUME MuteInv, NEW l \in MuteLoads, ServeMute(l)
    PROVE  MuteInv'
  <1> DEFINE target == IF l = "create" THEN mutePanel.scope ELSE l
             taken == IF l = "create" THEN MayMute(target) ELSE muteRows[target] = "own"
             row == IF l = "create" THEN "own" ELSE None
  <1>1. MuteFits(mutePanel) /\ mutePanel \in MutePanel /\ l \in mutePanel.sent
    BY DEF MuteInv, MuteFits, ServeMute
  <1>2. target \in Muteable /\ row \in {"own", "other", None}
    BY <1>1, MutePanelIs
  <1>3. home' = home
    BY DEF ServeMute
  <1>4. CASE taken
    <2>1. muteRows' = [muteRows EXCEPT ![target] = row]
          /\ mutePanel' = MuteReloads(mutePanel, l)
      BY <1>4 DEF ServeMute
    <2>2. MuteFits(mutePanel)'
      BY <1>1, <2>1, MuteReloadsFits
    <2> HIDE DEF target, row
    <2>3. muteRows' \in [Muteable -> {"own", "other", None}]
      BY <1>2, <2>1 DEF MuteInv
    <2> QED BY <1>3, <2>2, <2>3 DEF MuteInv
  <1>5. CASE ~taken
    <2> DEFINE done == FALSE
    <2>1. muteRows' = muteRows /\ mutePanel' = MuteEnded(mutePanel, l, done)
      BY <1>5 DEF ServeMute
    <2>2. done \in BOOLEAN
      OBVIOUS
    <2> HIDE DEF done
    <2>3. MuteFits(mutePanel)'
      BY <1>1, <2>1, <2>2, MuteEndedFits
    <2> QED BY <1>3, <2>1, <2>3 DEF MuteInv
  <1> QED BY <1>4, <1>5

LEMMA MuteReads ==
    ASSUME MuteInv, NEW l \in MuteLoads, ReadMutes(l)
    PROVE  MuteInv'
  <1>1. PICK answer \in {ListAlertMutes, Failed} : ToMute([mutePanel EXCEPT !.loads[l] = answer])
    BY DEF ReadMutes
  <1> DEFINE p == mutePanel
             q == [p EXCEPT !.sent = p.sent, !.loads[l] = answer, !.loading = p.loading,
                            !.list = p.list]
  <1>2. MuteFits(p) /\ p \in MutePanel
    BY DEF MuteInv, MuteFits
  <1>3. l \notin p.sent
    BY <1>2, LoadStates DEF MuteFits, ReadMutes
  <1>4. answer \in LoadOf(SUBSET Muteable)
    BY <1>1, LoadStates, LoadsOfMutes
  <1>5. p.loading \in BOOLEAN /\ p.list \in SUBSET Muteable
    BY <1>2, MutePanelIs
  <1>6. MuteFits(q)
    BY <1>2, <1>3, <1>4, <1>5, MuteLoaded
  <1>7. [mutePanel EXCEPT !.loads[l] = answer] = q
    BY <1>2 DEF MutePanel
  <1> HIDE DEF q, p
  <1> QED BY <1>1, <1>6, <1>7, MuteSet

LEMMA MutesGot ==
    ASSUME MuteInv, NEW l \in MuteLoads, GotMutes(l)
    PROVE  MuteInv'
  <1> DEFINE p == mutePanel
             answer == p.loads[l]
             list == IF answer = Failed THEN p.list ELSE answer.rows
             load == NoLoad
             loading == FALSE
             done == TRUE
             q == [p EXCEPT !.loads[l] = load, !.loading = loading, !.list = list]
             r == [p EXCEPT !.sent = p.sent, !.loads[l] = load, !.loading = loading,
                            !.list = list]
  <1>1. MuteFits(p) /\ p \in MutePanel
    BY DEF MuteInv, MuteFits
  <1>2. answer \notin {NoLoad, Asked}
        /\ ToMute(IF l = "mount" THEN q ELSE MuteEnded(q, l, done))
    BY DEF GotMutes
  <1>3. list \in SUBSET Muteable
    <2>1. answer = Failed \/ answer.rows \in SUBSET Muteable
      BY <1>1, <1>2, LoadsOfMutes
    <2>2. p.list \in SUBSET Muteable
      BY <1>1, MutePanelIs
    <2> QED BY <2>1, <2>2
  <1>4. l \notin p.sent
    BY <1>1, <1>2 DEF MuteFits
  <1>5. load \in LoadOf(SUBSET Muteable) /\ loading \in BOOLEAN /\ done \in BOOLEAN
    BY LoadStates
  <1> HIDE DEF list, load, loading, done
  <1>6. q = r
    BY <1>1 DEF MutePanel
  <1>7. MuteFits(q)
    <2>1. MuteFits(r)
      BY <1>1, <1>3, <1>4, <1>5, MuteLoaded
    <2> HIDE DEF q, r
    <2> QED BY <1>6, <2>1
  <1> HIDE DEF q
  <1>8. MuteFits(MuteEnded(q, l, done))
    BY <1>5, <1>7, MuteEndedFits
  <1> QED BY <1>2, <1>7, <1>8, MuteSet

LEMMA MuteStep == ASSUME MuteInv, MuteNext PROVE MuteInv'
  <1> DEFINE p == mutePanel
  <1>1. MuteFits(p) /\ p \in MutePanel
    BY DEF MuteInv, MuteFits
  <1>2. p.scope \in Muteable /\ p.typed \in SUBSET Muteable
    BY <1>1, MutePanelIs
  <1>3. CASE FillMuteForm
    <2>1. ASSUME NEW q, MuteFits(q), ToMute(q) PROVE MuteInv'
      BY <2>1, MuteSet
    <2>2. p.typed \cup {p.scope} \in SUBSET Muteable /\ p.typed \ {p.scope} \in SUBSET Muteable
      BY <1>2
    <2> DEFINE more == p.typed \cup {p.scope}
               less == p.typed \ {p.scope}
    <2>3. /\ \A b \in BOOLEAN : MuteFits([p EXCEPT !.open = b])
          /\ \A t \in Muteable : MuteFits([p EXCEPT !.scope = t])
          /\ \A ts \in SUBSET Muteable : MuteFits([p EXCEPT !.typed = ts])
      BY <1>1, MuteAlike
    <2>4. \/ ToMute([p EXCEPT !.open = TRUE]) \/ ToMute([p EXCEPT !.open = FALSE])
          \/ \E t \in Muteable : ToMute([p EXCEPT !.scope = t])
          \/ ToMute([p EXCEPT !.typed = more]) \/ ToMute([p EXCEPT !.typed = less])
      BY <1>3 DEF FillMuteForm
    <2>5. MuteFits([p EXCEPT !.open = TRUE]) /\ MuteFits([p EXCEPT !.open = FALSE])
      BY <2>3
    <2>6. MuteFits([p EXCEPT !.typed = more]) /\ MuteFits([p EXCEPT !.typed = less])
      BY <2>2, <2>3
    <2> QED BY <2>1, <2>3, <2>4, <2>5, <2>6
  <1>4. CASE SubmitMute
    <2>1. "create" \notin MuteCalls /\ StartMute("create")
      BY <1>4 DEF SubmitMute, Creating
    <2> QED BY <2>1, MuteStarts
  <1>5. ASSUME NEW t \in Muteable \cup {None}, ToMute([mutePanel EXCEPT !.confirm = t])
        PROVE  MuteInv'
    BY <1>1, <1>5, MuteAlike, MuteSet
  <1>6. CASE CancelUnmute
    BY <1>5, <1>6 DEF CancelUnmute
  <1>7. ASSUME NEW t \in Muteable, AskUnmute(t) \/ ConfirmUnmute(t)
        PROVE  MuteInv'
    <2>1. CASE AskUnmute(t)
      BY <1>5, <2>1 DEF AskUnmute
    <2>2. CASE ConfirmUnmute(t)
      BY <2>2, MuteStarts DEF ConfirmUnmute
    <2> QED BY <1>7, <2>1, <2>2
  <1>8. ASSUME NEW l \in MuteLoads, MuteCallFails(l)
        PROVE  MuteInv'
    <2> DEFINE done == FALSE
    <2>1. ToMute(MuteEnded(mutePanel, l, done)) /\ done \in BOOLEAN
      BY <1>8 DEF MuteCallFails
    <2> HIDE DEF done
    <2>2. MuteFits(MuteEnded(mutePanel, l, done))
      BY <1>1, <2>1, MuteEndedFits
    <2> QED BY <2>1, <2>2, MuteSet
  <1>9. CASE MuteElsewhere
    <2>1. mutePanel' = mutePanel /\ home' \in Homes
      BY <1>9 DEF MuteElsewhere, MuteInv
    <2>2. muteRows' \in [Muteable -> {"own", "other", None}]
      <3>1. muteRows \in [Muteable -> {"own", "other", None}]
        BY DEF MuteInv
      <3>2. \/ muteRows' = muteRows
            \/ \E t \in Muteable : \E row \in {"own", "other", None} :
                  muteRows' = [muteRows EXCEPT ![t] = row]
            \/ muteRows' = [t \in Muteable |-> IF t = "canonical" THEN muteRows[t] ELSE None]
        <4>1. "instance" \in Muteable
          BY SettingsConstants
        <4> QED BY <1>9, <4>1 DEF MuteElsewhere
      <3> QED BY <3>1, <3>2
    <2> QED BY <1>1, <2>1, <2>2 DEF MuteInv
  <1> QED
    BY <1>3, <1>4, <1>6, <1>7, <1>8, <1>9, MuteServed, MuteReads, MutesGot DEF MuteNext

SavedMute ==
    MuteTaken =>
       /\ mutePanel.scope # "canonical" => home = "own"
       /\ muteRows' = [muteRows EXCEPT ![mutePanel.scope] = "own"]

\* Only the server's taking it gives the creation its load.
LEMMA MuteSaves ==
    ASSUME MuteInv, MuteNext \/ UNCHANGED mutePanel
    PROVE  SavedMute
  <1> SUFFICES ASSUME MuteTaken
      PROVE  /\ mutePanel.scope # "canonical" => home = "own"
             /\ muteRows' = [muteRows EXCEPT ![mutePanel.scope] = "own"]
    BY DEF SavedMute
  <1> DEFINE p == mutePanel
  <1>1. /\ MuteFits(p) /\ p \in MutePanel /\ "create" \in p.sent
        /\ mutePanel'.loads["create"] = Asked /\ p.loads["create"] = NoLoad
    BY DEF MuteTaken, MuteInv, MuteFits
  <1>2. NoLoad # Asked /\ "create" \in MuteLoads
    BY LoadStates DEF MuteLoads
  <1>3. p.loads \in [MuteLoads -> LoadOf(SUBSET Muteable)]
    BY <1>1, MutePanelIs
  <1>4. mutePanel'.loads # p.loads
    BY <1>1, <1>2
  <1>5. ~FillMuteForm /\ ~SubmitMute /\ ~CancelUnmute
        /\ \A t \in Muteable : ~AskUnmute(t) /\ ~ConfirmUnmute(t)
    <2>1. ASSUME NEW b
          PROVE  /\ [p EXCEPT !.open = b].loads = p.loads /\ [p EXCEPT !.scope = b].loads = p.loads
                 /\ [p EXCEPT !.typed = b].loads = p.loads
                 /\ [p EXCEPT !.confirm = b].loads = p.loads
                 /\ [p EXCEPT !.sent = b].loads = p.loads
      BY <1>1 DEF MutePanel
    <2>2. ~FillMuteForm
      <3> SUFFICES ASSUME FillMuteForm PROVE FALSE
        OBVIOUS
      <3> DEFINE more == p.typed \cup {p.scope}
                 less == p.typed \ {p.scope}
      <3>1. \/ mutePanel' = [p EXCEPT !.open = TRUE] \/ mutePanel' = [p EXCEPT !.open = FALSE]
            \/ \E t \in Muteable : mutePanel' = [p EXCEPT !.scope = t]
            \/ mutePanel' = [p EXCEPT !.typed = more]
            \/ mutePanel' = [p EXCEPT !.typed = less]
        BY DEF FillMuteForm, ToMute
      <3>2. \A t \in Muteable : mutePanel' # [p EXCEPT !.scope = t]
        BY <1>4, <2>1
      <3>3. mutePanel' # [p EXCEPT !.open = TRUE] /\ mutePanel' # [p EXCEPT !.open = FALSE]
        BY <1>1, <1>4 DEF MutePanel
      <3> HIDE DEF more, less
      <3>4. mutePanel' # [p EXCEPT !.typed = more] /\ mutePanel' # [p EXCEPT !.typed = less]
        BY <1>1, <1>4 DEF MutePanel
      <3> QED BY <3>1, <3>2, <3>3, <3>4
    <2>3. ~SubmitMute
      BY <1>4, <2>1 DEF SubmitMute, StartMute, ToMute
    <2>4. ~CancelUnmute
      BY <1>4, <2>1 DEF CancelUnmute, ToMute
    <2>5. ASSUME NEW t \in Muteable PROVE ~AskUnmute(t) /\ ~ConfirmUnmute(t)
      BY <1>4, <2>1 DEF AskUnmute, ConfirmUnmute, StartMute, ToMute
    <2> QED BY <2>2, <2>3, <2>4, <2>5
  <1>6. ~MuteElsewhere /\ ~UNCHANGED mutePanel
    BY <1>4 DEF MuteElsewhere
  <1>7. ASSUME NEW l \in MuteLoads PROVE ~MuteCallFails(l)
    <2>1. MuteEnded(p, l, FALSE).loads = p.loads
      BY <1>1, MuteEndedFits
    <2> QED BY <1>4, <2>1 DEF MuteCallFails, ToMute
  <1>8. ASSUME NEW l \in MuteLoads PROVE ~ReadMutes(l)
    <2> SUFFICES ASSUME ReadMutes(l) PROVE FALSE
      OBVIOUS
    <2>1. l # "create"
      BY <1>1, <1>2 DEF ReadMutes
    <2>2. \E answer : mutePanel' = [p EXCEPT !.loads[l] = answer]
      BY DEF ReadMutes, ToMute
    <2>3. mutePanel'.loads["create"] = p.loads["create"]
      BY <1>1, <1>2, <1>3, <2>1, <2>2 DEF MutePanel
    <2> QED BY <1>1, <1>2, <2>3
  <1>9. ASSUME NEW l \in MuteLoads PROVE ~GotMutes(l)
    <2> SUFFICES ASSUME GotMutes(l) PROVE FALSE
      OBVIOUS
    <2> DEFINE q == [p EXCEPT !.loads[l] = NoLoad, !.loading = FALSE,
                              !.list = IF p.loads[l] = Failed THEN @ ELSE p.loads[l].rows]
    <2>1. l # "create"
      BY <1>1, <1>2 DEF GotMutes
    <2>2. mutePanel' = IF l = "mount" THEN q ELSE MuteEnded(q, l, TRUE)
      BY DEF GotMutes, ToMute
    <2>3. q.loads["create"] = p.loads["create"] /\ DOMAIN q = DOMAIN p
      BY <1>1, <1>2, <1>3, <2>1 DEF MutePanel
    <2> HIDE DEF q
    <2>4. MuteEnded(q, l, TRUE).loads = q.loads
      BY <1>1, <2>3 DEF MuteEnded, MutePanel
    <2> QED BY <1>1, <1>2, <2>2, <2>3, <2>4
  <1>10. ASSUME NEW l \in MuteLoads, ServeMute(l) PROVE l = "create" /\ MayMute(p.scope)
    <2>1. l \in p.sent /\ l \in MuteLoads
      BY <1>10 DEF ServeMute
    <2>2. mutePanel' # MuteEnded(p, l, FALSE)
      <3>1. MuteEnded(p, l, FALSE).loads = p.loads
        BY <1>1, MuteEndedFits
      <3> QED BY <1>4, <3>1
    <2>3. mutePanel' = MuteReloads(p, l)
      BY <1>10, <2>2 DEF ServeMute
    <2>4. l = "create"
      <3>1. CASE l # "create"
        <4>1. mutePanel'.loads["create"] = p.loads["create"]
          BY <1>1, <1>2, <1>3, <2>3, <3>1 DEF MuteReloads, MutePanel
        <4> QED BY <1>1, <1>2, <4>1
      <3> QED BY <3>1
    <2> QED BY <1>10, <2>2, <2>4 DEF ServeMute
  <1>11. ServeMute("create") /\ MayMute(p.scope)
    BY <1>5, <1>6, <1>7, <1>8, <1>9, <1>10 DEF MuteNext
  <1>12. muteRows' = [muteRows EXCEPT ![p.scope] = "own"]
    BY <1>11 DEF ServeMute
  <1>13. p.scope # "canonical" => home = "own"
    <2>1. p.scope \in {"instance", "service", "canonical"}
      BY <1>1, MutePanelIs, SettingsConstants
    <2> QED BY <1>11, <2>1 DEF MayMute
  <1> QED BY <1>12, <1>13

----------------------------------------------------------------------------
(* The three panels together. *)

SettingsInv == ChannelInv /\ RuleInv /\ MuteInv

\* What a panel's steps leave alone.
LEMMA ChannelsLeave == ChannelNext => UNCHANGED <<muteRows, home, rulePanel, mutePanel>>
  <1> SUFFICES ASSUME ChannelNext PROVE UNCHANGED <<muteRows, home, rulePanel, mutePanel>>
    OBVIOUS
  <1>1. ASSUME NEW p, ToChannel(p) PROVE UNCHANGED <<muteRows, home, rulePanel, mutePanel>>
    BY <1>1 DEF ToChannel, settingsRows
  <1>2. CASE OpenCreateForm
    BY <1>1, <1>2 DEF OpenCreateForm, EditChannelForm
  <1>3. CASE FillChannelForm
    <2>1. \E f : EditChannelForm(f)
      BY <1>3 DEF FillChannelForm
    <2> QED BY <1>1, <2>1 DEF EditChannelForm
  <1>4. CASE SubmitChannel
    BY <1>1, <1>4 DEF SubmitChannel, StartChannel
  <1>5. ASSUME NEW c \in ChannelIds,
               OpenEditForm(c) \/ ToggleActive(c) \/ TestChannel(c) \/ AskDelete(c)
        PROVE  UNCHANGED <<muteRows, home, rulePanel, mutePanel>>
    BY <1>1, <1>5
       DEF OpenEditForm, ToggleActive, TestChannel, AskDelete, EditChannelForm, StartChannel
  <1>6. CASE CloseDelete \/ ConfirmDelete \/ ChannelCallFails
    BY <1>1, <1>6 DEF CloseDelete, ConfirmDelete, ChannelCallFails, StartChannel
  <1>7. CASE ServeChannel \/ ChannelElsewhere
    BY <1>7 DEF ServeChannel, ChannelElsewhere
  <1>8. ASSUME NEW l \in {"mount", "call"}, ReadChannels(l) \/ GotChannels(l)
        PROVE  UNCHANGED <<muteRows, home, rulePanel, mutePanel>>
    BY <1>1, <1>8 DEF ReadChannels, GotChannels
  <1> QED BY <1>2, <1>3, <1>4, <1>5, <1>6, <1>7, <1>8 DEF ChannelNext

LEMMA RulesLeave ==
    RuleNext => UNCHANGED <<channelRows, muteRows, home, channelPanel, mutePanel>>
  <1>1. ASSUME NEW p, ToRule(p)
        PROVE  UNCHANGED <<channelRows, muteRows, home, channelPanel, mutePanel>>
    BY <1>1 DEF ToRule, settingsRows
  <1>2. FillRules => \E p : ToRule(p)
    BY DEF FillRules
  <1>3. SaveRules \/ RulesCallFails \/ ReadRules \/ GotRules => \E p : ToRule(p)
    BY DEF SaveRules, RulesCallFails, ReadRules, GotRules
  <1>4. ServeRules \/ RuleElsewhere =>
           UNCHANGED <<channelRows, muteRows, home, channelPanel, mutePanel>>
    BY DEF ServeRules, RuleElsewhere
  <1> QED BY <1>1, <1>2, <1>3, <1>4 DEF RuleNext

LEMMA MutesLeave == MuteNext => UNCHANGED <<channelRows, ruleRow, channelPanel, rulePanel>>
  <1>1. ASSUME NEW p, ToMute(p)
        PROVE  UNCHANGED <<channelRows, ruleRow, channelPanel, rulePanel>>
    BY <1>1 DEF ToMute, settingsRows
  <1>2. FillMuteForm => \E p : ToMute(p)
    BY DEF FillMuteForm
  <1>3. SubmitMute \/ CancelUnmute \/ (\E t \in Muteable : AskUnmute(t) \/ ConfirmUnmute(t))
           => \E p : ToMute(p)
    BY DEF SubmitMute, CancelUnmute, AskUnmute, ConfirmUnmute, StartMute
  <1>4. ASSUME NEW l \in MuteLoads, MuteCallFails(l) \/ ReadMutes(l) \/ GotMutes(l)
        PROVE  \E p : ToMute(p)
    BY <1>4 DEF MuteCallFails, ReadMutes, GotMutes
  <1>5. ASSUME MuteElsewhere \/ \E l \in MuteLoads : ServeMute(l)
        PROVE  UNCHANGED <<channelRows, ruleRow, channelPanel, rulePanel>>
    BY <1>5 DEF MuteElsewhere, ServeMute
  <1> QED BY <1>1, <1>2, <1>3, <1>4, <1>5 DEF MuteNext

LEMMA SettingsStart == SettingsInit => SettingsInv
  <1> SUFFICES ASSUME SettingsInit PROVE SettingsInv
    OBVIOUS
  <1>1. /\ NoLoad # Asked
        /\ \A lists : NoLoad \in LoadOf(lists) /\ Asked \in LoadOf(lists)
    BY LoadStates
  <1>2. ChannelInv
    <2> DEFINE list == [c \in ChannelIds |-> None]
               loads == [l \in {"mount", "call"} |-> IF l = "mount" THEN Asked ELSE NoLoad]
    <2>1. list \in ChannelList
      BY DEF ChannelList
    <2>2. loads \in [{"mount", "call"} -> LoadOf(ChannelList)] /\ loads["call"] = NoLoad
      BY <1>1
    <2>3. channelPanel = [list |-> list, loading |-> TRUE, loads |-> loads, form |-> None,
                          deleteId |-> None, call |-> None]
          /\ channelRows = [c \in ChannelIds |-> None] /\ ruleRow = None
      BY DEF SettingsInit
    <2> HIDE DEF list, loads
    <2>4. /\ channelPanel \in ChannelPanel /\ channelPanel.form = None
          /\ channelPanel.call = None /\ channelPanel.loads["call"] = NoLoad
      BY <2>1, <2>2, <2>3 DEF ChannelPanel
    <2>5. ChannelFits(channelPanel)
      BY <2>4 DEF ChannelFits, CallOfForm
    <2> QED BY <2>3, <2>5 DEF ChannelInv
  <1>3. RuleInv
    <2> DEFINE newForm == RuleForm(DefaultRule)
    <2>1. newForm \in RuleFields
      BY DefaultTyped, FormRuleTyped
    <2>2. rulePanel = [form |-> newForm, changed |-> FALSE, saving |-> FALSE, load |-> Asked]
          /\ ruleRow = None
      BY DEF SettingsInit
    <2> HIDE DEF newForm
    <2> QED BY <1>1, <2>1, <2>2 DEF RuleInv, RulePanel
  <1>4. MuteInv
    <2> DEFINE loads == [l \in MuteLoads |-> IF l = "mount" THEN Asked ELSE NoLoad]
    <2>1. loads \in [MuteLoads -> LoadOf(SUBSET Muteable)]
      BY <1>1
    <2>2. /\ muteRows = [t \in Muteable |-> None] /\ home = "own"
          /\ mutePanel = [list |-> {}, loading |-> TRUE, open |-> FALSE, scope |-> "instance",
                          typed |-> {}, confirm |-> None, sent |-> {}, loads |-> loads]
      BY DEF SettingsInit
    <2> HIDE DEF loads
    <2>3. "instance" \in Muteable
      BY SettingsConstants
    <2>4. mutePanel \in MutePanel /\ mutePanel.sent = {}
      BY <2>1, <2>2, <2>3 DEF MutePanel
    <2> QED BY <2>2, <2>4 DEF MuteInv, MuteFits, Homes
  <1> QED BY <1>2, <1>3, <1>4 DEF SettingsInv

LEMMA SettingsKeep ==
    ASSUME SettingsInv, SettingsNext \/ UNCHANGED settingsVars
    PROVE  SettingsInv'
  <1>1. ChannelInv /\ RuleInv /\ MuteInv
    BY DEF SettingsInv
  <1>2. CASE ChannelNext
    <2>1. ChannelInv'
      BY <1>1, <1>2, ChannelStep
    <2>2. RuleInv'
      BY <1>1, <1>2, <2>1, ChannelsLeave DEF RuleInv, ChannelInv
    <2>3. MuteInv'
      BY <1>1, <1>2, ChannelsLeave DEF MuteInv
    <2> QED BY <2>1, <2>2, <2>3 DEF SettingsInv
  <1>3. CASE RuleNext
    <2>1. RuleInv'
      BY <1>1, <1>3, RuleStep
    <2>2. ChannelInv'
      BY <1>1, <1>3, <2>1, RulesLeave DEF RuleInv, ChannelInv
    <2>3. MuteInv'
      BY <1>1, <1>3, RulesLeave DEF MuteInv
    <2> QED BY <2>1, <2>2, <2>3 DEF SettingsInv
  <1>4. CASE MuteNext
    <2>1. MuteInv'
      BY <1>1, <1>4, MuteStep
    <2>2. ChannelInv' /\ RuleInv'
      BY <1>1, <1>4, MutesLeave DEF RuleInv, ChannelInv
    <2> QED BY <2>1, <2>2 DEF SettingsInv
  <1>5. CASE UNCHANGED settingsVars
    BY <1>1, <1>5 DEF settingsVars, settingsRows, SettingsInv, ChannelInv, RuleInv, MuteInv
  <1> QED BY <1>2, <1>3, <1>4, <1>5 DEF SettingsNext

LEMMA SettingsTyped == SettingsInv => SettingsTypeOK
  <1> SUFFICES ASSUME SettingsInv PROVE SettingsTypeOK
    OBVIOUS
  <1>1. ChannelFits(channelPanel) /\ rulePanel \in RulePanel /\ MuteFits(mutePanel)
        /\ mutePanel \in MutePanel /\ channelPanel \in ChannelPanel
    BY DEF SettingsInv, ChannelInv, RuleInv, MuteInv, MuteFits, ChannelFits
  <1>2. /\ channelRows \in [ChannelIds -> ChannelRow \cup {None}]
        /\ ruleRow \in AlertRule \cup {None}
        /\ muteRows \in [Muteable -> {"own", "other", None}] /\ home \in Homes
    BY DEF SettingsInv, ChannelInv, MuteInv
  <1>3. channelPanel.deleteId \in ChannelIds \cup {None}
        /\ channelPanel.form \in ChannelForm \cup {None}
    BY <1>1, PanelIs
  <1>4. channelPanel.form # None =>
           channelPanel.form.type \in ChannelTypes
           /\ channelPanel.form.header \in HeaderValues \cup {None}
    BY <1>3 DEF ChannelForm
  <1>5. channelPanel.loads["call"] # NoLoad => channelPanel.call # None
    BY <1>1 DEF ChannelFits
  <1>6. rulePanel.form.limit \in Limits \cup {""}
    BY <1>1, RulePanelIs
  <1>7. mutePanel.list \subseteq Muteable /\ mutePanel.typed \subseteq Muteable
    BY <1>1, MutePanelIs
  <1>8. mutePanel.sent \cap {l \in MuteLoads : mutePanel.loads[l] # NoLoad} = {}
    BY <1>1 DEF MuteFits
  <1> QED BY <1>2, <1>3, <1>4, <1>5, <1>6, <1>7, <1>8 DEF SettingsTypeOK

LEMMA SettingsSave ==
    ASSUME SettingsInv, SettingsNext \/ UNCHANGED settingsVars
    PROVE  SettingsSaved
  <1>1. ChannelInv /\ RuleInv /\ MuteInv
    BY DEF SettingsInv
  <1>2. \/ ChannelNext \/ RuleNext \/ MuteNext
        \/ UNCHANGED <<channelPanel, rulePanel, mutePanel>>
    BY DEF SettingsNext, settingsVars
  <1>3. SavedChannel
    <2>1. ChannelNext \/ UNCHANGED channelPanel
      BY <1>2, RulesLeave, MutesLeave
    <2> QED BY <1>1, <2>1, ChannelSaves
  <1>4. SavedRule
    <2>1. RuleNext \/ UNCHANGED rulePanel
      BY <1>2, ChannelsLeave, MutesLeave
    <2> QED BY <1>1, <2>1, RuleSaves
  <1>5. SavedMute
    <2>1. MuteNext \/ UNCHANGED mutePanel
      BY <1>2, ChannelsLeave, RulesLeave
    <2> QED BY <1>1, <2>1, MuteSaves
  <1> QED BY <1>3, <1>4, <1>5 DEF SettingsSaved, SavedChannel, SavedRule, SavedMute

----------------------------------------------------------------------------
(* The rows of the teams and the forms that are sent. *)

SentTeam == [name : TeamNames, key : TeamKeys, text : TeamTexts \cup {Nil}]
SaveCall == [kind : {"save"}, sent : SentTeam, mounted : BOOLEAN]
Waits(c) == c.kind = "save" /\ c.mounted

TeamRowsFit ==
    /\ teamRow \in TeamRow \cup {Nil} /\ otherRow \in TeamRow \cup {OtherTeam, Nil}
    /\ teamRow # Nil => MayStore(teamRow, otherRow)
    /\ memberOf \in [Users -> TeamRole \cup {Nil}]
    /\ teamRow = Nil => \A u \in Users : ~IsMember(u)

\* What is shown, or comes from the server, is a team; an edit is one of it.
PageKnows(p) ==
    /\ p.shown # Nil => p.shown.row \in TeamRow
    /\ \A i \in TeamLoads : p.loads[i].state = "read" => p.loads[i].team.row \in TeamRow
    /\ p.editOpen => p.shown.row \in TeamRow
    /\ ~(p.editOpen /\ p.deleteOpen)
    /\ p.calls \subseteq SaveCall \cup {[kind |-> "delete"]}
\* The form is there while its dialog is open and the page is not hidden, and
\* waits for the one request that sent what it shows.
EditFits(p) ==
    /\ p.form \in TeamFormState \cup {Nil}
    /\ p.form # Nil => p.editOpen
    /\ ~p.loading /\ p.editOpen => p.form # Nil
    /\ p.form # Nil => (p.form.busy <=> \E c \in p.calls : Waits(c))
    /\ \A c \in p.calls : Waits(c) => p.form # Nil /\ c.sent = SentByTeam(p.form)
PageFits(p) == PageShape(p) /\ PageKnows(p) /\ EditFits(p)

LEMMA FormOfTeamTyped ==
    ASSUME NEW row \in TeamRow
    PROVE  FormOfTeam(row) \in TeamFormState /\ ~FormOfTeam(row).busy
  BY DEF FormOfTeam, TeamRow, TeamFormState

LEMMA NilForm == \A f \in TeamFormState : f # Nil
  BY NilIsNoTeam

\* Typing into a form that waits for nothing leaves it one.
LEMMA TypedTyped ==
    ASSUME NEW f \in TeamFormState, NEW g \in TypedInto(f)
    PROVE  g \in TeamFormState /\ ~f.busy /\ ~g.busy
  <1>1. ~f.busy
    BY DEF TypedInto
  <1>2. CASE \E n \in TeamNames : g = WithName(f, n)
    <2>1. PICK n \in TeamNames : g = WithName(f, n)
      BY <1>2
    <2> DEFINE key == IF f.touched THEN f.key ELSE KeyOfName[n]
    <2>2. key \in TeamKeys \cup {""}
      BY TeamConstants DEF TeamFormState
    <2>3. g = [f EXCEPT !.name = n, !.key = key]
      BY <2>1 DEF WithName
    <2> HIDE DEF key
    <2> QED BY <1>1, <2>2, <2>3 DEF TeamFormState
  <1>3. CASE \E k \in TeamKeys : g = [f EXCEPT !.key = k, !.touched = TRUE]
    BY <1>1, <1>3 DEF TeamFormState
  <1>4. CASE \E x \in TeamTexts \cup {""} : g = [f EXCEPT !.text = x]
    BY <1>1, <1>4 DEF TeamFormState
  <1> QED BY <1>1, <1>2, <1>3, <1>4 DEF TypedInto

LEMMA SubmittedTyped ==
    ASSUME NEW f \in TeamFormState, MaySubmit(f)
    PROVE  /\ SentByTeam(f) \in SentTeam /\ [f EXCEPT !.busy = TRUE] \in TeamFormState
           /\ [f EXCEPT !.busy = TRUE].busy
           /\ SentByTeam([f EXCEPT !.busy = TRUE]) = SentByTeam(f) /\ ~f.busy
  <1>1. f.name \in TeamNames /\ f.key \in TeamKeys /\ f.text \in TeamTexts \cup {""}
    BY DEF MaySubmit, TeamFormState
  <1>2. SentByTeam(f) \in SentTeam
    BY <1>1 DEF SentByTeam, SentTeam
  <1> DEFINE g == [f EXCEPT !.busy = TRUE]
  <1>3. g \in TeamFormState /\ g.busy /\ g.name = f.name /\ g.key = f.key /\ g.text = f.text
    BY DEF TeamFormState
  <1> HIDE DEF g
  <1>4. SentByTeam(g) = SentByTeam(f)
    BY <1>3 DEF SentByTeam
  <1> QED BY <1>2, <1>3, <1>4 DEF g, MaySubmit

\* What is stored of it shows what the form does.
LEMMA StoredShows ==
    ASSUME NEW f \in TeamFormState, NEW row
    PROVE  /\ Shows(f, PutTeam(row, SentByTeam(f)), row.text)
           /\ Shows(f, TeamOf(SentByTeam(f)), Nil)
  <1> DEFINE sent == SentByTeam(f)
             text == IF f.text = "" THEN Nil ELSE f.text
  <1>1. f.text \in TeamTexts \cup {""} /\ Nil \notin TeamTexts
    BY TeamConstants DEF TeamFormState
  <1>2. sent.name = f.name /\ sent.key = f.key /\ sent.text = text
    BY DEF SentByTeam
  <1> HIDE DEF sent
  <1>3. f.text # "" => text = f.text /\ text # Nil
    BY <1>1
  <1>4. f.text = "" => text = Nil
    OBVIOUS
  <1> HIDE DEF text
  <1>5. TeamOf(sent).name = f.name /\ TeamOf(sent).key = f.key /\ TeamOf(sent).text = text
    BY <1>2 DEF TeamOf
  <1>6. Shows(f, TeamOf(sent), Nil)
    BY <1>3, <1>4, <1>5 DEF Shows
  <1> DEFINE kept == IF sent.text = Nil THEN row.text ELSE text
  <1>7. PutTeam(row, sent) = [name |-> f.name, key |-> f.key, text |-> kept]
    BY <1>2 DEF PutTeam, TeamOf
  <1>8. kept = IF f.text # "" THEN f.text ELSE row.text
    <2>1. CASE f.text = ""
      <3>1. sent.text = Nil
        BY <1>2, <1>4, <2>1
      <3>2. kept = row.text
        BY <3>1
      <3> HIDE DEF kept
      <3> QED BY <2>1, <3>2
    <2>2. CASE f.text # ""
      <3>1. sent.text # Nil /\ text = f.text
        BY <1>2, <1>3, <2>2
      <3>2. kept = f.text
        BY <3>1
      <3> HIDE DEF kept
      <3> QED BY <2>2, <3>2
    <2> QED BY <2>1, <2>2
  <1> HIDE DEF kept
  <1>9. Shows(f, PutTeam(row, sent), row.text)
    <2> DEFINE r == PutTeam(row, sent)
    <2>1. r.name = f.name /\ r.key = f.key /\ r.text = kept
      BY <1>7
    <2>2. r.text = IF f.text # "" THEN f.text ELSE row.text
      BY <1>8, <2>1
    <2> HIDE DEF r
    <2>3. Shows(f, r, row.text)
      BY <2>1, <2>2 DEF Shows
    <2> QED BY <2>3 DEF r
  <1> QED BY <1>6, <1>9 DEF sent

\* A row that is stored is a row, and unique.
LEMMA TeamPutTyped ==
    ASSUME NEW row \in TeamRow, NEW sent \in SentTeam, NEW other, MayStore(sent, other)
    PROVE  PutTeam(row, sent) \in TeamRow /\ MayStore(PutTeam(row, sent), other)
  <1> DEFINE text == IF sent.text = Nil THEN row.text ELSE sent.text
  <1>1. PutTeam(row, sent) = [name |-> sent.name, key |-> sent.key, text |-> text]
    BY DEF PutTeam, TeamOf
  <1>2. text \in TeamTexts \cup {Nil} /\ sent.name \in TeamNames
        /\ sent.key \in TeamKeys \ RefusedKeys
    BY DEF SentTeam, TeamRow, MayStore
  <1> HIDE DEF text
  <1> QED BY <1>1, <1>2 DEF TeamRow, MayStore

LEMMA NewTyped ==
    ASSUME NEW sent \in SentTeam, NEW other, MayStore(sent, other)
    PROVE  TeamOf(sent) \in TeamRow /\ MayStore(TeamOf(sent), other)
           /\ TeamOf(sent).name = sent.name /\ TeamOf(sent).key = sent.key
  BY DEF TeamOf, SentTeam, TeamRow, MayStore

----------------------------------------------------------------------------
(* The page and its edit form. *)

\* A load hides the form, and what was sent is still under way.
LEMMA Hidden ==
    ASSUME NEW p, PageShape(p), PageKnows(p)
    PROVE  /\ PageShape(Unmounted(p)) /\ PageKnows(Unmounted(p)) /\ Unmounted(p).form = Nil
           /\ \A f \in PageFields \ {"form", "calls"} : Unmounted(p)[f] = p[f]
           /\ \A c \in Unmounted(p).calls : ~Waits(c)
           /\ \A c \in p.calls : c.kind = "save" =>
                 \E d \in Unmounted(p).calls : d.kind = "save" /\ d.sent = c.sent
  <1> DEFINE u == Unmounted(p)
             gone(c) == IF c.kind = "save" THEN [c EXCEPT !.mounted = FALSE] ELSE c
  <1>1. /\ u = [f \in PageFields |-> u[f]] /\ u.form = Nil
        /\ \A f \in PageFields \ {"form", "calls"} : u[f] = p[f]
        /\ u.calls = {gone(c) : c \in p.calls}
    BY DEF Unmounted, PageShape, PageFields
  <1>2. ASSUME NEW c \in p.calls
        PROVE  /\ gone(c) \in SaveCall \cup {[kind |-> "delete"]} /\ ~Waits(gone(c))
               /\ c.kind = "save" => gone(c).kind = "save" /\ gone(c).sent = c.sent
    <2>1. CASE c \in SaveCall
      <3>1. gone(c) = [c EXCEPT !.mounted = FALSE] /\ c.kind = "save"
        BY <2>1 DEF SaveCall
      <3>2. [c EXCEPT !.mounted = FALSE] \in SaveCall /\ [c EXCEPT !.mounted = FALSE].sent = c.sent
            /\ [c EXCEPT !.mounted = FALSE].mounted = FALSE
            /\ [c EXCEPT !.mounted = FALSE].kind = "save"
        BY <2>1 DEF SaveCall
      <3> HIDE DEF gone
      <3> QED BY <3>1, <3>2 DEF Waits
    <2>2. CASE c = [kind |-> "delete"]
      <3>1. c.kind = "delete"
        BY <2>2
      <3>2. gone(c) = c
        BY <3>1
      <3> HIDE DEF gone
      <3> QED BY <2>2, <3>1, <3>2 DEF Waits
    <2> QED BY <2>1, <2>2 DEF PageKnows
  <1> HIDE DEF u, gone
  <1>3. PageShape(u)
    BY <1>1 DEF PageShape, PageFields
  <1>4. u.calls \subseteq SaveCall \cup {[kind |-> "delete"]} /\ \A c \in u.calls : ~Waits(c)
    BY <1>1, <1>2
  <1>5. PageKnows(u)
    BY <1>1, <1>4 DEF PageKnows, PageFields
  <1>6. \A c \in p.calls : c.kind = "save" => \E d \in u.calls : d.kind = "save" /\ d.sent = c.sent
    BY <1>1, <1>2
  <1> QED BY <1>1, <1>3, <1>4, <1>5, <1>6 DEF u

LEMMA LoadFits ==
    ASSUME NEW p, PageShape(p), PageKnows(p), FreeLoads(p) # {}
    PROVE  /\ PageFits(LoadTeam(p)) /\ LoadTeam(p).editOpen = p.editOpen
           /\ \A c \in p.calls : c.kind = "save" =>
                 \E d \in LoadTeam(p).calls : d.kind = "save" /\ d.sent = c.sent
  <1> DEFINE k == CHOOSE i \in FreeLoads(p) : TRUE
             u == Unmounted(p)
             q == LoadTeam(p)
             loads == [p.loads EXCEPT ![k] = TeamLoad("asked")]
             fresh == FreeLoads(p) = TeamLoads
  <1>1. k \in FreeLoads(p) /\ k \in TeamLoads
    BY DEF FreeLoads
  <1>2. /\ PageShape(u) /\ PageKnows(u) /\ u.form = Nil
        /\ \A f \in PageFields \ {"form", "calls"} : u[f] = p[f]
        /\ \A c \in u.calls : ~Waits(c)
        /\ \A c \in p.calls : c.kind = "save" =>
              \E d \in u.calls : d.kind = "save" /\ d.sent = c.sent
    BY Hidden
  <1>3. u.loads = p.loads /\ u.editOpen = p.editOpen
    BY <1>2 DEF PageFields
  <1>4. q = [u EXCEPT !.loads = loads, !.loading = TRUE, !.fresh = fresh]
    BY <1>2, <1>3 DEF LoadTeam, PageShape, PageFields
  <1>5. PageShape(q)
    <2> DEFINE team == Nil
    <2> HIDE DEF team
    <2> QED BY LoadSettles
  <1> HIDE DEF k, u, q, fresh
  <1>6. \A i \in TeamLoads : loads[i].state = "read" => loads[i] = p.loads[i]
    BY <1>1 DEF PageShape, TeamLoad
  <1> HIDE DEF loads
  <1>7. /\ q.loads = loads /\ q.loading = TRUE
        /\ \A f \in PageFields \ {"loads", "loading", "fresh"} : q[f] = u[f]
    BY <1>2, <1>4 DEF PageShape, PageFields
  <1>8. /\ q.form = Nil /\ q.editOpen = u.editOpen /\ q.calls = u.calls /\ q.shown = u.shown
        /\ q.deleteOpen = u.deleteOpen
    BY <1>2, <1>7 DEF PageFields
  <1>9. PageKnows(q)
    BY <1>2, <1>3, <1>6, <1>7, <1>8 DEF PageKnows
  <1>10. EditFits(q)
    BY <1>2, <1>7, <1>8 DEF EditFits
  <1> QED BY <1>2, <1>3, <1>5, <1>8, <1>9, <1>10 DEF PageFits, q

\* The row that a load reads.
LEMMA ReadFits ==
    ASSUME TeamRowsFit, TeamInv, TeamInv', PageFits(teamPage), NEW i \in TeamLoads, ReadTeam(i)
    PROVE  PageFits(teamPage') /\ teamPage'.editOpen = teamPage.editOpen
  <1>1. PICK l \in {[state |-> "read", team |-> GetTeam], TeamLoad("failed")} :
            /\ teamPage' = [teamPage EXCEPT !.loads[i] = l]
            /\ l.state = "read" => teamRow # Nil
    BY DEF ReadTeam, ToTeam, TeamLoad
  <1> DEFINE loads == [teamPage.loads EXCEPT ![i] = l]
  <1>2. l.state = "read" => l.team.row \in TeamRow
    <2>1. TeamLoad("failed").state = "failed"
      BY DEF TeamLoad
    <2>2. GetTeam.row = teamRow
      BY DEF GetTeam
    <2> QED BY <1>1, <2>1, <2>2 DEF TeamRowsFit
  <1>3. \A k \in TeamLoads : loads[k].state = "read" => loads[k].team.row \in TeamRow
    BY <1>2 DEF PageFits, PageKnows, PageShape
  <1>4. teamPage' = [teamPage EXCEPT !.loads = loads]
    BY <1>1
  <1> HIDE DEF loads
  <1>5. /\ teamPage'.loads = loads
        /\ \A f \in PageFields \ {"loads"} : teamPage'[f] = teamPage[f]
    BY <1>4 DEF PageFits, PageShape, PageFields
  <1>6. /\ teamPage'.form = teamPage.form /\ teamPage'.editOpen = teamPage.editOpen
        /\ teamPage'.calls = teamPage.calls /\ teamPage'.shown = teamPage.shown
        /\ teamPage'.deleteOpen = teamPage.deleteOpen /\ teamPage'.loading = teamPage.loading
    BY <1>5 DEF PageFields
  <1>7. PageKnows(teamPage')
    BY <1>3, <1>5, <1>6 DEF PageFits, PageKnows
  <1>8. EditFits(teamPage')
    BY <1>6 DEF PageFits, EditFits
  <1> QED BY <1>6, <1>7, <1>8 DEF PageFits, TeamInv

LEMMA GotFits ==
    ASSUME TeamInv, TeamInv', PageFits(teamPage), NEW i \in TeamLoads, GotTeam(i)
    PROVE  PageFits(teamPage') /\ teamPage'.editOpen = teamPage.editOpen
  <1> DEFINE answer == teamPage.loads[i]
             loads == [teamPage.loads EXCEPT ![i] = TeamLoad("none")]
             shown == IF answer.state = "failed" THEN teamPage.shown ELSE answer.team
             fresh == teamPage.fresh /\ answer.state # "failed"
             p == [teamPage EXCEPT !.loads = loads, !.loading = FALSE, !.shown = shown,
                                   !.fresh = fresh]
             again == p.editOpen /\ p.form = Nil
             newForm == FormOfTeam(p.shown.row)
  <1>1. /\ answer.state \in {"read", "failed"}
        /\ teamPage' = IF again THEN [p EXCEPT !.form = newForm] ELSE p
    <2>1. p = [teamPage EXCEPT !.loads[i] = TeamLoad("none"), !.loading = FALSE,
                  !.shown = IF answer.state = "failed" THEN @ ELSE answer.team,
                  !.fresh = @ /\ answer.state # "failed"]
      BY DEF PageFits, PageShape, PageFields
    <2> HIDE DEF p
    <2> QED BY <2>1 DEF GotTeam, ToTeam
  <1>2. /\ shown # Nil => shown.row \in TeamRow
        /\ teamPage.editOpen => shown.row \in TeamRow
    BY <1>1 DEF PageFits, PageKnows
  <1>3. \A k \in TeamLoads : loads[k].state = "read" => loads[k].team.row \in TeamRow
    <2>1. TeamLoad("none").state = "none"
      BY DEF TeamLoad
    <2> QED BY <2>1 DEF PageFits, PageKnows, PageShape
  <1> HIDE DEF loads, shown, fresh, answer
  <1>4. /\ p = [f \in PageFields |-> p[f]] /\ p.loads = loads /\ p.shown = shown
        /\ p.loading = FALSE
        /\ \A f \in PageFields \ {"loads", "shown", "loading", "fresh"} : p[f] = teamPage[f]
    BY DEF PageFits, PageShape, PageFields
  <1>5. p.form = teamPage.form /\ p.editOpen = teamPage.editOpen /\ p.calls = teamPage.calls
        /\ p.deleteOpen = teamPage.deleteOpen
    BY <1>4 DEF PageFields
  <1> HIDE DEF p
  <1>6. /\ \A f \in PageFields \ {"form"} : teamPage'[f] = p[f]
        /\ teamPage'.form = IF again THEN newForm ELSE p.form
    BY <1>1, <1>4 DEF PageFields
  <1>7. /\ teamPage'.loads = loads /\ teamPage'.shown = shown /\ teamPage'.loading = FALSE
        /\ teamPage'.editOpen = teamPage.editOpen /\ teamPage'.calls = teamPage.calls
        /\ teamPage'.deleteOpen = teamPage.deleteOpen
    BY <1>4, <1>5, <1>6 DEF PageFields
  <1>8. PageKnows(teamPage')
    BY <1>2, <1>3, <1>7 DEF PageFits, PageKnows
  <1>9. EditFits(teamPage')
    <2>1. CASE again
      <3>1. newForm \in TeamFormState /\ ~newForm.busy
        BY <1>2, <1>4, <1>5, <2>1, FormOfTeamTyped
      <3>2. \A c \in teamPage.calls : ~Waits(c)
        BY <1>5, <2>1 DEF PageFits, EditFits
      <3>3. teamPage'.form = newForm
        BY <1>6, <2>1
      <3>4. teamPage.editOpen
        BY <1>5, <2>1
      <3> HIDE DEF newForm, again
      <3> QED BY <1>7, <3>1, <3>2, <3>3, <3>4, NilForm DEF EditFits
    <2>2. CASE ~again
      <3>1. teamPage'.form = teamPage.form
        BY <1>5, <1>6, <2>2
      <3>2. teamPage.editOpen => teamPage.form # Nil
        BY <1>5, <2>2
      <3> HIDE DEF newForm, again
      <3> QED BY <1>7, <3>1, <3>2 DEF PageFits, EditFits
    <2> QED BY <2>1, <2>2
  <1> QED BY <1>7, <1>8, <1>9 DEF PageFits, TeamInv

PageSaved == TeamTaken => Shows(teamPage.form, teamRow', teamRow.text)

\* A save that is waited for is not taken while the dialog stays, nor while it
\* is under way.
LEMMA NotTaken ==
    ASSUME PageFits(teamPage),
           \/ teamPage'.editOpen = teamPage.editOpen
           \/ \A c \in teamPage.calls : c.kind = "save" =>
                 \E d \in teamPage'.calls : d.kind = "save" /\ d.sent = c.sent
    PROVE  ~TeamTaken
  <1>1. \A c \in teamPage.calls : Waits(c) => teamPage.editOpen
    BY DEF PageFits, EditFits
  <1> QED BY <1>1 DEF TeamTaken, Waits

LEMMA RowsStay ==
    ASSUME TeamRowsFit, UNCHANGED <<teamRow, otherRow, memberOf>>
    PROVE  TeamRowsFit'
  <1>1. \A u \in Users : IsMember(u)' <=> IsMember(u)
    BY DEF IsMember
  <1>2. teamRow # Nil => MayStore(teamRow', otherRow')
    BY DEF TeamRowsFit
  <1> QED BY <1>1, <1>2 DEF TeamRowsFit

\* A page with another form, and its requests.
LEMMA FormSetFits ==
    ASSUME NEW p, PageFits(p), NEW q, PageShape(q),
           \A f \in {"shown", "loads", "loading", "editOpen", "deleteOpen"} : q[f] = p[f],
           NEW g \in TeamFormState, q.form = g, p.editOpen,
           q.calls \subseteq SaveCall \cup {[kind |-> "delete"]},
           g.busy <=> \E c \in q.calls : Waits(c),
           \A c \in q.calls : Waits(c) => c.sent = SentByTeam(g)
    PROVE  PageFits(q)
  <1>1. q.shown = p.shown /\ q.loads = p.loads /\ q.loading = p.loading
        /\ q.editOpen = p.editOpen /\ q.deleteOpen = p.deleteOpen
    OBVIOUS
  <1>2. PageKnows(q)
    BY <1>1 DEF PageFits, PageKnows
  <1>3. EditFits(q)
    BY <1>1, NilForm DEF PageFits, EditFits
  <1> QED BY <1>2, <1>3 DEF PageFits

LEMMA OpenEditFits ==
    ASSUME PageFits(teamPage), PageShape(teamPage'), OpenEdit
    PROVE  PageFits(teamPage') /\ ~TeamTaken
  <1> DEFINE p == teamPage
             g == FormOfTeam(teamPage.shown.row)
  <1>1. /\ p.shown # Nil /\ ~p.editOpen /\ ~p.deleteOpen
        /\ teamPage' = [p EXCEPT !.editOpen = TRUE, !.form = g]
    BY DEF OpenEdit, PageFree, Visible, ToTeam
  <1>2. g \in TeamFormState /\ ~g.busy
    BY <1>1, FormOfTeamTyped DEF PageFits, PageKnows
  <1>3. p.form = Nil /\ \A c \in p.calls : ~Waits(c)
    BY <1>1 DEF PageFits, EditFits
  <1> HIDE DEF g
  <1>4. /\ teamPage'.form = g /\ teamPage'.editOpen = TRUE
        /\ teamPage'.shown = p.shown /\ teamPage'.loads = p.loads /\ teamPage'.calls = p.calls
        /\ teamPage'.deleteOpen = p.deleteOpen
    BY <1>1 DEF PageFits, PageShape, PageFields
  <1>5. PageKnows(teamPage')
    BY <1>1, <1>4 DEF PageFits, PageKnows
  <1>6. EditFits(teamPage')
    BY <1>2, <1>3, <1>4, NilForm DEF EditFits
  <1>7. ~TeamTaken
    BY <1>3 DEF TeamTaken, Waits
  <1> QED BY <1>5, <1>6, <1>7 DEF PageFits

LEMMA CloseEditFits ==
    ASSUME PageFits(teamPage), PageShape(teamPage'), CloseEdit
    PROVE  PageFits(teamPage') /\ ~TeamTaken
  <1> DEFINE u == Unmounted(teamPage)
  <1>1. teamPage' = [u EXCEPT !.editOpen = FALSE]
    BY DEF CloseEdit, ToTeam
  <1>2. /\ PageShape(u) /\ PageKnows(u) /\ u.form = Nil
        /\ \A c \in u.calls : ~Waits(c)
        /\ \A c \in teamPage.calls : c.kind = "save" =>
              \E d \in u.calls : d.kind = "save" /\ d.sent = c.sent
    BY Hidden DEF PageFits
  <1> HIDE DEF u
  <1>3. /\ teamPage'.editOpen = FALSE /\ teamPage'.shown = u.shown /\ teamPage'.loads = u.loads
        /\ teamPage'.calls = u.calls /\ teamPage'.form = Nil
    BY <1>1, <1>2 DEF PageShape, PageFields
  <1>4. PageKnows(teamPage')
    BY <1>2, <1>3 DEF PageKnows
  <1>5. EditFits(teamPage')
    BY <1>2, <1>3 DEF EditFits
  <1>6. ~TeamTaken
    BY <1>2, <1>3, NotTaken
  <1> QED BY <1>4, <1>5, <1>6 DEF PageFits

LEMMA FillFits ==
    ASSUME PageFits(teamPage), PageShape(teamPage'), FillTeamForm
    PROVE  PageFits(teamPage') /\ ~TeamTaken
  <1>1. PICK g \in TypedInto(teamPage.form) : teamPage' = [teamPage EXCEPT !.form = g]
    BY DEF FillTeamForm, ToTeam
  <1>2. teamPage.form # Nil /\ teamPage.form \in TeamFormState /\ teamPage.editOpen
    BY DEF FillTeamForm, PageFits, EditFits
  <1>3. g \in TeamFormState /\ ~teamPage.form.busy /\ ~g.busy
    BY <1>2, TypedTyped
  <1>4. \A c \in teamPage.calls : ~Waits(c)
    BY <1>2, <1>3 DEF PageFits, EditFits
  <1>5. /\ teamPage'.form = g /\ teamPage'.calls = teamPage.calls
        /\ teamPage'.editOpen = teamPage.editOpen
        /\ \A f \in {"shown", "loads", "loading", "editOpen", "deleteOpen"} :
              teamPage'[f] = teamPage[f]
    BY <1>1 DEF PageFits, PageShape, PageFields
  <1>6. teamPage'.calls \subseteq SaveCall \cup {[kind |-> "delete"]}
    BY <1>5 DEF PageFits, PageKnows
  <1>7. \A c \in teamPage'.calls : ~Waits(c)
    BY <1>4, <1>5
  <1>8. PageFits(teamPage')
    BY <1>2, <1>3, <1>5, <1>6, <1>7, FormSetFits
  <1>9. ~TeamTaken
    BY <1>5, NotTaken
  <1> QED BY <1>8, <1>9

LEMMA SubmitFits ==
    ASSUME PageFits(teamPage), PageShape(teamPage'), SubmitTeam
    PROVE  PageFits(teamPage') /\ ~TeamTaken
  <1> DEFINE f == teamPage.form
             g == [f EXCEPT !.busy = TRUE]
             new == [kind |-> "save", sent |-> SentByTeam(f), mounted |-> TRUE]
             calls == teamPage.calls \cup {new}
  <1>1. /\ f # Nil /\ MaySubmit(f)
        /\ teamPage' = [teamPage EXCEPT !.form.busy = TRUE, !.calls = calls]
    BY DEF SubmitTeam, ToTeam
  <1>2. f \in TeamFormState /\ teamPage.editOpen
    BY <1>1 DEF PageFits, EditFits
  <1>3. SentByTeam(f) \in SentTeam /\ g \in TeamFormState /\ g.busy
        /\ SentByTeam(g) = SentByTeam(f) /\ ~f.busy
    BY <1>1, <1>2, SubmittedTyped
  <1>4. \A c \in teamPage.calls : ~Waits(c)
    BY <1>1, <1>3 DEF PageFits, EditFits
  <1>5. teamPage' = [teamPage EXCEPT !.form = g, !.calls = calls]
    BY <1>1 DEF PageFits, PageShape, PageFields
  <1>6. new \in SaveCall /\ Waits(new) /\ new.sent = SentByTeam(g)
    BY <1>3 DEF SaveCall, Waits
  <1> HIDE DEF new, g
  <1>7. /\ calls \subseteq SaveCall \cup {[kind |-> "delete"]}
        /\ \E c \in calls : Waits(c)
        /\ \A c \in calls : Waits(c) => c.sent = SentByTeam(g)
    BY <1>4, <1>6 DEF PageFits, PageKnows
  <1> HIDE DEF calls
  <1>8. /\ teamPage'.form = g /\ teamPage'.calls = calls
        /\ teamPage'.editOpen = teamPage.editOpen
        /\ \A field \in {"shown", "loads", "loading", "editOpen", "deleteOpen"} :
              teamPage'[field] = teamPage[field]
    BY <1>5 DEF PageFits, PageShape, PageFields
  <1>9. PageFits(teamPage')
    BY <1>2, <1>3, <1>7, <1>8, FormSetFits
  <1>10. ~TeamTaken
    BY <1>8, NotTaken
  <1> QED BY <1>9, <1>10

LEMMA DeleteDialogFits ==
    ASSUME PageFits(teamPage), PageShape(teamPage'),
           OpenDelete \/ CloseTeamDelete \/ ConfirmTeamDelete
    PROVE  PageFits(teamPage') /\ ~TeamTaken
  <1> DEFINE more == teamPage.calls \cup {[kind |-> "delete"]}
  <1>1. \/ ~teamPage.editOpen /\ teamPage' = [teamPage EXCEPT !.deleteOpen = TRUE]
        \/ teamPage' = [teamPage EXCEPT !.deleteOpen = FALSE]
        \/ teamPage' = [teamPage EXCEPT !.calls = more]
    BY DEF OpenDelete, CloseTeamDelete, ConfirmTeamDelete, ToTeam, PageFree
  <1>2. /\ more \subseteq SaveCall \cup {[kind |-> "delete"]}
        /\ \A c : Waits(c) => (c \in more <=> c \in teamPage.calls)
    <2>1. ~Waits([kind |-> "delete"])
      BY DEF Waits
    <2> QED BY <2>1 DEF PageFits, PageKnows
  <1> HIDE DEF more
  <1>3. /\ teamPage'.form = teamPage.form /\ teamPage'.editOpen = teamPage.editOpen
        /\ teamPage'.shown = teamPage.shown /\ teamPage'.loads = teamPage.loads
        /\ teamPage'.loading = teamPage.loading
    BY <1>1 DEF PageFits, PageShape, PageFields
  <1>4. teamPage'.calls = teamPage.calls \/ teamPage'.calls = more
    BY <1>1 DEF PageFits, PageShape, PageFields
  <1>5. ~(teamPage'.editOpen /\ teamPage'.deleteOpen)
    BY <1>1 DEF PageFits, PageShape, PageFields, PageKnows
  <1>6. PageKnows(teamPage')
    BY <1>2, <1>3, <1>4, <1>5 DEF PageFits, PageKnows
  <1>7. \A c : Waits(c) => (c \in teamPage'.calls <=> c \in teamPage.calls)
    BY <1>2, <1>4
  <1>8. EditFits(teamPage')
    BY <1>3, <1>7 DEF PageFits, EditFits
  <1>9. ~TeamTaken
    BY <1>3, NotTaken
  <1> QED BY <1>6, <1>8, <1>9 DEF PageFits

\* A refusal is told to the form that waits.
LEMMA RefusedFits ==
    ASSUME PageFits(teamPage), PageShape(teamPage'), NEW c \in teamPage.calls,
           c.kind = "save", teamPage' = SaveRefused(teamPage, c)
    PROVE  PageFits(teamPage') /\ ~TeamTaken
  <1> DEFINE f == teamPage.form
             newForm == IF c.mounted THEN [f EXCEPT !.busy = FALSE] ELSE f
             calls == teamPage.calls \ {c}
  <1>1. teamPage' = [teamPage EXCEPT !.calls = calls, !.form = newForm]
    BY DEF SaveRefused
  <1>2. c \in SaveCall
    BY DEF PageFits, PageKnows
  <1>3. calls \subseteq SaveCall \cup {[kind |-> "delete"]}
    BY DEF PageFits, PageKnows
  <1> HIDE DEF newForm, calls
  <1>4. /\ teamPage'.form = newForm /\ teamPage'.calls = calls
        /\ teamPage'.editOpen = teamPage.editOpen /\ teamPage'.shown = teamPage.shown
        /\ teamPage'.loads = teamPage.loads /\ teamPage'.loading = teamPage.loading
        /\ teamPage'.deleteOpen = teamPage.deleteOpen
        /\ \A field \in {"shown", "loads", "loading", "editOpen", "deleteOpen"} :
              teamPage'[field] = teamPage[field]
    BY <1>1 DEF PageFits, PageShape, PageFields
  <1>5. ~TeamTaken
    BY <1>4, NotTaken
  <1>6. CASE c.mounted
    <2>1. f # Nil /\ f \in TeamFormState /\ teamPage.editOpen
      BY <1>6 DEF PageFits, EditFits, Waits
    <2>2. [f EXCEPT !.busy = FALSE] \in TeamFormState /\ ~[f EXCEPT !.busy = FALSE].busy
      BY <2>1 DEF TeamFormState
    <2>3. newForm = [f EXCEPT !.busy = FALSE]
      BY <1>6 DEF newForm
    <2>4. newForm \in TeamFormState /\ ~newForm.busy
      BY <2>2, <2>3
    <2>5. \A d \in calls : ~Waits(d)
      <3> SUFFICES ASSUME NEW d \in calls, Waits(d) PROVE FALSE
        OBVIOUS
      <3>1. d \in teamPage.calls /\ d # c
        BY DEF calls
      <3>2. d \in SaveCall
        BY <3>1 DEF PageFits, PageKnows, Waits
      <3>3. d.sent = SentByTeam(f) /\ c.sent = SentByTeam(f)
        BY <1>6, <3>1 DEF PageFits, EditFits, Waits
      <3>4. d.mounted = c.mounted
        BY <1>2, <1>6, <3>2 DEF Waits, SaveCall
      <3>5. d = c
        BY <1>2, <3>2, <3>3, <3>4 DEF SaveCall
      <3> QED BY <3>1, <3>5
    <2>6. PageFits(teamPage')
      BY <1>3, <1>4, <2>1, <2>4, <2>5, FormSetFits
    <2> QED BY <1>5, <2>6
  <1>7. CASE ~c.mounted
    <2>1. newForm = f /\ \A d : Waits(d) => (d \in calls <=> d \in teamPage.calls)
      BY <1>7 DEF newForm, calls, Waits
    <2>2. PageKnows(teamPage')
      BY <1>3, <1>4 DEF PageFits, PageKnows
    <2>3. EditFits(teamPage')
      BY <1>4, <2>1 DEF PageFits, EditFits
    <2> QED BY <1>5, <2>2, <2>3 DEF PageFits
  <1> QED BY <1>6, <1>7

\* The deletion that ends is no save.
LEMMA DeleteEndFits ==
    ASSUME PageFits(teamPage), PageShape(teamPage'), NEW c \in teamPage.calls,
           c.kind # "save", NEW gone,
           \/ teamPage' = DeleteRefused(teamPage, c)
           \/ teamPage' = [DeleteRefused(teamPage, c) EXCEPT !.gone = gone]
    PROVE  PageFits(teamPage') /\ ~TeamTaken
  <1> DEFINE calls == teamPage.calls \ {c}
             p == [teamPage EXCEPT !.calls = calls, !.deleteOpen = FALSE]
  <1>1. teamPage' = p \/ teamPage' = [p EXCEPT !.gone = gone]
    BY DEF DeleteRefused
  <1>2. calls \subseteq SaveCall \cup {[kind |-> "delete"]}
        /\ \A d : Waits(d) => (d \in calls <=> d \in teamPage.calls)
    BY DEF PageFits, PageKnows, Waits
  <1> HIDE DEF calls
  <1>3. /\ teamPage'.form = teamPage.form /\ teamPage'.calls = calls
        /\ teamPage'.editOpen = teamPage.editOpen /\ teamPage'.shown = teamPage.shown
        /\ teamPage'.loads = teamPage.loads /\ teamPage'.loading = teamPage.loading
        /\ teamPage'.deleteOpen = FALSE
    BY <1>1 DEF PageFits, PageShape, PageFields
  <1>4. PageKnows(teamPage')
    BY <1>2, <1>3 DEF PageFits, PageKnows
  <1>5. EditFits(teamPage')
    BY <1>2, <1>3 DEF PageFits, EditFits
  <1>6. ~TeamTaken
    BY <1>3, NotTaken
  <1> QED BY <1>4, <1>5, <1>6 DEF PageFits

LEMMA UpdateFits ==
    ASSUME TeamRowsFit, PageFits(teamPage), PageShape(teamPage'),
           NEW c \in teamPage.calls, UpdateTeam(c)
    PROVE  PageFits(teamPage') /\ TeamRowsFit' /\ PageSaved
  <1>1. c.kind = "save" /\ c \in SaveCall /\ c.sent \in SentTeam
        /\ otherRow' = otherRow /\ memberOf' = memberOf
    BY DEF UpdateTeam, PageFits, PageKnows, SaveCall
  <1>2. CASE ~(teamRow # Nil /\ MayStore(c.sent, otherRow))
    <2>1. teamPage' = SaveRefused(teamPage, c) /\ teamRow' = teamRow
      BY <1>2 DEF UpdateTeam
    <2>2. PageFits(teamPage') /\ ~TeamTaken
      BY <1>1, <2>1, RefusedFits
    <2> QED BY <1>1, <2>1, <2>2, RowsStay DEF PageSaved
  <1>3. CASE teamRow # Nil /\ MayStore(c.sent, otherRow)
    <2> DEFINE p == [teamPage EXCEPT !.calls = teamPage.calls \ {c}, !.editOpen = FALSE]
    <2>1. teamPage' = LoadTeam(p) /\ FreeLoads(teamPage) # {}
          /\ teamRow' = PutTeam(teamRow, c.sent)
      BY <1>3 DEF UpdateTeam, SaveDone, RoomForLoad
    <2>2. /\ p = [f \in PageFields |-> p[f]] /\ p.editOpen = FALSE
          /\ p.calls = teamPage.calls \ {c} /\ p.shown = teamPage.shown
          /\ p.loads = teamPage.loads /\ p.fresh = teamPage.fresh /\ p.gone = teamPage.gone
      BY DEF PageFits, PageShape, PageFields
    <2> HIDE DEF p
    <2>3. PageShape(p) /\ PageKnows(p) /\ FreeLoads(p) # {}
      BY <2>1, <2>2 DEF PageFits, PageShape, PageKnows, FreeLoads
    <2>4. PageFits(teamPage')
          /\ \A d \in p.calls : d.kind = "save" =>
                \E e \in teamPage'.calls : e.kind = "save" /\ e.sent = d.sent
      BY <2>1, <2>3, LoadFits
    <2>5. teamRow \in TeamRow
      BY <1>3 DEF TeamRowsFit
    <2>6. teamRow' \in TeamRow /\ MayStore(teamRow', otherRow')
      BY <1>1, <1>3, <2>1, <2>5, TeamPutTyped
    <2>7. TeamRowsFit'
      <3>1. teamRow' # Nil
        BY <2>6, NilIsNoTeam
      <3> QED BY <1>1, <2>6, <3>1 DEF TeamRowsFit
    <2>8. ASSUME TeamTaken PROVE Shows(teamPage.form, teamRow', teamRow.text)
      <3>1. PICK d \in teamPage.calls :
               Waits(d) /\ \A e \in teamPage'.calls : e.kind = "save" => e.sent # d.sent
        BY <2>8 DEF TeamTaken, Waits
      <3>2. d = c
        BY <2>2, <2>4, <3>1 DEF Waits
      <3>3. teamPage.form \in TeamFormState /\ c.sent = SentByTeam(teamPage.form)
        BY <3>1, <3>2 DEF PageFits, EditFits
      <3> QED BY <2>1, <3>3, StoredShows
    <2> QED BY <2>4, <2>7, <2>8 DEF PageSaved
  <1> QED BY <1>2, <1>3

LEMMA NoMembers == ASSUME memberOf' = [u \in Users |-> Nil]
                   PROVE  memberOf' \in [Users -> TeamRole \cup {Nil}] /\ \A u \in Users : ~IsMember(u)'
  BY DEF IsMember

LEMMA DeleteFits ==
    ASSUME TeamRowsFit, PageFits(teamPage), PageShape(teamPage'),
           NEW c \in teamPage.calls, DeleteTeam(c)
    PROVE  PageFits(teamPage') /\ TeamRowsFit' /\ PageSaved
  <1> DEFINE gone == TRUE
  <1>1. /\ c.kind # "save" /\ otherRow' = otherRow
        /\ \/ teamRow' = Nil /\ memberOf' = [u \in Users |-> Nil]
              /\ teamPage' = [DeleteRefused(teamPage, c) EXCEPT !.gone = gone]
           \/ teamRow' = teamRow /\ memberOf' = memberOf /\ teamPage' = DeleteRefused(teamPage, c)
    BY DEF DeleteTeam
  <1> HIDE DEF gone
  <1>2. PageFits(teamPage') /\ ~TeamTaken
    BY <1>1, DeleteEndFits
  <1>3. TeamRowsFit'
    BY <1>1, RowsStay, NoMembers DEF TeamRowsFit
  <1> QED BY <1>2, <1>3 DEF PageSaved

LEMMA CallFailFits ==
    ASSUME TeamRowsFit, PageFits(teamPage), PageShape(teamPage'),
           NEW c \in teamPage.calls, TeamCallFails(c)
    PROVE  PageFits(teamPage') /\ TeamRowsFit' /\ PageSaved
  <1>1. UNCHANGED <<teamRow, otherRow, memberOf>>
    BY DEF TeamCallFails, ToTeam, teamRows
  <1>2. CASE c.kind = "save"
    <2>1. teamPage' = SaveRefused(teamPage, c)
      BY <1>2 DEF TeamCallFails, ToTeam
    <2>2. PageFits(teamPage') /\ ~TeamTaken
      BY <1>2, <2>1, RefusedFits
    <2> QED BY <1>1, <2>2, RowsStay DEF PageSaved
  <1>3. CASE c.kind # "save"
    <2> DEFINE gone == TRUE
    <2>1. teamPage' = DeleteRefused(teamPage, c)
      BY <1>3 DEF TeamCallFails, ToTeam
    <2> HIDE DEF gone
    <2>2. PageFits(teamPage') /\ ~TeamTaken
      BY <1>3, <2>1, DeleteEndFits
    <2> QED BY <1>1, <2>2, RowsStay DEF PageSaved
  <1> QED BY <1>2, <1>3

\* Other clients change the rows only.
LEMMA MissedFits ==
    ASSUME PageFits(teamPage), PageShape(teamPage'),
           teamPage' = [teamPage EXCEPT !.fresh = FALSE]
    PROVE  PageFits(teamPage') /\ ~TeamTaken
  <1>1. /\ teamPage'.form = teamPage.form /\ teamPage'.calls = teamPage.calls
        /\ teamPage'.editOpen = teamPage.editOpen /\ teamPage'.shown = teamPage.shown
        /\ teamPage'.loads = teamPage.loads /\ teamPage'.loading = teamPage.loading
        /\ teamPage'.deleteOpen = teamPage.deleteOpen
    BY DEF PageFits, PageShape, PageFields
  <1>2. PageKnows(teamPage') /\ EditFits(teamPage')
    BY <1>1 DEF PageFits, PageKnows, EditFits
  <1> QED BY <1>1, <1>2, NotTaken DEF PageFits

LEMMA ElsewhereFits ==
    ASSUME TeamRowsFit, PageFits(teamPage), PageShape(teamPage'), TeamElsewhere
    PROVE  PageFits(teamPage') /\ TeamRowsFit' /\ PageSaved
  <1>1. PageFits(teamPage') /\ ~TeamTaken
    BY MissedFits DEF TeamElsewhere
  <1>2. TeamRowsFit'
    <2>1. CASE teamRow # Nil /\ UNCHANGED <<otherRow, memberOf>>
               /\ \E sent \in TeamPuts : MayStore(sent, otherRow) /\ teamRow' = PutTeam(teamRow, sent)
      <3>1. PICK sent \in SentTeam : MayStore(sent, otherRow) /\ teamRow' = PutTeam(teamRow, sent)
        BY <2>1, TeamConstants DEF SentTeam
      <3>2. teamRow \in TeamRow
        BY <2>1 DEF TeamRowsFit
      <3>3. teamRow' \in TeamRow /\ MayStore(teamRow', otherRow')
        BY <2>1, <3>1, <3>2, TeamPutTyped
      <3> QED BY <2>1, <3>3, NilIsNoTeam DEF TeamRowsFit
    <2>2. CASE UNCHANGED otherRow /\ teamRow' = Nil /\ memberOf' = [u \in Users |-> Nil]
      BY <2>2, NoMembers DEF TeamRowsFit
    <2>3. CASE /\ UNCHANGED <<teamRow, memberOf>>
               /\ IF otherRow = Nil THEN MayStore(OtherTeam, teamRow) /\ otherRow' = OtherTeam
                  ELSE otherRow' = Nil
      <3>1. teamRow # Nil => MayStore(teamRow', otherRow')
        BY <2>3 DEF TeamRowsFit, MayStore
      <3>2. otherRow' \in TeamRow \cup {OtherTeam, Nil}
        BY <2>3
      <3>3. \A u \in Users : IsMember(u)' <=> IsMember(u)
        BY <2>3 DEF IsMember
      <3> QED BY <2>3, <3>1, <3>2, <3>3 DEF TeamRowsFit
    <2> QED BY <2>1, <2>2, <2>3 DEF TeamElsewhere
  <1> QED BY <1>1, <1>2 DEF PageSaved

LEMMA RetryFits ==
    ASSUME TeamRowsFit, PageFits(teamPage), Retry
    PROVE  PageFits(teamPage') /\ TeamRowsFit' /\ PageSaved
  <1>1. /\ teamPage' = LoadTeam(teamPage) /\ FreeLoads(teamPage) # {}
        /\ UNCHANGED <<teamRow, otherRow, memberOf>>
    BY DEF Retry, ToTeam, RoomForLoad, teamRows
  <1>2. PageFits(teamPage') /\ teamPage'.editOpen = teamPage.editOpen
    BY <1>1, LoadFits DEF PageFits
  <1> QED BY <1>1, <1>2, RowsStay, NotTaken DEF PageSaved

LEMMA TeamStepFits ==
    ASSUME TeamRowsFit, PageFits(teamPage), TeamInv, TeamNext
    PROVE  PageFits(teamPage') /\ TeamRowsFit' /\ PageSaved
  <1>1. TeamInv' /\ PageShape(teamPage')
    BY TeamStepKeeps DEF TeamInv
  <1>2. ASSUME NEW i \in TeamLoads, ReadTeam(i) \/ GotTeam(i)
        PROVE  PageFits(teamPage') /\ TeamRowsFit' /\ PageSaved
    <2>1. UNCHANGED <<teamRow, otherRow, memberOf>>
      BY <1>2 DEF ReadTeam, GotTeam, ToTeam, teamRows
    <2>2. PageFits(teamPage') /\ teamPage'.editOpen = teamPage.editOpen
      BY <1>1, <1>2, ReadFits, GotFits
    <2> QED BY <2>1, <2>2, RowsStay, NotTaken DEF PageSaved
  <1>3. ASSUME OpenEdit \/ CloseEdit \/ FillTeamForm \/ SubmitTeam \/ OpenDelete
               \/ CloseTeamDelete \/ ConfirmTeamDelete
        PROVE  PageFits(teamPage') /\ TeamRowsFit' /\ PageSaved
    <2>1. UNCHANGED <<teamRow, otherRow, memberOf>>
      BY <1>3 DEF OpenEdit, CloseEdit, FillTeamForm, SubmitTeam, OpenDelete, CloseTeamDelete,
                  ConfirmTeamDelete, ToTeam, teamRows
    <2>2. PageFits(teamPage') /\ ~TeamTaken
      BY <1>1, <1>3, OpenEditFits, CloseEditFits, FillFits, SubmitFits, DeleteDialogFits
    <2> QED BY <2>1, <2>2, RowsStay DEF PageSaved
  <1>4. ASSUME NEW c \in teamPage.calls, UpdateTeam(c) \/ DeleteTeam(c) \/ TeamCallFails(c)
        PROVE  PageFits(teamPage') /\ TeamRowsFit' /\ PageSaved
    BY <1>1, <1>4, UpdateFits, DeleteFits, CallFailFits
  <1> QED BY <1>1, <1>2, <1>3, <1>4, RetryFits, ElsewhereFits DEF TeamNext

----------------------------------------------------------------------------
(* The panel of the members. *)

MemberCall == [kind : {"add", "role", "remove"}, user : Users, role : TeamRole \cup {Nil}]
MemberPanel == [selectedUser : Users \cup {""}, acting : Users \cup {Nil},
                calls : SUBSET MemberCall]
TeamFits == TeamRowsFit /\ PageFits(teamPage) /\ memberPanel \in MemberPanel

LEMMA MemberPanelIs ==
    ASSUME NEW p \in MemberPanel
    PROVE  /\ p.selectedUser \in Users \cup {""} /\ p.acting \in Users \cup {Nil}
           /\ p.calls \in SUBSET MemberCall
           /\ \A u \in Users \cup {""} : [p EXCEPT !.selectedUser = u] \in MemberPanel
           /\ \A u \in Users \cup {Nil} : [p EXCEPT !.acting = u] \in MemberPanel
           /\ \A cs \in SUBSET MemberCall : [p EXCEPT !.calls = cs] \in MemberPanel
  <1>1. p.selectedUser \in Users \cup {""} /\ p.acting \in Users \cup {Nil}
        /\ p.calls \in SUBSET MemberCall
    BY DEF MemberPanel
  <1>2. ASSUME NEW u \in Users \cup {""} PROVE [p EXCEPT !.selectedUser = u] \in MemberPanel
    BY DEF MemberPanel
  <1>3. ASSUME NEW u \in Users \cup {Nil} PROVE [p EXCEPT !.acting = u] \in MemberPanel
    BY DEF MemberPanel
  <1>4. ASSUME NEW cs \in SUBSET MemberCall PROVE [p EXCEPT !.calls = cs] \in MemberPanel
    BY DEF MemberPanel
  <1> QED BY <1>1, <1>2, <1>3, <1>4

\* The panel moves, and nothing else.
LEMMA PanelMoves ==
    ASSUME TeamFits, NEW p \in MemberPanel, ToPanel(p)
    PROVE  TeamFits' /\ PageSaved
  <1>1. UNCHANGED <<teamRow, otherRow, memberOf, teamPage>> /\ memberPanel' = p
    BY DEF ToPanel, teamRows
  <1>2. TeamRowsFit'
    BY <1>1, RowsStay DEF TeamFits
  <1>3. ~TeamTaken
    BY <1>1, NotTaken DEF TeamFits
  <1>4. PageFits(teamPage')
    BY <1>1 DEF TeamFits
  <1> QED BY <1>1, <1>2, <1>3, <1>4 DEF TeamFits, PageSaved

LEMMA MemberStarts ==
    ASSUME TeamFits, NEW p \in MemberPanel, NEW kind \in {"add", "role", "remove"},
           NEW u \in Users, NEW role \in TeamRole \cup {Nil}, StartMember(p, kind, u, role)
    PROVE  TeamFits' /\ PageSaved
  <1> DEFINE call == [kind |-> kind, user |-> u, role |-> role]
             calls == p.calls \cup {call}
  <1>1. ToPanel([p EXCEPT !.calls = calls])
    BY DEF StartMember
  <1>2. calls \in SUBSET MemberCall
    <2>1. call \in MemberCall
      BY DEF MemberCall
    <2> QED BY <2>1, MemberPanelIs
  <1> HIDE DEF calls
  <1>3. [p EXCEPT !.calls = calls] \in MemberPanel
    BY <1>2, MemberPanelIs
  <1> DEFINE q == [p EXCEPT !.calls = calls]
  <1> HIDE DEF q
  <1>4. q \in MemberPanel /\ ToPanel(q)
    BY <1>1, <1>3 DEF q
  <1> QED BY <1>4, PanelMoves

LEMMA PanelFits ==
    ASSUME TeamFits, ChooseMember \/ HandleAddMember
                     \/ \E u \in Users : HandleToggleRole(u) \/ HandleRemoveMember(u)
    PROVE  TeamFits' /\ PageSaved
  <1>1. memberPanel \in MemberPanel
    BY DEF TeamFits
  <1>2. CASE ChooseMember
    <2>1. PICK u \in Users \cup {""} : ToPanel([memberPanel EXCEPT !.selectedUser = u])
      BY <1>2 DEF ChooseMember, AvailableUsers
    <2>2. [memberPanel EXCEPT !.selectedUser = u] \in MemberPanel
      BY <1>1, MemberPanelIs
    <2> QED BY <2>1, <2>2, PanelMoves
  <1>3. CASE HandleAddMember
    <2>1. memberPanel.selectedUser \in Users
      BY <1>1, <1>3, MemberPanelIs DEF HandleAddMember
    <2>2. PICK role \in TeamRole : StartMember(memberPanel, "add", memberPanel.selectedUser, role)
      BY <1>3 DEF HandleAddMember
    <2> QED BY <1>1, <2>1, <2>2, MemberStarts
  <1>4. ASSUME NEW u \in Users, HandleToggleRole(u) \/ HandleRemoveMember(u)
        PROVE  TeamFits' /\ PageSaved
    <2> DEFINE p == [memberPanel EXCEPT !.acting = u]
               role == IF teamPage.shown.members[u] = "lead" THEN "member" ELSE "lead"
    <2>1. p \in MemberPanel
      BY <1>1, MemberPanelIs
    <2>2. role \in TeamRole
      BY DEF TeamRole
    <2>3. StartMember(p, "role", u, role) \/ StartMember(p, "remove", u, Nil)
      BY <1>4 DEF HandleToggleRole, HandleRemoveMember
    <2> HIDE DEF p, role
    <2> QED BY <2>1, <2>2, <2>3, MemberStarts
  <1> QED BY <1>2, <1>3, <1>4

LEMMA EndedTyped ==
    ASSUME NEW p \in MemberPanel, NEW call
    PROVE  MemberRefused(p, call) \in MemberPanel /\ MemberDone(p, call) \in MemberPanel
  <1> DEFINE calls == p.calls \ {call}
             acting == IF call.kind = "add" THEN p.acting ELSE Nil
             q == [p EXCEPT !.calls = calls, !.acting = acting]
  <1>1. calls \in SUBSET MemberCall /\ acting \in Users \cup {Nil}
    BY MemberPanelIs
  <1>2. MemberRefused(p, call) = q
    BY DEF MemberRefused
  <1> HIDE DEF calls, acting
  <1>3. q \in MemberPanel
    BY <1>1 DEF MemberPanel
  <1> HIDE DEF q
  <1>4. [q EXCEPT !.selectedUser = ""] \in MemberPanel
    BY <1>3, MemberPanelIs
  <1>5. MemberDone(p, call) = q \/ MemberDone(p, call) = [q EXCEPT !.selectedUser = ""]
    BY <1>2 DEF MemberDone
  <1> QED BY <1>2, <1>3, <1>4, <1>5

LEMMA MemberServed ==
    ASSUME TeamFits, TeamInv, NEW c \in memberPanel.calls, ServeMember(c) \/ MemberCallFails(c)
    PROVE  TeamFits' /\ PageSaved
  <1>1. memberPanel \in MemberPanel /\ c \in MemberCall
    BY MemberPanelIs DEF TeamFits
  <1>2. MemberRefused(memberPanel, c) \in MemberPanel /\ MemberDone(memberPanel, c) \in MemberPanel
    BY <1>1, EndedTyped
  <1>3. CASE MemberCallFails(c)
    BY <1>2, <1>3, PanelMoves DEF MemberCallFails
  <1>4. CASE ServeMember(c) /\ ~MayServe(c)
    <2>1. /\ memberPanel' = MemberRefused(memberPanel, c)
          /\ UNCHANGED <<teamRow, otherRow, memberOf, teamPage>>
      BY <1>4 DEF ServeMember
    <2>2. TeamRowsFit' /\ ~TeamTaken
      BY <2>1, RowsStay, NotTaken DEF TeamFits
    <2> QED BY <1>2, <2>1, <2>2 DEF TeamFits, PageSaved
  <1>5. CASE ServeMember(c) /\ MayServe(c)
    <2>1. /\ memberPanel' = MemberDone(memberPanel, c) /\ teamPage' = LoadTeam(teamPage)
          /\ FreeLoads(teamPage) # {} /\ UNCHANGED <<teamRow, otherRow>> /\ teamRow # Nil
          /\ memberOf' = [memberOf EXCEPT ![c.user] = c.role]
      BY <1>5 DEF ServeMember, RoomForLoad, MayServe
    <2>2. PageFits(teamPage') /\ teamPage'.editOpen = teamPage.editOpen
      BY <2>1, LoadFits DEF TeamFits, PageFits
    <2>3. ~TeamTaken
      BY <2>2, NotTaken DEF TeamFits
    <2>4. memberOf' \in [Users -> TeamRole \cup {Nil}]
      <3>1. c.user \in Users /\ c.role \in TeamRole \cup {Nil}
        BY <1>1 DEF MemberCall
      <3> QED BY <2>1, <3>1 DEF TeamFits, TeamRowsFit
    <2>5. teamRow # Nil => MayStore(teamRow', otherRow')
      BY <2>1 DEF TeamFits, TeamRowsFit
    <2>6. TeamRowsFit'
      BY <2>1, <2>4, <2>5 DEF TeamFits, TeamRowsFit
    <2> QED BY <1>2, <2>1, <2>2, <2>3, <2>6 DEF TeamFits, PageSaved
  <1> QED BY <1>3, <1>4, <1>5

LEMMA MembersStepFits ==
    ASSUME TeamFits, TeamInv, MembersNext
    PROVE  TeamFits' /\ PageSaved
  <1>1. TeamInv' /\ PageShape(teamPage')
    BY MembersStepKeeps DEF TeamInv
  <1>2. ASSUME NEW i \in TeamLoads, ReadTeam(i) \/ GotTeam(i)
        PROVE  TeamFits' /\ PageSaved
    <2>1. UNCHANGED <<teamRow, otherRow, memberOf, memberPanel>>
      BY <1>2 DEF ReadTeam, GotTeam, ToTeam, teamRows
    <2>2. PageFits(teamPage') /\ teamPage'.editOpen = teamPage.editOpen
      BY <1>1, <1>2, ReadFits, GotFits DEF TeamFits
    <2> QED BY <2>1, <2>2, RowsStay, NotTaken DEF PageSaved, TeamFits
  <1>3. CASE Retry
    <2>1. UNCHANGED memberPanel
      BY <1>3 DEF Retry, ToTeam
    <2> QED BY <1>3, <2>1, RetryFits DEF TeamFits
  <1>4. CASE MemberElsewhere
    <2>1. /\ teamRow # Nil /\ UNCHANGED <<teamRow, otherRow, memberPanel>>
          /\ teamPage' = [teamPage EXCEPT !.fresh = FALSE]
      BY <1>4 DEF MemberElsewhere
    <2>2. memberOf' \in [Users -> TeamRole \cup {Nil}]
      BY <1>4, TeamConstants DEF MemberElsewhere, TeamFits, TeamRowsFit
    <2>3. PageFits(teamPage') /\ ~TeamTaken
      BY <1>1, <2>1, MissedFits DEF TeamFits
    <2>4. teamRow # Nil => MayStore(teamRow', otherRow')
      BY <2>1 DEF TeamFits, TeamRowsFit
    <2>5. TeamRowsFit'
      BY <2>1, <2>2, <2>4 DEF TeamFits, TeamRowsFit
    <2> QED BY <2>1, <2>3, <2>5 DEF TeamFits, PageSaved
  <1> QED BY <1>2, <1>3, <1>4, PanelFits, MemberServed DEF MembersNext, MemberCalls

\* The same of the steps of the page, which leave the panel alone.
LEMMA TeamPageFits ==
    ASSUME TeamFits, TeamInv, TeamNext
    PROVE  TeamFits' /\ PageSaved
  <1>1. UNCHANGED memberPanel
    <2>1. ASSUME NEW c, UpdateTeam(c) \/ DeleteTeam(c) \/ TeamCallFails(c)
          PROVE  UNCHANGED memberPanel
      BY <2>1 DEF UpdateTeam, DeleteTeam, TeamCallFails, ToTeam
    <2>2. ASSUME NEW i, ReadTeam(i) \/ GotTeam(i) PROVE UNCHANGED memberPanel
      BY <2>2 DEF ReadTeam, GotTeam, ToTeam
    <2>3. Retry \/ OpenEdit \/ CloseEdit \/ FillTeamForm \/ SubmitTeam \/ OpenDelete
          \/ CloseTeamDelete \/ ConfirmTeamDelete \/ TeamElsewhere => UNCHANGED memberPanel
      BY DEF Retry, OpenEdit, CloseEdit, FillTeamForm, SubmitTeam, OpenDelete, CloseTeamDelete,
             ConfirmTeamDelete, TeamElsewhere, ToTeam
    <2> QED BY <2>1, <2>2, <2>3 DEF TeamNext
  <1> QED BY <1>1, TeamStepFits DEF TeamFits

----------------------------------------------------------------------------
(* The list of the teams and its form. *)

ListFields == {"shown", "load", "failed", "form", "sent", "mounted"}
\* The form is there while the list is shown, and waits for the request that
\* sent what it shows.
ListFits(p) ==
    /\ p = [f \in ListFields |-> p[f]]
    /\ p.form \in TeamFormState \cup {Nil}
    /\ p.form # Nil => p.load.state = "none" /\ ~p.failed /\ (p.form.busy <=> p.mounted)
    /\ p.mounted => p.form # Nil /\ p.sent = SentByTeam(p.form)
    /\ p.sent # Nil => p.sent \in SentTeam
NewSaved == TeamCreated => Shows(teamsPage.form, otherRow', Nil)

LEMMA BlankTyped == BlankTeam \in TeamFormState /\ ~BlankTeam.busy
  BY DEF BlankTeam, TeamFormState

\* A list without a form, which waits for nothing.
LEMMA NoFormFits ==
    ASSUME NEW q, q = [f \in ListFields |-> q[f]], q.form = Nil, ~q.mounted,
           q.sent # Nil => q.sent \in SentTeam
    PROVE  ListFits(q)
  BY DEF ListFits

LEMMA ListMoves ==
    ASSUME ListFits(teamsPage),
           RetryTeams \/ ReadTeams \/ GotTeams \/ OpenAdd \/ CloseAdd \/ FillNewTeam
           \/ SubmitNewTeam
    PROVE  ListFits(teamsPage') /\ UNCHANGED <<teamRow, otherRow, memberOf, teamPage, memberPanel>>
  <1> DEFINE p == teamsPage
             f == teamsPage.form
  <1>1. UNCHANGED <<teamRow, otherRow, memberOf, teamPage, memberPanel>>
    BY DEF RetryTeams, ReadTeams, GotTeams, OpenAdd, CloseAdd, FillNewTeam, SubmitNewTeam,
           ToList, teamRows
  <1>2. TeamLoad("none").state = "none" /\ TeamLoad("asked").state = "asked"
    BY DEF TeamLoad
  <1>3. CASE RetryTeams
    <2>1. p.failed /\ teamsPage' = [p EXCEPT !.load = TeamLoad("asked"), !.form = Nil]
      BY <1>3 DEF RetryTeams, LoadTeams, ToList
    <2>2. ~p.mounted
      BY <2>1 DEF ListFits
    <2>3. /\ teamsPage' = [x \in ListFields |-> teamsPage'[x]] /\ teamsPage'.form = Nil
          /\ teamsPage'.mounted = p.mounted /\ teamsPage'.sent = p.sent
      BY <2>1 DEF ListFits, ListFields
    <2>4. ListFits(teamsPage')
      BY <2>2, <2>3 DEF ListFits
    <2> QED BY <1>1, <2>4
  <1>4. CASE ReadTeams \/ GotTeams
    <2>1. p.form = Nil /\ ~p.mounted
      BY <1>2, <1>4 DEF ReadTeams, GotTeams, ListFits
    <2>2. /\ teamsPage' = [x \in ListFields |-> teamsPage'[x]] /\ teamsPage'.form = p.form
          /\ teamsPage'.mounted = p.mounted /\ teamsPage'.sent = p.sent
      <3>1. CASE ReadTeams
        <4>1. \E l : teamsPage' = [p EXCEPT !.load = l]
          BY <3>1 DEF ReadTeams, ToList
        <4> QED BY <4>1 DEF ListFits, ListFields
      <3>2. CASE GotTeams
        <4>1. \E l, failed, shown :
                 teamsPage' = [p EXCEPT !.load = l, !.failed = failed, !.shown = shown]
          BY <3>2 DEF GotTeams, ToList
        <4> QED BY <4>1 DEF ListFits, ListFields
      <3> QED BY <1>4, <3>1, <3>2
    <2>3. ListFits(teamsPage')
      BY <2>1, <2>2 DEF ListFits
    <2> QED BY <1>1, <2>3
  <1>5. CASE OpenAdd
    <2>1. /\ p.load.state = "none" /\ ~p.failed /\ p.form = Nil
          /\ teamsPage' = [p EXCEPT !.form = BlankTeam]
      BY <1>5 DEF OpenAdd, ListFree, ToList
    <2>2. ~p.mounted
      BY <2>1 DEF ListFits
    <2>3. /\ teamsPage' = [x \in ListFields |-> teamsPage'[x]] /\ teamsPage'.form = BlankTeam
          /\ teamsPage'.mounted = p.mounted /\ teamsPage'.sent = p.sent
          /\ teamsPage'.load = p.load /\ teamsPage'.failed = p.failed
      BY <2>1 DEF ListFits, ListFields
    <2>4. ListFits(teamsPage')
      BY <2>1, <2>2, <2>3, BlankTyped DEF ListFits
    <2> QED BY <1>1, <2>4
  <1>6. CASE CloseAdd
    <2>1. teamsPage' = [p EXCEPT !.form = Nil, !.mounted = FALSE]
      BY <1>6 DEF CloseAdd, ToList
    <2>2. /\ teamsPage' = [x \in ListFields |-> teamsPage'[x]] /\ teamsPage'.form = Nil
          /\ teamsPage'.mounted = FALSE /\ teamsPage'.sent = p.sent
      BY <2>1 DEF ListFits, ListFields
    <2>3. ListFits(teamsPage')
      BY <2>2 DEF ListFits
    <2> QED BY <1>1, <2>3
  <1>7. CASE FillNewTeam
    <2>1. f # Nil /\ f \in TeamFormState
      BY <1>7 DEF FillNewTeam, ListFits
    <2>2. PICK g \in TypedInto(f) : teamsPage' = [p EXCEPT !.form = g]
      BY <1>7 DEF FillNewTeam, ToList
    <2>3. g \in TeamFormState /\ ~f.busy /\ ~g.busy
      BY <2>1, TypedTyped
    <2>4. ~p.mounted
      BY <2>1, <2>3 DEF ListFits
    <2>5. /\ teamsPage' = [x \in ListFields |-> teamsPage'[x]] /\ teamsPage'.form = g
          /\ teamsPage'.mounted = p.mounted /\ teamsPage'.sent = p.sent
          /\ teamsPage'.load = p.load /\ teamsPage'.failed = p.failed
      BY <2>2 DEF ListFits, ListFields
    <2>6. ListFits(teamsPage')
      BY <2>1, <2>3, <2>4, <2>5 DEF ListFits
    <2> QED BY <1>1, <2>6
  <1>8. CASE SubmitNewTeam
    <2> DEFINE g == [f EXCEPT !.busy = TRUE]
               sent == SentByTeam(f)
    <2>1. f # Nil /\ f \in TeamFormState /\ MaySubmit(f)
      BY <1>8 DEF SubmitNewTeam, ListFits
    <2>2. /\ sent \in SentTeam /\ g \in TeamFormState /\ g.busy /\ SentByTeam(g) = sent
      BY <2>1, SubmittedTyped
    <2>3. teamsPage' = [p EXCEPT !.form = g, !.sent = sent, !.mounted = TRUE]
      <3>1. teamsPage' = [p EXCEPT !.form.busy = TRUE, !.sent = sent, !.mounted = TRUE]
        BY <1>8 DEF SubmitNewTeam, ToList
      <3> QED BY <3>1 DEF ListFits, ListFields
    <2> HIDE DEF g, sent
    <2>4. /\ teamsPage' = [x \in ListFields |-> teamsPage'[x]] /\ teamsPage'.form = g
          /\ teamsPage'.mounted = TRUE /\ teamsPage'.sent = sent
          /\ teamsPage'.load = p.load /\ teamsPage'.failed = p.failed
      BY <2>3 DEF ListFits, ListFields
    <2>5. p.load.state = "none" /\ ~p.failed
      BY <2>1 DEF ListFits
    <2>6. ListFits(teamsPage')
      BY <2>2, <2>4, <2>5, NilForm DEF ListFits
    <2> QED BY <1>1, <2>6
  <1> QED BY <1>3, <1>4, <1>5, <1>6, <1>7, <1>8

LEMMA NewRefusedFits ==
    ASSUME ListFits(teamsPage), teamsPage' = NewTeamRefused
    PROVE  ListFits(teamsPage')
  <1> DEFINE p == teamsPage
             f == teamsPage.form
             newForm == IF p.mounted THEN [f EXCEPT !.busy = FALSE] ELSE f
  <1>1. teamsPage' = [p EXCEPT !.sent = Nil, !.mounted = FALSE, !.form = newForm]
    BY DEF NewTeamRefused
  <1>2. /\ newForm \in TeamFormState \cup {Nil} /\ (newForm # Nil => f # Nil /\ ~newForm.busy)
    <2>1. CASE p.mounted
      <3>1. f \in TeamFormState /\ f # Nil
        BY <2>1 DEF ListFits
      <3>2. [f EXCEPT !.busy = FALSE] \in TeamFormState /\ ~[f EXCEPT !.busy = FALSE].busy
        BY <3>1 DEF TeamFormState
      <3>3. newForm = [f EXCEPT !.busy = FALSE]
        BY <2>1
      <3> HIDE DEF newForm
      <3> QED BY <3>1, <3>2, <3>3
    <2>2. CASE ~p.mounted
      <3>1. newForm = f
        BY <2>2
      <3> HIDE DEF newForm
      <3> QED BY <2>2, <3>1 DEF ListFits
    <2> QED BY <2>1, <2>2
  <1> HIDE DEF newForm
  <1>3. /\ teamsPage' = [x \in ListFields |-> teamsPage'[x]] /\ teamsPage'.form = newForm
        /\ teamsPage'.mounted = FALSE /\ teamsPage'.sent = Nil
        /\ teamsPage'.load = p.load /\ teamsPage'.failed = p.failed
    BY <1>1 DEF ListFits, ListFields
  <1> QED BY <1>2, <1>3 DEF ListFits

\* What an admin creates shows the form that is waiting for it.
LEMMA TeamsStepFits ==
    ASSUME TeamFits, ListFits(teamsPage), TeamsNext
    PROVE  TeamFits' /\ ListFits(teamsPage') /\ PageSaved /\ NewSaved
  <1>1. UNCHANGED <<teamRow, memberOf, teamPage, memberPanel>>
    BY DEF TeamsNext, RetryTeams, ReadTeams, GotTeams, OpenAdd, CloseAdd, FillNewTeam,
           SubmitNewTeam, CreateTeam, NewTeamFails, OtherElsewhere, ToList, teamRows
  <1>2. PageSaved
    <2>1. teamPage'.editOpen = teamPage.editOpen
      BY <1>1
    <2> QED BY <2>1, NotTaken DEF TeamFits, PageSaved
  <1>3. ASSUME TeamRowsFit' PROVE TeamFits'
    BY <1>1, <1>3 DEF TeamFits
  <1>4. ASSUME otherRow' = otherRow PROVE TeamFits' /\ NewSaved
    BY <1>1, <1>3, <1>4, RowsStay DEF TeamFits, NewSaved, TeamCreated
  <1>5. CASE RetryTeams \/ ReadTeams \/ GotTeams \/ OpenAdd \/ CloseAdd \/ FillNewTeam
             \/ SubmitNewTeam
    BY <1>2, <1>4, <1>5, ListMoves
  <1>6. CASE NewTeamFails
    BY <1>2, <1>4, <1>6, NewRefusedFits DEF NewTeamFails, ToList, teamRows
  <1>7. CASE OtherElsewhere
    <2>1. otherRow' = Nil /\ teamsPage' = teamsPage
      BY <1>7 DEF OtherElsewhere
    <2>2. TeamRowsFit'
      <3>1. \A u \in Users : IsMember(u)' <=> IsMember(u)
        BY <1>1 DEF IsMember
      <3>2. teamRow # Nil => MayStore(teamRow', otherRow')
        BY <1>1, <2>1 DEF TeamFits, TeamRowsFit, MayStore
      <3> QED BY <1>1, <2>1, <3>1, <3>2 DEF TeamFits, TeamRowsFit
    <2>3. NewSaved
      BY <2>1 DEF NewSaved, TeamCreated
    <2> QED BY <1>2, <1>3, <2>1, <2>2, <2>3
  <1>8. CASE CreateTeam
    <2> DEFINE sent == teamsPage.sent
               taken == MayStore(sent, teamRow) /\ MayStore(sent, otherRow)
    <2>1. sent # Nil /\ sent \in SentTeam
      BY <1>8 DEF CreateTeam, ListFits
    <2>2. CASE ~taken
      <3>1. otherRow' = otherRow /\ teamsPage' = NewTeamRefused
        BY <1>8, <2>2 DEF CreateTeam
      <3> QED BY <1>2, <1>4, <3>1, NewRefusedFits
    <2>3. CASE taken
      <3> DEFINE p == [teamsPage EXCEPT !.sent = Nil, !.mounted = FALSE]
      <3>1. otherRow' = TeamOf(sent)
            /\ teamsPage' = [p EXCEPT !.load = TeamLoad("asked"), !.form = Nil]
        BY <1>8, <2>3 DEF CreateTeam, LoadTeams
      <3>2. /\ teamsPage' = [x \in ListFields |-> teamsPage'[x]] /\ teamsPage'.form = Nil
            /\ teamsPage'.mounted = FALSE /\ teamsPage'.sent = Nil
        BY <3>1 DEF ListFits, ListFields
      <3>3. ListFits(teamsPage')
        BY <3>2 DEF ListFits
      <3>4. /\ TeamOf(sent) \in TeamRow /\ MayStore(TeamOf(sent), teamRow)
            /\ TeamOf(sent).name = sent.name /\ TeamOf(sent).key = sent.key
        BY <2>1, <2>3, NewTyped
      <3>5. TeamRowsFit'
        <4>1. \A u \in Users : IsMember(u)' <=> IsMember(u)
          BY <1>1 DEF IsMember
        <4>2. teamRow # Nil => MayStore(teamRow', otherRow')
          BY <1>1, <3>1, <3>4 DEF TeamFits, TeamRowsFit, MayStore
        <4>3. otherRow' \in TeamRow
          BY <3>1, <3>4
        <4> QED BY <1>1, <4>1, <4>2, <4>3 DEF TeamFits, TeamRowsFit
      <3>6. NewSaved
        <4>1. teamsPage.mounted => teamsPage.form \in TeamFormState /\ sent = SentByTeam(teamsPage.form)
          BY DEF ListFits
        <4> QED BY <3>1, <4>1, StoredShows DEF NewSaved, TeamCreated
      <3> QED BY <1>2, <1>3, <3>3, <3>5, <3>6
    <2> QED BY <2>2, <2>3
  <1> QED BY <1>5, <1>6, <1>7, <1>8 DEF TeamsNext

\* The steps of the team and its members leave the list alone.
LEMMA ListLeft ==
    TeamNext \/ MembersNext \/ MemberCalls \/ (\E u \in Users : HandleRemoveMember(u))
    => UNCHANGED teamsPage
  <1>1. ASSUME NEW c, UpdateTeam(c) \/ DeleteTeam(c) \/ TeamCallFails(c) PROVE UNCHANGED teamsPage
    BY <1>1 DEF UpdateTeam, DeleteTeam, TeamCallFails, ToTeam
  <1>2. ASSUME NEW i, ReadTeam(i) \/ GotTeam(i) PROVE UNCHANGED teamsPage
    BY <1>2 DEF ReadTeam, GotTeam, ToTeam
  <1>3. Retry \/ OpenEdit \/ CloseEdit \/ FillTeamForm \/ SubmitTeam \/ OpenDelete
        \/ CloseTeamDelete \/ ConfirmTeamDelete \/ TeamElsewhere => UNCHANGED teamsPage
    BY DEF Retry, OpenEdit, CloseEdit, FillTeamForm, SubmitTeam, OpenDelete, CloseTeamDelete,
           ConfirmTeamDelete, TeamElsewhere, ToTeam
  <1>4. ASSUME NEW u, HandleToggleRole(u) \/ HandleRemoveMember(u) PROVE UNCHANGED teamsPage
    BY <1>4 DEF HandleToggleRole, HandleRemoveMember, StartMember, ToPanel
  <1>5. ChooseMember \/ HandleAddMember \/ MemberElsewhere => UNCHANGED teamsPage
    BY DEF ChooseMember, HandleAddMember, StartMember, ToPanel, MemberElsewhere
  <1>6. MemberCalls => UNCHANGED teamsPage
    BY DEF MemberCalls, ServeMember, MemberCallFails, ToPanel
  <1> QED BY <1>1, <1>2, <1>3, <1>4, <1>5, <1>6 DEF TeamNext, MembersNext

LEMMA TeamFormsStart ==
    TeamsInit => TeamFits /\ ListFits(teamsPage) /\ ~teamsPage.mounted
  <1> SUFFICES ASSUME TeamsInit
               PROVE  TeamFits /\ ListFits(teamsPage) /\ ~teamsPage.mounted
    OBVIOUS
  <1>1. TeamRowsFit
    <2>1. teamRow \in TeamRow /\ otherRow = Nil /\ memberOf \in [Users -> TeamRole \cup {Nil}]
      BY DEF TeamsInit
    <2>2. teamRow # Nil /\ MayStore(teamRow, otherRow)
      BY <2>1, NilIsNoTeam DEF MayStore, TeamRow
    <2> QED BY <2>1, <2>2 DEF TeamRowsFit
  <1>2. PageFits(teamPage)
    <2> DEFINE loads == [i \in TeamLoads |-> TeamLoad(IF i = 1 THEN "asked" ELSE "none")]
    <2>1. teamPage = [shown |-> Nil, loading |-> TRUE, fresh |-> TRUE, gone |-> FALSE,
                      loads |-> loads, editOpen |-> FALSE, form |-> Nil, deleteOpen |-> FALSE,
                      calls |-> {}]
      BY DEF TeamsInit
    <2>2. \A i \in TeamLoads : loads[i].state # "read"
      BY DEF TeamLoad
    <2> HIDE DEF loads
    <2>3. PageKnows(teamPage)
      BY <2>1, <2>2 DEF PageKnows
    <2>4. EditFits(teamPage)
      BY <2>1 DEF EditFits
    <2> QED BY <2>3, <2>4, TeamStarts DEF PageFits, TeamInv
  <1>3. memberPanel \in MemberPanel
    BY DEF TeamsInit, MemberPanel
  <1>4. ListFits(teamsPage) /\ ~teamsPage.mounted
    BY DEF TeamsInit, ListFits, ListFields
  <1> QED BY <1>1, <1>2, <1>3, <1>4 DEF TeamFits

LEMMA TeamTyped == TeamFits /\ ListFits(teamsPage) => TeamTypeOK
  <1> SUFFICES ASSUME TeamFits, ListFits(teamsPage) PROVE TeamTypeOK
    OBVIOUS
  <1>1. TeamRowsFit /\ PageKnows(teamPage) /\ EditFits(teamPage) /\ memberPanel \in MemberPanel
    BY DEF TeamFits, PageFits
  <1>2. Visible(teamPage) => (teamPage.editOpen <=> teamPage.form # Nil)
    BY <1>1 DEF Visible, EditFits
  <1>3. teamPage.form # Nil =>
           (teamPage.form.busy <=> \E c \in teamPage.calls : c.kind = "save" /\ c.mounted)
    BY <1>1 DEF EditFits, Waits
  <1>4. memberPanel.selectedUser \in Users \cup {""} /\ memberPanel.acting \in Users \cup {Nil}
    BY <1>1, MemberPanelIs
  <1>5. ~(teamPage.editOpen /\ teamPage.deleteOpen)
    BY <1>1 DEF PageKnows
  <1>6. teamsPage.form # Nil => (teamsPage.form.busy <=> teamsPage.mounted)
    BY DEF ListFits
  <1> QED BY <1>1, <1>2, <1>3, <1>4, <1>5, <1>6 DEF TeamTypeOK, TeamRowsFit

----------------------------------------------------------------------------
(* All pages. *)

\* While the page of a team moves, no team is being created.
TeamsFit ==
    /\ TeamFits /\ ListFits(teamsPage)
    /\ part \in {"team", "members"} => ~teamsPage.mounted
PagesInv ==
    /\ ReviewInv /\ ReviewTypes /\ ViewInv /\ ViewParts
    /\ FormInv /\ SettingsInv /\ TeamInv /\ TeamsFit

LEMMA PagesStart == Init => PagesInv
  <1> SUFFICES ASSUME Init PROVE PagesInv
    OBVIOUS
  <1>1. ReviewInit /\ ViewInit /\ FormInit /\ SettingsInit /\ TeamsInit
    BY DEF Init
  <1>2. ReviewInv /\ ReviewTypes /\ ViewInv /\ ViewParts
    BY <1>1, ReviewStarts, ReviewTypesStart, ViewStarts, ViewPartsStart
  <1>3. FormInv /\ SettingsInv
    BY <1>1, FormStarts, SettingsStart
  <1>4. TeamInv /\ TeamsFit
    BY <1>1, TeamStarts, TeamFormsStart DEF TeamsFit
  <1> QED BY <1>2, <1>3, <1>4 DEF PagesInv

\* Each page moves as its own module says, or not at all.
LEMMA PagesMove ==
    ASSUME [Next]_<<part, reviewVars, viewVars, formVars, settingsVars, teamVars>>
    PROVE  /\ (ReviewNext \/ UNCHANGED reviewVars) /\ (ViewNext \/ UNCHANGED viewVars)
           /\ (FormNext \/ UNCHANGED formVars) /\ (SettingsNext \/ UNCHANGED settingsVars)
           /\ UNCHANGED part
           /\ \/ UNCHANGED teamVars
              \/ part = "team" /\ (TeamNext \/ HandleRemoveMember("u1") \/ MemberCalls)
              \/ part = "members" /\ MembersNext
              \/ part = "teams" /\ TeamsNext
  BY DEF Next, Only, Still, SettingsNext

LEMMA TeamKept ==
    ASSUME TeamInv, \/ UNCHANGED teamVars \/ TeamNext \/ HandleRemoveMember("u1") \/ MemberCalls
                    \/ MembersNext \/ TeamsNext
    PROVE  TeamInv'
  <1>1. CASE UNCHANGED teamVars
    BY <1>1, AsideKeeps DEF teamVars, teamRows
  <1>2. CASE HandleRemoveMember("u1")
    BY <1>2, PanelKeeps
  <1> QED
    BY <1>1, <1>2, TeamStepKeeps, MemberCallsKeep, MembersStepKeeps, TeamsStepKeeps

LEMMA TeamsKept ==
    ASSUME PagesInv, [Next]_<<part, reviewVars, viewVars, formVars, settingsVars, teamVars>>
    PROVE  TeamsFit' /\ TeamSaved
  <1>1. /\ TeamInv /\ TeamFits /\ ListFits(teamsPage) /\ UNCHANGED part
        /\ part \in {"team", "members"} => ~teamsPage.mounted
    BY PagesMove DEF PagesInv, TeamsFit
  <1>2. CASE UNCHANGED teamVars
    <2>1. UNCHANGED <<teamRow, otherRow, memberOf, teamPage, memberPanel, teamsPage>>
      BY <1>2 DEF teamVars, teamRows
    <2>2. TeamFits'
      BY <1>1, <2>1 DEF TeamFits, TeamRowsFit, IsMember
    <2>3. ~TeamTaken
      <3>1. PageFits(teamPage) /\ teamPage'.editOpen = teamPage.editOpen
        BY <1>1, <2>1 DEF TeamFits
      <3> QED BY <3>1, NotTaken
    <2>4. ~TeamCreated
      BY <2>1 DEF TeamCreated
    <2> QED BY <1>1, <2>1, <2>2, <2>3, <2>4 DEF TeamsFit, TeamSaved
  <1>3. CASE /\ part \in {"team", "members"}
             /\ TeamNext \/ HandleRemoveMember("u1") \/ MemberCalls \/ MembersNext
    <2>1. TeamFits' /\ PageSaved
      <3>1. CASE HandleRemoveMember("u1")
        BY <1>1, <3>1, PanelFits, PagesConstants
      <3>2. CASE MemberCalls
        BY <1>1, <3>2, MemberServed DEF MemberCalls
      <3> QED BY <1>1, <1>3, <3>1, <3>2, TeamPageFits, MembersStepFits
    <2>2. UNCHANGED teamsPage
      BY <1>3, ListLeft, PagesConstants
    <2>3. ~TeamCreated
      BY <1>1, <1>3 DEF TeamCreated
    <2> QED BY <1>1, <2>1, <2>2, <2>3 DEF TeamsFit, TeamSaved, PageSaved
  <1>4. CASE part = "teams" /\ TeamsNext
    <2>1. TeamFits' /\ ListFits(teamsPage') /\ PageSaved /\ NewSaved
      BY <1>1, <1>4, TeamsStepFits
    <2>2. part' \notin {"team", "members"}
      BY <1>1, <1>4
    <2> QED BY <2>1, <2>2 DEF TeamsFit, TeamSaved, PageSaved, NewSaved
  <1> QED BY <1>2, <1>3, <1>4, PagesMove

LEMMA PagesStep ==
    ASSUME PagesInv, [Next]_<<part, reviewVars, viewVars, formVars, settingsVars, teamVars>>
    PROVE  PagesInv'
  <1>1. /\ ReviewInv /\ ReviewTypes /\ ViewInv /\ ViewParts /\ ViewTypes
        /\ FormInv /\ SettingsInv /\ TeamInv
    BY DEF PagesInv, ViewInv
  <1>2. ReviewInv' /\ ReviewTypes'
    BY <1>1, PagesMove, ReviewKept, ReviewTypesKept
  <1>3. ViewInv' /\ ViewParts'
    BY <1>1, PagesMove, ViewKept, ViewPartsKept
  <1>4. FormInv'
    BY <1>1, PagesMove, FormKeeps
  <1>5. SettingsInv'
    BY <1>1, PagesMove, SettingsKeep
  <1>6. TeamInv'
    BY <1>1, PagesMove, TeamKept
  <1>7. TeamsFit'
    BY TeamsKept
  <1> QED BY <1>2, <1>3, <1>4, <1>5, <1>6, <1>7 DEF PagesInv

(* Every variable of the pages stays in its type: what is in a form can be    *)
(* sent, no panel waits for a request that is not under way, and the lists,   *)
(* jobs and requests keep to their bounds, for any rows, graphs, teams and    *)
(* users (the handlers of the six pages).                                     *)
THEOREM PagesAreTyped == Spec => []TypeOK
  <1>1. Init => PagesInv
    BY PagesStart
  <1>2. PagesInv /\ [Next]_<<part, reviewVars, viewVars, formVars, settingsVars, teamVars>>
        => PagesInv'
    BY PagesStep
  <1>3. PagesInv => TypeOK
    <2> SUFFICES ASSUME PagesInv PROVE TypeOK
      OBVIOUS
    <2>1. ReviewTypeOK /\ ViewTypeOK
      BY ReviewTyped, ViewTyped DEF PagesInv, ViewInv
    <2>2. FormTypeOK /\ SettingsTypeOK /\ TeamTypeOK
      BY SettingsTyped, TeamTyped DEF PagesInv, FormInv, TeamsFit
    <2> QED BY <2>1, <2>2 DEF TypeOK
  <1> QED BY <1>1, <1>2, <1>3, PTL DEF Spec

(* The review of drift flags selects only what it has shown, the graph page   *)
(* draws the picture of some answer of the server for the choice it shows, and *)
(* the page of a team shows what was changed on it: for any flags, graphs and  *)
(* numbers of jobs and requests (useDriftFlags.ts, useGraphState.ts,           *)
(* useTeamDetail.ts).                                                          *)
THEOREM PagesAlwaysShow == Spec => []PagesShow
  <1>1. Init => PagesInv
    BY PagesStart
  <1>2. PagesInv /\ [Next]_<<part, reviewVars, viewVars, formVars, settingsVars, teamVars>>
        => PagesInv'
    BY PagesStep
  <1>3. PagesInv => PagesShow
    BY ViewShows, TeamShows DEF PagesInv, ReviewInv, PagesShow
  <1> QED BY <1>1, <1>2, <1>3, PTL DEF Spec

(* Whatever a form reports as saved is what it showed when it was sent: for a *)
(* service, an alert channel, the alert rule, a mute and a team, whatever     *)
(* other clients stored meanwhile (handleSubmit of ServiceForm.tsx,           *)
(* AlertChannels.tsx, AlertRules.tsx, AlertMutes.tsx and TeamForm.tsx).       *)
THEOREM PagesSave == Spec => PagesSaveAsShown
  <1> DEFINE Saved == FormSaved /\ SettingsSaved /\ TeamSaved
  <1>1. Init => PagesInv
    BY PagesStart
  <1>2. PagesInv /\ [Next]_<<part, reviewVars, viewVars, formVars, settingsVars, teamVars>>
        => PagesInv'
    BY PagesStep
  <1>3. PagesInv /\ [Next]_<<part, reviewVars, viewVars, formVars, settingsVars, teamVars>>
        => [Saved]_<<formVars, settingsVars, teamVars>>
    <2> SUFFICES ASSUME PagesInv,
                        [Next]_<<part, reviewVars, viewVars, formVars, settingsVars, teamVars>>
                 PROVE  Saved
      OBVIOUS
    <2>1. FormSaved
      BY PagesMove, FormSaves DEF PagesInv
    <2>2. SettingsSaved
      BY PagesMove, SettingsSave DEF PagesInv
    <2>3. TeamSaved
      BY TeamsKept
    <2> QED BY <2>1, <2>2, <2>3
  <1> QED BY <1>1, <1>2, <1>3, PTL DEF Spec, PagesSaveAsShown
=============================================================================
