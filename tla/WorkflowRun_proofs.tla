------------------------- MODULE WorkflowRun_proofs -------------------------
(***************************************************************************)
(* Theorems about WorkflowRun, for every graph, every order of the search   *)
(* and of the workers, every result of a node and every size of the pool.   *)
(***************************************************************************)
EXTENDS WorkflowRun, TLAPS

-----------------------------------------------------------------------------
(* Types.  That in_degree never goes below zero rests on what it counts: a   *)
(* node's edges are taken off once, when it is staged.                      *)

Before == {"build", "dfs", "rejected"}
Phases == Before \cup {"stages", "run", "pool", "done", "raised"}
Jobs == {"idle", "queued", "running", "returned", "collected"}

GraphOK ==
    /\ phase \in Phases
    /\ nodes \subseteq NodeIds
    /\ edges \in [Pairs -> Nat]
    /\ size \in Nat
    /\ visited \subseteq NodeIds
    /\ path \in Seq(NodeIds)

StagesOK ==
    /\ left \in [Pairs -> Nat]
    /\ ready \subseteq NodeIds
    /\ stages \in Seq(SUBSET NodeIds)

PoolOK ==
    /\ stage \in Nat \ {0}
    /\ job \in [NodeIds -> Jobs]
    /\ result \in [NodeIds -> {"none", "ok", "failed"}]
    /\ outputs \subseteq NodeIds
    /\ saw \in [NodeIds -> SUBSET NodeIds]
    /\ success \in BOOLEAN

LEMMA TypeSplit == TypeOK <=> (GraphOK /\ StagesOK /\ PoolOK)
BY DEF TypeOK, GraphOK, StagesOK, PoolOK, Phases, Before, Jobs

LEMMA TypeSplitNext == TypeOK' <=> (GraphOK' /\ StagesOK' /\ PoolOK')
BY DEF TypeOK, GraphOK, StagesOK, PoolOK, Phases, Before, Jobs

Counted ==
    \A m, n \in NodeIds :
        left[<<m, n>>] = IF m \in Staged THEN 0 ELSE edges[<<m, n>>]

KahnInv ==
    /\ phase \in Before => stages = <<>>
    /\ Staged \subseteq nodes
    /\ phase \notin Before => Counted /\ \A n \in Staged : Free(left, n)
    /\ phase = "stages" => ready = {n \in nodes \ Staged : Free(left, n)}

LEMMA NothingStaged == stages = <<>> => Staged = {}
BY DEF Staged

\* What NextStage does to the stages and to in_degree.
LEMMA NextStageEffect ==
    ASSUME TypeOK, KahnInv, NextStage
    PROVE  /\ stages' \in Seq(SUBSET NodeIds)
           /\ Len(stages') = Len(stages) + 1
           /\ \A i \in 1..Len(stages) : stages'[i] = stages[i]
           /\ stages'[Len(stages) + 1] = ready
           /\ Staged' = Staged \cup ready
           /\ left' \in [Pairs -> Nat]
           /\ \A m, n \in NodeIds :
                left'[<<m, n>>] = IF m \in Staged' THEN 0 ELSE edges[<<m, n>>]
<1> USE TypeSplit
<1>1. /\ stages' \in Seq(SUBSET NodeIds)
      /\ Len(stages') = Len(stages) + 1
      /\ \A i \in 1..Len(stages) : stages'[i] = stages[i]
      /\ stages'[Len(stages) + 1] = ready
  BY DEF NextStage, StagesOK
<1>2. DOMAIN stages = 1..Len(stages) /\ Len(stages) \in Nat
  BY DEF StagesOK
<1>3. DOMAIN stages' = 1..(Len(stages) + 1)
  BY <1>1
<1>4. Staged' = Staged \cup ready
  <2>1. ASSUME NEW n \in Staged PROVE n \in Staged'
    <3>1. PICK i \in 1..Len(stages) : n \in stages[i]
      BY <2>1, <1>2 DEF Staged
    <3>2. i \in DOMAIN stages' /\ n \in stages'[i]
      BY <3>1, <1>1, <1>2, <1>3
    <3> QED
      BY <3>2 DEF Staged
  <2>2. ASSUME NEW n \in ready PROVE n \in Staged'
    <3>1. Len(stages) + 1 \in DOMAIN stages'
      BY <1>2, <1>3
    <3> QED
      BY <2>2, <3>1, <1>1 DEF Staged
  <2>3. ASSUME NEW n \in Staged' PROVE n \in Staged \cup ready
    <3>1. PICK i \in 1..(Len(stages) + 1) : n \in stages'[i]
      BY <2>3, <1>3 DEF Staged
    <3>2. CASE i = Len(stages) + 1
      BY <3>1, <3>2, <1>1
    <3>3. CASE i \in 1..Len(stages)
      BY <3>1, <3>3, <1>1, <1>2 DEF Staged
    <3> QED
      BY <3>2, <3>3, <1>2
  <2> QED
    BY <2>1, <2>2, <2>3
<1>5. phase = "stages" /\ Counted /\ ready \cap Staged = {}
  BY DEF NextStage, KahnInv, Before
<1>6. ASSUME NEW p \in Pairs
      PROVE  /\ left'[p] = IF p[1] \in Staged' THEN 0 ELSE edges[p]
             /\ left'[p] \in Nat
  <2>1. PICK m \in NodeIds, n \in NodeIds : p = <<m, n>>
    BY DEF Pairs
  <2>2. left'[p] = IF m \in ready THEN left[p] - edges[p] ELSE left[p]
    BY <2>1 DEF NextStage
  <2>3. left[p] = IF m \in Staged THEN 0 ELSE edges[p]
    BY <2>1, <1>5 DEF Counted
  <2>4. edges[p] \in Nat /\ p[1] = m
    BY <2>1 DEF GraphOK
  <2> QED
    BY <2>2, <2>3, <2>4, <1>4, <1>5
<1>7. left' \in [Pairs -> Nat]
  BY <1>6 DEF NextStage
<1>8. ASSUME NEW m \in NodeIds, NEW n \in NodeIds
      PROVE  left'[<<m, n>>] = IF m \in Staged' THEN 0 ELSE edges[<<m, n>>]
  <2>1. <<m, n>> \in Pairs /\ <<m, n>>[1] = m
    BY DEF Pairs
  <2> QED
    BY <2>1, <1>6
<1> QED
  BY <1>1, <1>4, <1>7, <1>8

LEMMA InitTypes == Init => TypeOK /\ KahnInv
<1> SUFFICES ASSUME Init PROVE TypeOK /\ KahnInv
  OBVIOUS
<1> USE WorkflowAssumption, TypeSplit
<1>1. GraphOK /\ StagesOK /\ PoolOK
  BY DEF Init, GraphOK, StagesOK, PoolOK, Phases, Before, Jobs
<1>2. KahnInv
  BY NothingStaged DEF Init, KahnInv, Before
<1> QED
  BY <1>1, <1>2

LEMMA StepTypes == TypeOK /\ KahnInv /\ [Next]_vars => TypeOK'
<1> SUFFICES ASSUME TypeOK, KahnInv, [Next]_vars PROVE TypeOK'
  OBVIOUS
<1> USE WorkflowAssumption, TypeSplit, TypeSplitNext
<1>1. ASSUME NEW n \in NodeIds, AddNode(n) PROVE TypeOK'
  BY <1>1 DEF AddNode, GraphOK, StagesOK, PoolOK, search, kahn, pool, Phases, Before
<1>2. ASSUME NEW m \in NodeIds, NEW n \in NodeIds, AddEdge(m, n) PROVE TypeOK'
  <2>1. edges' \in [Pairs -> Nat]
    BY <1>2 DEF AddEdge, GraphOK, Pairs
  <2> QED
    BY <1>2, <2>1 DEF AddEdge, GraphOK, StagesOK, PoolOK, search, kahn, pool,
                      Phases, Before
<1>3. CASE BeginRun
  BY <1>3 DEF BeginRun, GraphOK, StagesOK, PoolOK, graph, search, kahn, pool, Phases,
              Before
<1>4. ASSUME NEW n \in NodeIds, Visit(n) \/ Descend(n) \/ FindCycle(n) PROVE TypeOK'
  <2>1. path' \in Seq(NodeIds)
    <3>1. CASE Visit(n)
      BY <3>1 DEF Visit
    <3>2. CASE Descend(n)
      BY <3>2 DEF Descend, GraphOK
    <3>3. CASE FindCycle(n)
      BY <3>3 DEF FindCycle, GraphOK, search
    <3> QED
      BY <1>4, <3>1, <3>2, <3>3
  <2>2. StagesOK' /\ PoolOK'
    BY <1>4 DEF Visit, Descend, FindCycle, StagesOK, PoolOK, kahn, pool
  <2>3. GraphOK'
    BY <1>4, <2>1 DEF Visit, Descend, FindCycle, GraphOK, graph, search, Phases, Before
  <2> QED
    BY <2>2, <2>3
<1>5. CASE Ascend
  <2>1. path' \in Seq(NodeIds)
    BY <1>5 DEF Ascend, GraphOK
  <2> QED
    BY <1>5, <2>1 DEF Ascend, GraphOK, StagesOK, PoolOK, graph, kahn, pool
<1>6. CASE Validated
  BY <1>6 DEF Validated, GraphOK, StagesOK, PoolOK, graph, search, pool, Phases, Before
<1>7. CASE NextStage
  <2>1. /\ stages' \in Seq(SUBSET NodeIds)
        /\ left' \in [Pairs -> Nat]
    BY <1>7, NextStageEffect
  <2> QED
    BY <1>7, <2>1 DEF NextStage, GraphOK, StagesOK, PoolOK, graph, search, pool
<1>8. CASE StagesEnd \/ EndRun \/ ListenerRaises
  BY <1>8 DEF StagesEnd, EndRun, ListenerRaises, GraphOK, StagesOK, PoolOK, graph, search, kahn, pool,
              Phases, Before
<1>9. CASE OpenStage \/ CloseStage
  <2>1. GraphOK' /\ StagesOK'
    BY <1>9 DEF OpenStage, CloseStage, GraphOK, StagesOK, graph, search, kahn, Phases
  <2>2. job' \in [NodeIds -> Jobs] /\ saw' \in [NodeIds -> SUBSET NodeIds]
    BY <1>9 DEF OpenStage, CloseStage, PoolOK, Jobs
  <2>3. PoolOK'
    BY <1>9, <2>2 DEF OpenStage, CloseStage, PoolOK
  <2> QED
    BY <2>1, <2>3
<1>10. ASSUME NEW n \in NodeIds, StartNode(n) \/ Collect(n) PROVE TypeOK'
  BY <1>10 DEF StartNode, Collect, GraphOK, StagesOK, PoolOK, graph, search, kahn, Jobs
<1>11. ASSUME NEW n \in NodeIds, NEW r \in {"ok", "failed"}, FinishNode(n, r)
       PROVE  TypeOK'
  BY <1>11 DEF FinishNode, GraphOK, StagesOK, PoolOK, graph, search, kahn, Jobs
<1>12. CASE UNCHANGED vars
  BY <1>12 DEF vars, graph, search, kahn, pool, GraphOK, StagesOK, PoolOK
<1> QED
  BY <1>1, <1>2, <1>3, <1>4, <1>5, <1>6, <1>7, <1>8, <1>9, <1>10, <1>11, <1>12
     DEF Next, RunStep, NodeReturns

\* What is left of the run, once the stages are known, does not touch them.
Later ==
    \/ OpenStage \/ CloseStage \/ EndRun
    \/ \E n \in NodeIds : StartNode(n) \/ Collect(n)
    \/ ListenerRaises
    \/ NodeReturns

LEMMA LaterFrame ==
    Later => /\ UNCHANGED <<nodes, edges, size, visited, path, left, ready, stages>>
             /\ \/ UNCHANGED phase
                \/ phase \in {"run", "pool"} /\ phase' \in {"run", "pool", "done"}
                \/ phase \in {"stages", "run", "pool"} /\ phase' = "raised"
BY DEF Later, ListenerRaises, OpenStage, CloseStage, EndRun, StartNode, Collect, NodeReturns, FinishNode,
       graph, search, kahn

LEMMA StepKahn == TypeOK /\ KahnInv /\ [Next]_vars => KahnInv'
<1> SUFFICES ASSUME TypeOK, KahnInv, [Next]_vars PROVE KahnInv'
  OBVIOUS
<1> USE TypeSplit
<1>1. ASSUME NEW n \in NodeIds, AddNode(n) PROVE KahnInv'
  BY <1>1 DEF AddNode, KahnInv, Before, kahn, Staged
<1>2. ASSUME NEW m \in NodeIds, NEW n \in NodeIds, AddEdge(m, n) PROVE KahnInv'
  BY <1>2 DEF AddEdge, KahnInv, Before, kahn, Staged
<1>3. CASE BeginRun \/ Ascend \/ \E n \in NodeIds : Visit(n) \/ Descend(n) \/ FindCycle(n)
  BY <1>3 DEF BeginRun, Ascend, Visit, Descend, FindCycle, KahnInv, Before, kahn, graph,
              Staged
<1>4. CASE Validated
  <2>1. Staged = {} /\ Staged' = {} /\ stages = <<>>
    BY <1>4, NothingStaged DEF Validated, KahnInv, Before, Staged
  <2>2. Counted'
    BY <1>4, <2>1 DEF Validated, Counted, graph
  <2>3. ready' = {n \in nodes' : Free(left', n)}
    BY <1>4 DEF Validated, graph
  <2> QED
    BY <1>4, <2>1, <2>2, <2>3 DEF Validated, KahnInv, Before
<1>5. CASE NextStage
  <2>1. phase = "stages" /\ UNCHANGED <<phase, nodes, edges>>
    BY <1>5 DEF NextStage, graph
  <2>2. /\ Counted
        /\ \A n \in Staged : Free(left, n)
        /\ ready = {n \in nodes \ Staged : Free(left, n)}
    BY <2>1 DEF KahnInv, Before
  <2>3. Staged' = Staged \cup ready /\ Counted'
    BY <1>5, <2>1, NextStageEffect DEF Counted
  <2>4. ASSUME NEW n \in NodeIds, Free(left, n) PROVE Free(left', n)
    <3>1. ASSUME NEW m \in NodeIds PROVE left'[<<m, n>>] = 0
      <4>1. left[<<m, n>>] = 0
        BY <2>4 DEF Free
      <4>2. left'[<<m, n>>] = IF m \in Staged' THEN 0 ELSE edges[<<m, n>>]
        BY <1>5, NextStageEffect
      <4> QED
        BY <4>1, <4>2, <2>2, <2>3 DEF Counted
    <3> QED
      BY <3>1 DEF Free
  <2>5. \A n \in Staged' : Free(left', n)
    BY <2>2, <2>3, <2>4 DEF StagesOK, GraphOK, KahnInv
  <2>6. ready' = {n \in nodes : ~Free(left, n) /\ Free(left', n)}
    BY <1>5 DEF NextStage
  <2>7. ready' = {n \in nodes \ Staged' : Free(left', n)}
    BY <2>2, <2>3, <2>6 DEF GraphOK
  <2>8. Staged' \subseteq nodes'
    BY <2>1, <2>2, <2>3 DEF KahnInv
  <2> QED
    BY <2>1, <2>3, <2>5, <2>7, <2>8 DEF KahnInv, Before
<1>6. CASE StagesEnd
  BY <1>6 DEF StagesEnd, KahnInv, Before, kahn, graph, Staged, Counted, Free
<1>7. CASE Later
  BY <1>7, LaterFrame DEF KahnInv, Before, Staged, Counted, Free
<1>8. CASE UNCHANGED vars
  BY <1>8 DEF vars, graph, kahn, KahnInv, Staged, Counted, Free
<1> QED
  BY <1>1, <1>2, <1>3, <1>4, <1>5, <1>6, <1>7, <1>8 DEF Next, RunStep, Later

THEOREM InvariantCounts == Spec => [](TypeOK /\ KahnInv)
<1>1. TypeOK /\ KahnInv /\ [Next]_vars => (TypeOK /\ KahnInv)'
  BY StepTypes, StepKahn
<1> QED
  BY InitTypes, <1>1, PTL DEF Spec

\* Every state has its types; in particular the in-degrees stay natural numbers
\* (graph.py:108-116), because a node's edges are counted off when it is staged
\* and at no other time.
THEOREM TypeCorrect == Spec => []TypeOK
BY InvariantCounts, PTL

-----------------------------------------------------------------------------
(* validate.  The explored nodes are those the search has come back from:   *)
(* their arcs lead to explored nodes, and they form no cycle.               *)

Explored == visited \ InPath

SearchInv ==
    /\ phase = "build" => visited = {} /\ path = <<>>
    /\ \A m, n \in NodeIds : Arc(m, n) => m \in nodes /\ n \in nodes
    /\ InPath \subseteq visited
    /\ \A i, j \in 1..Len(path) : path[i] = path[j] => i = j
    /\ \A i \in 1..(Len(path) - 1) : Arc(path[i], path[i + 1])
    /\ \A m \in Explored, n \in NodeIds : Arc(m, n) => n \in Explored
    /\ \A S \in SUBSET Explored :
         S # {} => \E n \in S : \A m \in S : ~Arc(m, n)

LEMMA PathMembers ==
    ASSUME TypeOK
    PROVE  /\ Len(path) \in Nat /\ DOMAIN path = 1..Len(path)
           /\ \A i \in 1..Len(path) : path[i] \in InPath
           /\ \A n \in InPath : n \in NodeIds /\ \E i \in 1..Len(path) : n = path[i]
           /\ path = <<>> => InPath = {}
           /\ path # <<>> => Len(path) \in 1..Len(path) /\ Top \in InPath
BY TypeSplit DEF GraphOK, InPath, Top

\* The search leaves the graph alone, and Arc with it.
LEMMA SameArcs == UNCHANGED edges => \A m, n : Arc(m, n)' = Arc(m, n)
BY DEF Arc

\* A node is pushed: the explored ones stay the same.
LEMMA Push ==
    ASSUME TypeOK, TypeOK', SearchInv, NEW n \in NodeIds, n \notin visited,
           visited' = visited \cup {n},
           path' = Append(path, n),
           path # <<>> => Arc(Top, n),
           phase # "build", phase' # "build", UNCHANGED graph
    PROVE  SearchInv'
<1> USE PathMembers
<1>1. path \in Seq(NodeIds) /\ Len(path) \in Nat
  BY TypeSplit DEF GraphOK
<1>2. /\ Len(path') = Len(path) + 1
      /\ \A i \in 1..Len(path) : path'[i] = path[i]
      /\ path'[Len(path) + 1] = n
  BY <1>1
<1>3. InPath' = InPath \cup {n}
  <2>1. DOMAIN path' = 1..(Len(path) + 1) /\ DOMAIN path = 1..Len(path)
    BY <1>1
  <2> QED
    BY <1>1, <1>2, <2>1 DEF InPath
<1>4. n \notin InPath
  BY DEF SearchInv
<1>5. Explored' = Explored
  BY <1>3, <1>4 DEF Explored
<1>6. \A m, k : Arc(m, k)' = Arc(m, k)
  BY SameArcs DEF graph
<1>7. \A i, j \in 1..Len(path') : path'[i] = path'[j] => i = j
  BY <1>1, <1>2, <1>4 DEF SearchInv
<1>8. \A i \in 1..(Len(path') - 1) : Arc(path'[i], path'[i + 1])
  <2> SUFFICES ASSUME NEW i \in 1..(Len(path') - 1) PROVE Arc(path'[i], path'[i + 1])
    OBVIOUS
  <2>1. CASE i = Len(path)
    <3>1. path # <<>>
      BY <1>1, <1>2, <2>1
    <3> QED
      BY <1>1, <1>2, <2>1, <3>1 DEF Top
  <2>2. CASE i # Len(path)
    <3>1. i \in 1..(Len(path) - 1) /\ i \in 1..Len(path) /\ i + 1 \in 1..Len(path)
      BY <1>1, <1>2, <2>2
    <3>2. Arc(path[i], path[i + 1])
      BY <3>1 DEF SearchInv
    <3> QED
      BY <1>2, <3>1, <3>2
  <2> QED
    BY <2>1, <2>2
<1>9. InPath' \subseteq visited'
  BY <1>3 DEF SearchInv
<1>10. \A m, k \in NodeIds : Arc(m, k)' => m \in nodes' /\ k \in nodes'
  BY <1>6 DEF SearchInv, graph
<1>11. /\ \A m \in Explored', k \in NodeIds : Arc(m, k)' => k \in Explored'
       /\ \A S \in SUBSET Explored' : S # {} => \E k \in S : \A m \in S : ~Arc(m, k)'
  BY <1>5, <1>6 DEF SearchInv
<1>12. \A i \in 1..(Len(path') - 1) : Arc(path[i], path[i + 1])'
  BY <1>8 DEF Arc, graph
<1> QED
  BY <1>7, <1>9, <1>10, <1>11, <1>12 DEF SearchInv

\* The last node is popped: it becomes the source of every set it is in.
LEMMA Pop ==
    ASSUME TypeOK, TypeOK', SearchInv, Ascend
    PROVE  SearchInv'
<1> DEFINE t == Top
<1> USE PathMembers
<1>1. path \in Seq(NodeIds) /\ path # <<>> /\ Len(path) \in Nat \ {0} /\ t \in NodeIds
  BY TypeSplit DEF GraphOK, Ascend, Top
<1>2. /\ Len(path') = Len(path) - 1
      /\ \A i \in 1..(Len(path) - 1) : path'[i] = path[i]
  BY <1>1 DEF Ascend
<1>3. InPath' = InPath \ {t}
  <2>1. DOMAIN path' = 1..(Len(path) - 1) /\ DOMAIN path = 1..Len(path)
    BY <1>1 DEF Ascend
  <2>2. \A i \in 1..(Len(path) - 1) : path[i] # t
    BY <1>1 DEF SearchInv, Top
  <2>3. \A i \in 1..Len(path) : i \in 1..(Len(path) - 1) \/ path[i] = t
    BY <1>1 DEF Top
  <2>4. InPath' = {path[i] : i \in 1..(Len(path) - 1)}
    BY <1>2, <2>1 DEF InPath
  <2>5. InPath = {path[i] : i \in 1..Len(path)}
    BY <2>1 DEF InPath
  <2>6. \A i \in 1..(Len(path) - 1) : i \in 1..Len(path)
    BY <1>1
  <2>7. ASSUME NEW n \in InPath' PROVE n \in InPath \ {t}
    BY <2>2, <2>4, <2>5, <2>6, <2>7
  <2>8. ASSUME NEW n \in InPath \ {t} PROVE n \in InPath'
    <3>1. PICK i \in 1..Len(path) : n = path[i]
      BY <2>5, <2>8
    <3>2. i \in 1..(Len(path) - 1)
      BY <2>3, <2>8, <3>1
    <3> QED
      BY <2>4, <3>1, <3>2
  <2> QED
    BY <2>7, <2>8
<1>4. t \in InPath /\ t \in visited
  BY <1>1 DEF SearchInv
<1>5. Explored' = Explored \cup {t}
  BY <1>3, <1>4 DEF Explored, Ascend
<1>6. \A m, k : Arc(m, k)' = Arc(m, k)
  BY SameArcs DEF Ascend, graph
<1>7. \A k \in NodeIds : Arc(t, k) => k \in Explored
  BY DEF Ascend, Explored
<1>8. t \notin Explored
  BY <1>4 DEF Explored
<1>9. ~Arc(t, t) /\ \A m \in Explored : ~Arc(m, t)
  BY <1>1, <1>7, <1>8 DEF SearchInv
<1>10. ASSUME NEW S \in SUBSET Explored', S # {}
       PROVE  \E k \in S : \A m \in S : ~Arc(m, k)'
  <2>1. CASE t \in S
    BY <1>5, <1>6, <1>9, <2>1
  <2>2. CASE t \notin S
    <3>1. S \in SUBSET Explored
      BY <1>5, <2>2
    <3>2. PICK k \in S : \A m \in S : ~Arc(m, k)
      BY <1>10, <3>1 DEF SearchInv
    <3> QED
      BY <1>6, <3>2
  <2> QED
    BY <2>1, <2>2
<1>11. \A m \in Explored', k \in NodeIds : Arc(m, k)' => k \in Explored'
  BY <1>5, <1>6, <1>7 DEF SearchInv
<1>12. \A i, j \in 1..Len(path') : path'[i] = path'[j] => i = j
  BY <1>1, <1>2 DEF SearchInv
<1>13. \A i \in 1..(Len(path') - 1) : Arc(path[i], path[i + 1])'
  <2>1. ASSUME NEW i \in 1..(Len(path') - 1) PROVE Arc(path'[i], path'[i + 1])
    <3>1. i \in 1..(Len(path) - 1) /\ i + 1 \in 1..(Len(path) - 1)
      BY <1>1, <1>2
    <3>2. Arc(path[i], path[i + 1])
      BY <3>1 DEF SearchInv
    <3> QED
      BY <1>2, <3>1, <3>2
  <2> QED
    BY <2>1 DEF Arc, Ascend, graph
<1>14. InPath' \subseteq visited' /\ phase' # "build"
  BY <1>3 DEF SearchInv, Ascend
<1>15. \A m, k \in NodeIds : Arc(m, k)' => m \in nodes' /\ k \in nodes'
  BY <1>6 DEF SearchInv, Ascend, graph
<1> QED
  BY <1>10, <1>11, <1>12, <1>13, <1>14, <1>15 DEF SearchInv

LEMMA StepSearch == TypeOK /\ TypeOK' /\ SearchInv /\ [Next]_vars => SearchInv'
<1> SUFFICES ASSUME TypeOK, TypeOK', SearchInv, [Next]_vars PROVE SearchInv'
  OBVIOUS
<1>1. ASSUME NEW n \in NodeIds, AddNode(n) PROVE SearchInv'
  BY <1>1 DEF AddNode, SearchInv, search, Arc, InPath, Explored
<1>2. ASSUME NEW m \in NodeIds, NEW n \in NodeIds, AddEdge(m, n) PROVE SearchInv'
  <2>1. /\ visited = {} /\ path = <<>> /\ visited' = {} /\ path' = <<>>
        /\ phase = "build" /\ phase' = "build" /\ nodes' = nodes
    BY <1>2 DEF AddEdge, SearchInv, search
  <2>2. InPath' = {} /\ Explored' = {}
    BY <2>1 DEF InPath, Explored
  <2>3. ASSUME NEW k \in NodeIds, NEW l \in NodeIds, Arc(k, l)'
        PROVE  k \in nodes' /\ l \in nodes'
    <3>1. CASE k = m /\ l = n
      BY <1>2, <2>1, <3>1 DEF AddEdge
    <3>2. CASE ~(k = m /\ l = n)
      <4>1. edges'[<<k, l>>] = edges[<<k, l>>]
        BY <1>2, <3>2, TypeSplit DEF AddEdge, GraphOK, Pairs
      <4> QED
        BY <2>1, <2>3, <4>1 DEF SearchInv, Arc
    <3> QED
      BY <3>1, <3>2
  <2> QED
    BY <2>1, <2>2, <2>3 DEF SearchInv
<1>3. CASE BeginRun \/ \E n \in NodeIds : FindCycle(n)
  <2>1. UNCHANGED <<nodes, edges, visited, path>> /\ phase' # "build"
    BY <1>3 DEF BeginRun, FindCycle, search, graph
  <2> QED
    BY <2>1 DEF SearchInv, Arc, InPath, Explored
<1>4. ASSUME NEW n \in NodeIds, Visit(n) PROVE SearchInv'
  <2>1. path' = Append(path, n)
    BY <1>4 DEF Visit
  <2>2. /\ n \notin visited /\ visited' = visited \cup {n} /\ path = <<>>
        /\ phase # "build" /\ phase' # "build" /\ UNCHANGED graph
    BY <1>4 DEF Visit
  <2> QED
    BY <2>1, <2>2, Push
<1>5. ASSUME NEW n \in NodeIds, Descend(n) PROVE SearchInv'
  BY <1>5, Push DEF Descend
<1>6. CASE Ascend
  BY <1>6, Pop
<1>7. CASE Validated \/ NextStage \/ StagesEnd
  BY <1>7 DEF Validated, NextStage, StagesEnd, SearchInv, search, graph, Arc, InPath,
              Explored
<1>8. CASE Later
  BY <1>8, LaterFrame DEF SearchInv, Arc, InPath, Explored
<1>9. CASE UNCHANGED vars
  BY <1>9 DEF vars, search, graph, SearchInv, Arc, InPath, Explored
<1> QED
  BY <1>1, <1>2, <1>3, <1>4, <1>5, <1>6, <1>7, <1>8, <1>9 DEF Next, RunStep, Later

LEMMA NotLast ==
    ASSUME NEW k \in Nat, NEW i \in 1..k, i # k
    PROVE  i \in 1..(k - 1) /\ i + 1 \in 1..k
OBVIOUS

LEMMA StepVerdict ==
    TypeOK /\ SearchInv /\ VerdictRight /\ [Next]_vars => VerdictRight'
<1> SUFFICES ASSUME TypeOK, SearchInv, VerdictRight, [Next]_vars PROVE VerdictRight'
  OBVIOUS
<1> USE PathMembers
<1>1. CASE \/ BeginRun \/ Ascend
           \/ \E n \in NodeIds : AddNode(n) \/ Visit(n) \/ Descend(n)
           \/ \E m, n \in NodeIds : AddEdge(m, n)
  <2>1. phase' \in {"build", "dfs"}
    BY <1>1 DEF BeginRun, Ascend, AddNode, Visit, Descend, AddEdge
  <2> QED
    BY <2>1 DEF VerdictRight
<1>2. ASSUME NEW n \in NodeIds, FindCycle(n) PROVE VerdictRight'
  \* The path from n to its end is a cycle.
  <2>1. path \in Seq(NodeIds) /\ Len(path) \in Nat \ {0} /\ Arc(Top, n) /\ n \in InPath
    BY <1>2, TypeSplit DEF GraphOK, FindCycle
  <2>2. PICK k \in 1..Len(path) : n = path[k]
    BY <2>1
  <2> DEFINE C == {path[i] : i \in k..Len(path)}
  <2>3. \A i \in k..Len(path) : i \in 1..Len(path) /\ path[i] \in nodes
    <3>1. ASSUME NEW i \in k..Len(path) PROVE i \in 1..Len(path)
      BY <2>1, <2>2
    <3>2. ASSUME NEW i \in 1..Len(path) PROVE path[i] \in nodes
      <4>1. CASE i = Len(path)
        BY <2>1, <4>1, TypeSplit DEF SearchInv, Top, GraphOK
      <4>2. CASE i # Len(path)
        <5>1. i \in 1..(Len(path) - 1) /\ i + 1 \in 1..Len(path)
          BY <2>1, <4>2, NotLast
        <5>2. Arc(path[i], path[i + 1]) /\ path[i] \in NodeIds /\ path[i + 1] \in NodeIds
          BY <5>1, <2>1 DEF SearchInv
        <5> QED
          BY <5>2 DEF SearchInv
      <4> QED
        BY <4>1, <4>2
    <3> QED
      BY <3>1, <3>2
  <2>4. ASSUME NEW x \in C PROVE \E m \in C : Arc(m, x)
    <3>1. PICK i \in k..Len(path) : x = path[i]
      OBVIOUS
    <3>2. CASE i = k
      <4>1. Top \in C
        BY <2>1, <2>2 DEF Top
      <4> QED
        BY <2>1, <2>2, <3>1, <3>2, <4>1
    <3>3. CASE i # k
      <4>1. i - 1 \in k..Len(path) /\ i - 1 \in 1..(Len(path) - 1) /\ (i - 1) + 1 = i
        BY <2>1, <2>2, <3>1, <3>3
      <4>2. Arc(path[i - 1], path[(i - 1) + 1])
        BY <4>1 DEF SearchInv
      <4> QED
        BY <3>1, <4>1, <4>2
    <3> QED
      BY <3>2, <3>3
  <2>5. C \in SUBSET nodes /\ n \in C
    BY <2>1, <2>2, <2>3
  <2> HIDE DEF C
  <2>6. ~Acyclic
    BY <2>4, <2>5 DEF Acyclic
  <2> QED
    BY <1>2, <2>6 DEF FindCycle, VerdictRight, Acyclic, Arc, graph
<1>3. CASE Validated
  <2>1. nodes \subseteq Explored
    BY <1>3 DEF Validated, Explored
  <2>2. Acyclic
    BY <2>1 DEF SearchInv, Acyclic
  <2> QED
    BY <1>3, <2>2 DEF Validated, VerdictRight, Acyclic, Arc, graph
<1>4. CASE NextStage \/ StagesEnd
  BY <1>4 DEF NextStage, StagesEnd, VerdictRight, Acyclic, Arc, graph
<1>5. CASE Later
  BY <1>5, LaterFrame DEF VerdictRight, Acyclic, Arc
<1>6. CASE UNCHANGED vars
  BY <1>6 DEF vars, VerdictRight, Acyclic, Arc, graph
<1> QED
  BY <1>1, <1>2, <1>3, <1>4, <1>5, <1>6 DEF Next, RunStep, Later

LEMMA InitSearch == Init => SearchInv /\ VerdictRight
<1> SUFFICES ASSUME Init PROVE SearchInv /\ VerdictRight
  OBVIOUS
<1>1. \A m, n \in NodeIds : ~Arc(m, n)
  BY DEF Init, Arc, Pairs
<1> QED
  BY <1>1 DEF Init, SearchInv, VerdictRight, InPath, Explored

THEOREM InvariantSearch == Spec => [](TypeOK /\ SearchInv /\ VerdictRight)
<1> DEFINE Inv == TypeOK /\ KahnInv /\ SearchInv /\ VerdictRight
<1>1. Init => Inv
  BY InitTypes, InitSearch
<1>2. Inv /\ [Next]_vars => Inv'
  BY StepTypes, StepKahn, StepSearch, StepVerdict
<1>3. Inv => TypeOK /\ SearchInv /\ VerdictRight
  OBVIOUS
<1> HIDE DEF Inv
<1> QED
  BY <1>1, <1>2, <1>3, PTL DEF Spec

\* validate (graph.py:50-72) turns a graph away exactly if it has a cycle: every
\* graph that is run is acyclic, every graph that is rejected has a set of nodes
\* in which each has a predecessor.
THEOREM ValidateDecides == Spec => []VerdictRight
BY InvariantSearch, PTL

-----------------------------------------------------------------------------
(* execution_stages.  A node is in one stage, behind all its predecessors;   *)
(* and when no node is ready, none is left, because the graph is acyclic.   *)

StagesInv ==
    /\ \A i, j \in 1..Len(stages) : \A n \in stages[i] : n \in stages[j] => i = j
    /\ \A j \in 1..Len(stages) : \A n \in stages[j], m \in NodeIds :
         Arc(m, n) => m \in Earlier(j)
    /\ phase \in {"run", "pool", "done"} => Staged = nodes

LEMMA StagedMembers ==
    ASSUME TypeOK
    PROVE  /\ Len(stages) \in Nat
           /\ \A n \in Staged : \E j \in 1..Len(stages) : n \in stages[j]
           /\ \A j \in 1..Len(stages) : stages[j] \subseteq Staged
           /\ \A j \in 1..Len(stages) : Earlier(j) \subseteq Staged
           /\ Earlier(Len(stages) + 1) = Staged
<1>1. DOMAIN stages = 1..Len(stages) /\ Len(stages) \in Nat
  BY TypeSplit DEF StagesOK
<1>2. \A j \in 1..Len(stages) : \A i \in 1..(j - 1) : i \in 1..Len(stages)
  BY <1>1
<1>3. \A j \in 1..Len(stages) : Earlier(j) \subseteq Staged
  BY <1>1, <1>2 DEF Earlier, Staged
<1>4. 1..((Len(stages) + 1) - 1) = 1..Len(stages)
  BY <1>1
<1>5. Earlier(Len(stages) + 1) = Staged
  BY <1>1, <1>4 DEF Earlier, Staged
<1> QED
  BY <1>1, <1>3, <1>5 DEF Staged

LEMMA EarlierMembers ==
    ASSUME NEW j, NEW n
    PROVE  n \in Earlier(j) <=> \E i \in 1..(j - 1) : n \in stages[i]
BY DEF Earlier

LEMMA StepStages ==
    TypeOK /\ TypeOK' /\ KahnInv /\ SearchInv /\ VerdictRight /\ StagesInv /\ [Next]_vars
      => StagesInv'
<1> SUFFICES ASSUME TypeOK, TypeOK', KahnInv, SearchInv, VerdictRight, StagesInv,
                    [Next]_vars
             PROVE  StagesInv'
  OBVIOUS
<1> USE StagedMembers
<1>1. CASE phase' \in Before
  <2>1. stages' = <<>>
    <3>1. KahnInv'
      BY StepKahn
    <3> QED
      BY <1>1, <3>1 DEF KahnInv
  <2>2. Len(stages') = 0
    BY <2>1
  <2> QED
    BY <1>1, <2>2 DEF StagesInv, Before
<1>2. CASE Validated
  <2>1. stages' = <<>> /\ phase' = "stages"
    BY <1>2 DEF Validated, KahnInv, Before
  <2>2. Len(stages') = 0
    BY <2>1
  <2> QED
    BY <2>1, <2>2 DEF StagesInv
<1>3. CASE NextStage
  <2>1. /\ phase = "stages" /\ phase' = "stages" /\ UNCHANGED <<nodes, edges>>
        /\ ready = {n \in nodes \ Staged : Free(left, n)}
        /\ Counted
    BY <1>3 DEF NextStage, graph, KahnInv, Before
  <2>2. /\ Len(stages') = Len(stages) + 1
        /\ \A i \in 1..Len(stages) : stages'[i] = stages[i]
        /\ stages'[Len(stages) + 1] = ready
    BY <1>3, NextStageEffect
  <2>3. \A j \in 1..Len(stages') : j \in 1..Len(stages) \/ j = Len(stages) + 1
    BY <2>2
  <2>4. ASSUME NEW i \in 1..Len(stages'), NEW j \in 1..Len(stages'),
               NEW n \in stages'[i], n \in stages'[j]
        PROVE  i = j
    <3>1. CASE i \in 1..Len(stages) /\ j \in 1..Len(stages)
      BY <2>2, <2>4, <3>1 DEF StagesInv
    <3>2. CASE i \in 1..Len(stages) /\ j = Len(stages) + 1
      BY <2>1, <2>2, <2>4, <3>2
    <3>3. CASE j \in 1..Len(stages) /\ i = Len(stages) + 1
      BY <2>1, <2>2, <2>4, <3>3
    <3> QED
      BY <2>3, <3>1, <3>2, <3>3
  <2>5. ASSUME NEW j \in 1..Len(stages'), NEW n \in stages'[j], NEW m \in NodeIds,
               Arc(m, n)'
        PROVE  m \in Earlier(j)'
    <3>1. n \in NodeIds
      BY <2>5, TypeSplitNext DEF StagesOK
    <3>2. Arc(m, n)
      BY <2>1, <2>5 DEF Arc
    <3>3. \E i \in 1..(j - 1) : i \in 1..Len(stages) /\ m \in stages[i]
      <4>1. CASE j \in 1..Len(stages)
        <5>1. m \in Earlier(j)
          BY <2>2, <2>5, <3>2, <4>1 DEF StagesInv
        <5>2. PICK i \in 1..(j - 1) : m \in stages[i]
          BY <5>1, EarlierMembers
        <5> QED
          BY <4>1, <5>2
      <4>2. CASE j = Len(stages) + 1
        <5>1. n \in ready
          BY <2>2, <2>5, <4>2
        <5>2. left[<<m, n>>] = 0
          BY <2>1, <5>1 DEF Free
        <5>3. m \in Staged
          BY <2>1, <3>1, <3>2, <5>2, TypeSplit DEF Counted, Arc, GraphOK, Pairs
        <5>4. PICK i \in 1..Len(stages) : m \in stages[i]
          BY <5>3
        <5> QED
          BY <4>2, <5>4
      <4> QED
        BY <2>3, <4>1, <4>2
    <3>4. PICK i \in 1..(j - 1) : i \in 1..Len(stages) /\ m \in stages[i]
      BY <3>3
    <3>5. m \in stages'[i]
      BY <2>2, <3>4
    <3> QED
      BY <3>5 DEF Earlier
  <2> QED
    BY <2>1, <2>4, <2>5 DEF StagesInv
<1>4. CASE StagesEnd
  <2>1. /\ phase = "stages" /\ phase' = "run" /\ ready = {}
        /\ UNCHANGED <<nodes, edges, stages>>
    BY <1>4 DEF StagesEnd, graph, kahn
  <2>2. /\ Counted /\ Acyclic /\ Staged \subseteq nodes
        /\ \A n \in nodes \ Staged : ~Free(left, n)
    BY <2>1 DEF KahnInv, VerdictRight, Before
  <2>3. ASSUME nodes \ Staged # {} PROVE FALSE
    <3>1. PICK n \in nodes \ Staged : \A m \in nodes \ Staged : ~Arc(m, n)
      BY <2>2, <2>3 DEF Acyclic
    <3>2. n \in NodeIds
      BY <3>1, TypeSplit DEF GraphOK
    <3>3. ASSUME NEW m \in NodeIds PROVE left[<<m, n>>] = 0
      <4>1. CASE m \in Staged
        BY <2>2, <3>2, <4>1 DEF Counted
      <4>2. CASE m \notin Staged
        <5>1. ~Arc(m, n)
          BY <3>1, <3>2, <4>2 DEF SearchInv
        <5>2. edges[<<m, n>>] \in Nat
          BY <3>2, TypeSplit DEF GraphOK, Pairs
        <5>3. edges[<<m, n>>] = 0
          BY <5>1, <5>2 DEF Arc
        <5> QED
          BY <2>2, <3>2, <4>2, <5>3 DEF Counted
      <4> QED
        BY <4>1, <4>2
    <3>4. Free(left, n)
      BY <3>3 DEF Free
    <3> QED
      BY <2>2, <3>1, <3>4
  <2> QED
    BY <2>1, <2>2, <2>3 DEF StagesInv, Staged, Earlier, Arc
<1>5. CASE Later
  <2>1. /\ UNCHANGED <<nodes, edges, stages>>
        /\ phase' \in {"run", "pool", "done"} =>
             phase \in {"run", "pool", "done"}
    BY <1>5, LaterFrame
  <2> QED
    BY <2>1 DEF StagesInv, Staged, Earlier, Arc
<1>6. CASE UNCHANGED vars
  BY <1>6 DEF vars, graph, kahn, StagesInv, Staged, Earlier, Arc
<1>7. phase' \in Before \/ Validated \/ NextStage \/ StagesEnd \/ Later \/ UNCHANGED vars
  BY DEF Next, RunStep, Later, BeginRun, Ascend, AddNode, AddEdge, Visit, Descend,
         FindCycle, Before
<1> QED
  BY <1>1, <1>2, <1>3, <1>4, <1>5, <1>6, <1>7

-----------------------------------------------------------------------------
(* The stages as they run: those before the current one are collected, those *)
(* behind it have not been touched.                                         *)

PoolInv ==
    /\ phase \in Before \cup {"stages"} => stage = 1
    /\ stage <= Len(stages) + 1
    /\ phase = "pool" => stage <= Len(stages)
    /\ \A n \in NodeIds \ Staged : job[n] = "idle"
    /\ \A j \in 1..Len(stages) : \A n \in stages[j] :
         /\ j < stage => job[n] = "collected"
         /\ j > stage => job[n] = "idle"
         /\ j = stage /\ phase = "pool" => job[n] # "idle"
         /\ j = stage /\ phase \notin {"pool", "raised"} => job[n] = "idle"
    /\ phase = "raised" => \A n \in NodeIds : job[n] # "running"
    /\ outputs = {n \in NodeIds : job[n] = "collected"}
    /\ success <=> \A n \in NodeIds : job[n] = "collected" => result[n] = "ok"
    /\ \A n \in NodeIds : result[n] = "none" <=> job[n] \in {"idle", "queued", "running"}

Ran == PoolInv /\ SeesEarlierStages

LEMMA InitRan == Init => StagesInv /\ Ran
<1> SUFFICES ASSUME Init PROVE StagesInv /\ Ran
  OBVIOUS
<1>1. stages = <<>> /\ Len(stages) = 0 /\ Staged = {}
  BY NothingStaged DEF Init
<1> QED
  BY <1>1 DEF Init, StagesInv, Ran, PoolInv, SeesEarlierStages, Before

\* Nodes that are out are in the stage that runs, and the earlier stages succeeded.
LEMMA OutNodes ==
    ASSUME TypeOK, StagesInv, Ran, phase # "raised", NEW n \in NodeIds,
           job[n] \in {"queued", "running", "returned"}
    PROVE  /\ phase = "pool" /\ stage \in 1..Len(stages) /\ n \in Stage
           /\ n \in Staged
           /\ \A j \in 1..Len(stages) : n \in stages[j] => j = stage
           /\ \A m \in Earlier(stage) : job[m] = "collected" /\ result[m] = "ok"
<1> USE StagedMembers
<1>1. n \in Staged
  BY DEF Ran, PoolInv
<1>2. PICK j \in 1..Len(stages) : n \in stages[j]
  BY <1>1
<1>3. j \in Nat /\ stage \in Nat /\ Len(stages) \in Nat
  BY TypeSplit DEF PoolOK
<1>4. ~(j < stage) /\ ~(j > stage)
  BY <1>2 DEF Ran, PoolInv
<1>5. j = stage
  BY <1>3, <1>4
<1>6. phase = "pool"
  BY <1>2, <1>5 DEF Ran, PoolInv
<1>7. \A m \in Earlier(stage) : result[m] = "ok"
  <2>1. DOMAIN stages = 1..Len(stages)
    BY TypeSplit DEF StagesOK
  <2> QED
    BY <1>2, <1>5, <2>1 DEF Ran, SeesEarlierStages
<1>8. ASSUME NEW m \in Earlier(stage) PROVE job[m] = "collected"
  <2>1. PICK i \in 1..(stage - 1) : m \in stages[i]
    BY <1>8, EarlierMembers
  <2>2. i \in 1..Len(stages) /\ i < stage
    BY <1>2, <1>3, <1>5
  <2> QED
    BY <2>1, <2>2 DEF Ran, PoolInv
<1> QED
  BY <1>1, <1>2, <1>5, <1>6, <1>7, <1>8, TypeSplit DEF StagesInv, Stage

\* A node of the stage moves on: the stages stay apart, and what the submitted
\* nodes were handed stays what the earlier stages left.
LEMMA NodeStep ==
    ASSUME TypeOK, StagesInv, Ran, phase # "raised", NEW n \in NodeIds,
           job[n] \in {"queued", "running", "returned"},
           job'[n] \in {"running", "returned", "collected"},
           \A m \in NodeIds \ {n} : job'[m] = job[m],
           \A m \in NodeIds \ {n} : result'[m] = result[m],
           UNCHANGED <<phase, stages, stage, saw>>
    PROVE  /\ SeesEarlierStages'
           /\ \A j \in 1..Len(stages) : \A k \in stages[j] :
                /\ j < stage => job'[k] = "collected"
                /\ j > stage => job'[k] = "idle"
                /\ j = stage => job'[k] # "idle"
           /\ \A k \in NodeIds \ Staged : job'[k] = "idle"
           /\ phase = "pool" /\ stage <= Len(stages)
<1>1. /\ phase = "pool" /\ stage \in 1..Len(stages) /\ n \in Staged
      /\ \A j \in 1..Len(stages) : n \in stages[j] => j = stage
      /\ \A m \in Earlier(stage) : job[m] = "collected"
  BY OutNodes
<1>2. /\ Len(stages) \in Nat /\ stage \in Nat /\ DOMAIN stages = 1..Len(stages)
      /\ \A j \in 1..Len(stages) : stages[j] \subseteq NodeIds
      /\ job \in [NodeIds -> Jobs]
  BY TypeSplit DEF StagesOK, PoolOK
<1>3. \A k \in NodeIds : job'[k] = IF k = n THEN job'[n] ELSE job[k]
  OBVIOUS
<1>4. ASSUME NEW j \in 1..Len(stages), NEW k \in stages[j], job'[k] # "idle"
      PROVE  saw'[k] = Earlier(j) /\ \A m \in Earlier(j) : result'[m] = "ok"
  <2>1. k \in NodeIds
    BY <1>2
  <2>2. job[k] # "idle"
    BY <1>3, <1>4, <2>1
  <2>3. ~(j > stage)
    BY <2>2 DEF Ran, PoolInv
  <2>4. n \notin Earlier(j)
    <3>1. ASSUME NEW i \in 1..(j - 1) PROVE n \notin stages[i]
      <4>1. i \in 1..Len(stages) /\ i # stage
        BY <1>2, <2>3
      <4> QED
        BY <1>1, <4>1
    <3> QED
      BY <3>1, EarlierMembers
  <2>5. saw[k] = Earlier(j) /\ \A m \in Earlier(j) : result[m] = "ok"
    BY <1>2, <2>2 DEF Ran, SeesEarlierStages
  <2>6. Earlier(j) \subseteq NodeIds
    <3>1. \A i \in 1..(j - 1) : i \in 1..Len(stages)
      BY <1>2
    <3> QED
      BY <1>2, <3>1 DEF Earlier
  <2> QED
    BY <2>4, <2>5, <2>6
<1>5. SeesEarlierStages'
  BY <1>2, <1>4 DEF SeesEarlierStages, Earlier
<1>6. ASSUME NEW j \in 1..Len(stages), NEW k \in stages[j]
      PROVE  /\ j < stage => job'[k] = "collected"
             /\ j > stage => job'[k] = "idle"
             /\ j = stage => job'[k] # "idle"
  <2>1. k \in NodeIds
    BY <1>2
  <2>2. CASE k = n
    BY <1>1, <1>2, <1>3, <2>1, <2>2
  <2>3. CASE k # n
    BY <1>1, <1>3, <2>1, <2>3 DEF Ran, PoolInv
  <2> QED
    BY <2>2, <2>3
<1>7. \A k \in NodeIds \ Staged : job'[k] = "idle"
  BY <1>1, <1>3 DEF Ran, PoolInv
<1> QED
  BY <1>1, <1>2, <1>5, <1>6, <1>7

LEMMA StepRan ==
    TypeOK /\ TypeOK' /\ KahnInv /\ StagesInv /\ Ran /\ [Next]_vars => Ran'
<1> SUFFICES ASSUME TypeOK, TypeOK', KahnInv, StagesInv, Ran, [Next]_vars
             PROVE  Ran'
  OBVIOUS
<1> USE StagedMembers
<1> DEFINE N == Len(stages)
<1>0. /\ N \in Nat /\ stage \in Nat \ {0} /\ DOMAIN stages = 1..N
      /\ job \in [NodeIds -> Jobs] /\ result \in [NodeIds -> {"none", "ok", "failed"}]
      /\ \A j \in 1..N : stages[j] \subseteq NodeIds
      /\ Staged \subseteq NodeIds
  BY TypeSplit DEF PoolOK, StagesOK, KahnInv, GraphOK
<1>1. CASE /\ UNCHANGED <<pool, stages>>
           /\ phase \in Before \cup {"stages"}
           /\ phase' \in Before \cup {"stages", "run"}
  BY <1>1 DEF Ran, PoolInv, SeesEarlierStages, Staged, Earlier, pool, Before
<1>2. CASE NextStage
  <2>1. /\ Len(stages') = N + 1
        /\ \A i \in 1..N : stages'[i] = stages[i]
        /\ stages'[N + 1] = ready
        /\ Staged' = Staged \cup ready
        /\ DOMAIN stages' = 1..(N + 1)
    BY <1>2, NextStageEffect
  <2>2. /\ phase = "stages" /\ phase' = "stages" /\ UNCHANGED pool /\ stage = 1
        /\ \A n \in NodeIds : n \in ready => n \notin Staged
    BY <1>2 DEF NextStage, KahnInv, Ran, PoolInv
  <2>3. \A n \in NodeIds : job[n] = "idle"
    <3>1. ASSUME NEW n \in Staged PROVE job[n] = "idle"
      <4>1. PICK j \in 1..N : n \in stages[j]
        BY <3>1
      <4>2. j = stage \/ j > stage
        BY <2>2
      <4> QED
        BY <2>2, <4>1, <4>2 DEF Ran, PoolInv
    <3> QED
      BY <3>1 DEF Ran, PoolInv
  <2>4. SeesEarlierStages'
    <3>1. \A j \in 1..(N + 1) : stages'[j] \subseteq NodeIds
      BY <2>1, TypeSplitNext DEF StagesOK
    <3> QED
      BY <2>1, <2>2, <2>3, <3>1 DEF SeesEarlierStages, pool
  <2>5. ASSUME NEW j \in 1..(N + 1), NEW n \in stages'[j]
        PROVE  /\ j < stage' => job'[n] = "collected"
               /\ j > stage' => job'[n] = "idle"
               /\ j = stage' => job'[n] = "idle"
    <3>1. n \in NodeIds
      BY <2>1, <2>5, TypeSplitNext DEF StagesOK
    <3> QED
      BY <2>2, <2>3, <3>1, <1>0 DEF pool
  <2>6. stage' <= Len(stages') + 1
    BY <1>0, <2>1, <2>2 DEF pool
  <2> QED
    BY <2>1, <2>2, <2>3, <2>4, <2>5, <2>6 DEF Ran, PoolInv, pool
<1>3. CASE OpenStage
  <2>1. /\ phase = "run" /\ phase' = "pool" /\ success /\ stage \in 1..N
        /\ UNCHANGED <<stages, stage, result, outputs, success>>
        /\ \A n \in NodeIds : job'[n] = IF n \in Stage THEN "queued" ELSE job[n]
        /\ \A n \in NodeIds : saw'[n] = IF n \in Stage THEN outputs ELSE saw[n]
    BY <1>0, <1>3 DEF OpenStage, kahn
  <2>2. \A n \in NodeIds : n \in Stage => job[n] = "idle"
    BY <2>1 DEF Ran, PoolInv, Stage
  <2>3. outputs = Earlier(stage)
    <3>1. ASSUME NEW n \in outputs PROVE n \in Earlier(stage)
      <4>1. n \in NodeIds /\ job[n] = "collected"
        BY <3>1 DEF Ran, PoolInv
      <4>2. n \in Staged
        BY <4>1 DEF Ran, PoolInv
      <4>3. PICK j \in 1..N : n \in stages[j]
        BY <4>2
      <4>4. ~(j > stage) /\ j # stage
        BY <2>1, <4>1, <4>3 DEF Ran, PoolInv
      <4>5. j \in 1..(stage - 1)
        BY <1>0, <4>3, <4>4
      <4> QED
        BY <4>3, <4>5, EarlierMembers
    <3>2. ASSUME NEW n \in Earlier(stage) PROVE n \in outputs
      <4>1. PICK i \in 1..(stage - 1) : n \in stages[i]
        BY <3>2, EarlierMembers
      <4>2. i \in 1..N /\ i < stage
        BY <1>0, <2>1
      <4>3. job[n] = "collected" /\ n \in NodeIds
        BY <1>0, <4>1, <4>2 DEF Ran, PoolInv
      <4> QED
        BY <4>3 DEF Ran, PoolInv
    <3> QED
      BY <3>1, <3>2
  <2>4. SeesEarlierStages'
    <3> SUFFICES ASSUME NEW j \in 1..N, NEW n \in stages[j], job'[n] # "idle"
                 PROVE  /\ saw'[n] = Earlier(j)
                        /\ \A m \in Earlier(j) : result'[m] = "ok"
      BY SMTT(30), <1>0, <2>1 DEF SeesEarlierStages, Earlier
    <3>1. n \in NodeIds
      BY <1>0
    <3>2. CASE j = stage
      <4>1. saw'[n] = Earlier(stage)
        BY <2>1, <2>3, <3>1, <3>2 DEF Stage
      <4>2. \A m \in outputs : result[m] = "ok"
        BY <2>1 DEF Ran, PoolInv
      <4> QED
        BY <2>1, <2>3, <3>2, <4>1, <4>2
    <3>3. CASE j # stage
      <4>1. n \notin Stage
        BY <2>1, <3>3 DEF StagesInv, Stage
      <4>2. job[n] # "idle" /\ saw'[n] = saw[n]
        BY <2>1, <3>1, <4>1
      <4> QED
        BY <1>0, <2>1, <4>2 DEF Ran, SeesEarlierStages
    <3> QED
      BY <3>2, <3>3
  <2>5. ASSUME NEW j \in 1..N, NEW n \in stages[j]
        PROVE  /\ j < stage => job'[n] = "collected"
               /\ j > stage => job'[n] = "idle"
               /\ j = stage => job'[n] # "idle"
    <3>1. n \in NodeIds /\ (n \in Stage <=> j = stage)
      BY <1>0, <2>1 DEF StagesInv, Stage
    <3> QED
      BY <1>0, <2>1, <3>1 DEF Ran, PoolInv
  <2>6. Staged' = Staged
    BY <2>1 DEF Staged
  <2>7. \A n \in NodeIds \ Staged : job'[n] = "idle"
    <3>1. Stage \subseteq Staged
      BY <2>1 DEF Stage
    <3> QED
      BY <2>1, <3>1 DEF Ran, PoolInv
  <2>8. \A n \in NodeIds : /\ job'[n] = "collected" <=> job[n] = "collected"
                           /\ job'[n] \in {"idle", "queued", "running"} <=>
                                job[n] \in {"idle", "queued", "running"}
    BY <2>1, <2>2
  <2>9. /\ outputs' = {n \in NodeIds : job'[n] = "collected"}
        /\ success' <=> \A n \in NodeIds : job'[n] = "collected" => result'[n] = "ok"
        /\ \A n \in NodeIds :
             result'[n] = "none" <=> job'[n] \in {"idle", "queued", "running"}
    BY <2>1, <2>8 DEF Ran, PoolInv
  <2>10. stage' <= Len(stages') + 1 /\ stage' <= Len(stages')
    BY <1>0, <2>1
  <2> QED
    BY <2>1, <2>4, <2>5, <2>6, <2>7, <2>9, <2>10 DEF Ran, PoolInv, Before
<1>4. ASSUME NEW n \in NodeIds, StartNode(n) PROVE Ran'
  <2>1. /\ phase = "pool" /\ job[n] = "queued" /\ job' = [job EXCEPT ![n] = "running"]
        /\ UNCHANGED <<phase, stages, stage, saw, result, outputs, success>>
    BY <1>4 DEF StartNode, kahn
  <2>2. /\ SeesEarlierStages'
        /\ \A j \in 1..N : \A k \in stages[j] :
             /\ j < stage => job'[k] = "collected"
             /\ j > stage => job'[k] = "idle"
             /\ j = stage => job'[k] # "idle"
        /\ \A k \in NodeIds \ Staged : job'[k] = "idle"
        /\ phase = "pool" /\ stage <= N
    <3>1. /\ phase # "raised" /\ job[n] \in {"queued", "running", "returned"}
          /\ job'[n] \in {"running", "returned", "collected"}
          /\ \A m \in NodeIds \ {n} : job'[m] = job[m]
          /\ \A m \in NodeIds \ {n} : result'[m] = result[m]
          /\ UNCHANGED <<phase, stages, stage, saw>>
      BY <1>0, <2>1
    <3> QED
      BY <3>1, NodeStep
  <2>3. /\ \A k \in NodeIds : job'[k] = "collected" <=> job[k] = "collected"
        /\ \A k \in NodeIds : job'[k] \in {"idle", "queued", "running"} <=>
                                job[k] \in {"idle", "queued", "running"}
    BY <1>0, <2>1
  <2>4. Staged' = Staged
    BY <2>1 DEF Staged
  <2> QED
    BY <1>0, <2>1, <2>2, <2>3, <2>4 DEF Ran, PoolInv, Before
<1>5. ASSUME NEW n \in NodeIds, NEW r \in {"ok", "failed"}, FinishNode(n, r)
      PROVE  Ran'
  <2>1. /\ job[n] = "running" /\ job' = [job EXCEPT ![n] = "returned"]
        /\ phase # "raised"
        /\ result' = [result EXCEPT ![n] = r]
        /\ UNCHANGED <<phase, stages, stage, saw, outputs, success>>
    BY <1>5 DEF FinishNode, kahn, Ran, PoolInv
  <2>2. /\ SeesEarlierStages'
        /\ \A j \in 1..N : \A k \in stages[j] :
             /\ j < stage => job'[k] = "collected"
             /\ j > stage => job'[k] = "idle"
             /\ j = stage => job'[k] # "idle"
        /\ \A k \in NodeIds \ Staged : job'[k] = "idle"
        /\ phase = "pool" /\ stage <= N
    <3>1. /\ phase # "raised" /\ job[n] \in {"queued", "running", "returned"}
          /\ job'[n] \in {"running", "returned", "collected"}
          /\ \A m \in NodeIds \ {n} : job'[m] = job[m]
          /\ \A m \in NodeIds \ {n} : result'[m] = result[m]
          /\ UNCHANGED <<phase, stages, stage, saw>>
      BY <1>0, <2>1
    <3> QED
      BY <3>1, NodeStep
  <2>3. /\ \A k \in NodeIds : job'[k] = "collected" <=> job[k] = "collected"
        /\ \A k \in NodeIds : job[k] = "collected" => result'[k] = result[k]
        /\ \A k \in NodeIds : result'[k] = "none" <=>
                                job'[k] \in {"idle", "queued", "running"}
    BY <1>0, <2>1 DEF Ran, PoolInv
  <2>4. Staged' = Staged
    BY <2>1 DEF Staged
  <2> QED
    BY <1>0, <2>1, <2>2, <2>3, <2>4 DEF Ran, PoolInv, Before
<1>6. ASSUME NEW n \in NodeIds, Collect(n) PROVE Ran'
  <2>1. /\ phase = "pool" /\ job[n] = "returned" /\ job' = [job EXCEPT ![n] = "collected"]
        /\ outputs' = outputs \cup {n}
        /\ success' = (success /\ result[n] = "ok")
        /\ UNCHANGED <<phase, stages, stage, saw, result>>
    BY <1>6 DEF Collect, kahn
  <2>2. /\ SeesEarlierStages'
        /\ \A j \in 1..N : \A k \in stages[j] :
             /\ j < stage => job'[k] = "collected"
             /\ j > stage => job'[k] = "idle"
             /\ j = stage => job'[k] # "idle"
        /\ \A k \in NodeIds \ Staged : job'[k] = "idle"
        /\ phase = "pool" /\ stage <= N
    <3>1. /\ phase # "raised" /\ job[n] \in {"queued", "running", "returned"}
          /\ job'[n] \in {"running", "returned", "collected"}
          /\ \A m \in NodeIds \ {n} : job'[m] = job[m]
          /\ \A m \in NodeIds \ {n} : result'[m] = result[m]
          /\ UNCHANGED <<phase, stages, stage, saw>>
      BY <1>0, <2>1
    <3> QED
      BY <3>1, NodeStep
  <2>3. \A k \in NodeIds : /\ job'[k] = "collected" <=> k = n \/ job[k] = "collected"
                           /\ job'[k] \in {"idle", "queued", "running"} <=>
                                job[k] \in {"idle", "queued", "running"}
    BY <1>0, <2>1
  <2>4. Staged' = Staged
    BY <2>1 DEF Staged
  <2>5. success' <=> \A k \in NodeIds : job'[k] = "collected" => result'[k] = "ok"
    BY <2>1, <2>3 DEF Ran, PoolInv
  <2>6. outputs' = {k \in NodeIds : job'[k] = "collected"}
    BY <2>1, <2>3 DEF Ran, PoolInv
  <2>7. \A k \in NodeIds :
          result'[k] = "none" <=> job'[k] \in {"idle", "queued", "running"}
    BY <2>1, <2>3 DEF Ran, PoolInv
  <2> QED
    BY <1>0, <2>1, <2>2, <2>4, <2>5, <2>6, <2>7 DEF Ran, PoolInv, Before
<1>7. CASE CloseStage
  <2>1. /\ phase = "pool" /\ phase' = "run" /\ stage' = stage + 1
        /\ stage \in 1..N
        /\ \A n \in Stage : job[n] = "collected"
        /\ UNCHANGED <<stages, job, result, outputs, saw, success>>
    BY <1>0, <1>7 DEF CloseStage, kahn, Ran, PoolInv
  <2>2. ASSUME NEW j \in 1..N, NEW n \in stages[j]
        PROVE  /\ j < stage + 1 => job[n] = "collected"
               /\ j > stage + 1 => job[n] = "idle"
               /\ j = stage + 1 => job[n] = "idle"
    <3>1. CASE j = stage
      BY <1>0, <2>1, <3>1 DEF Stage
    <3>2. CASE j < stage
      BY <1>0, <2>1, <3>2 DEF Ran, PoolInv
    <3>3. CASE j > stage
      BY <1>0, <2>1, <3>3 DEF Ran, PoolInv
    <3> QED
      BY <1>0, <3>1, <3>2, <3>3
  <2>3. stage' <= Len(stages') + 1
    BY <1>0, <2>1
  <2>4. SeesEarlierStages'
    BY <2>1 DEF Ran, SeesEarlierStages, Earlier
  <2> QED
    BY <2>1, <2>2, <2>3, <2>4 DEF Ran, PoolInv, Before, Staged
<1>8. CASE EndRun \/ UNCHANGED vars
  <2>1. /\ UNCHANGED <<stages, stage, job, result, outputs, saw, success>>
        /\ UNCHANGED phase \/ (phase = "run" /\ phase' = "done")
    BY <1>8 DEF EndRun, vars, kahn, pool
  <2> QED
    BY <2>1 DEF Ran, PoolInv, SeesEarlierStages, Earlier, Before, Staged
<1>8a. CASE ListenerRaises
  <2>1. /\ UNCHANGED <<stages, stage, job, result, outputs, saw, success>>
        /\ phase' = "raised" /\ phase \in {"stages", "run", "pool"}
    BY <1>8a DEF ListenerRaises, kahn, pool
  <2>2. ASSUME NEW m \in NodeIds, job[m] = "running" PROVE FALSE
    <3>1. phase = "pool" /\ m \in Stage
      BY <2>1, <2>2, OutNodes
    <3> QED
      BY <1>8a, <2>2, <3>1 DEF ListenerRaises
  <2> QED
    BY <2>1, <2>2 DEF Ran, PoolInv, SeesEarlierStages, Earlier, Before, Staged
<1>9. \/ /\ UNCHANGED <<pool, stages>>
         /\ phase \in Before \cup {"stages"}
         /\ phase' \in Before \cup {"stages", "run"}
      \/ NextStage \/ Later \/ UNCHANGED vars
  BY DEF Next, RunStep, Later, BeginRun, Ascend, AddNode, AddEdge, Visit, Descend,
         FindCycle, Validated, StagesEnd, Before, kahn
<1> QED
  BY <1>1, <1>2, <1>3, <1>4, <1>5, <1>6, <1>7, <1>8, <1>8a, <1>9
     DEF Later, NodeReturns

Inv ==
    /\ TypeOK
    /\ KahnInv
    /\ SearchInv
    /\ VerdictRight
    /\ StagesInv
    /\ Ran

THEOREM Invariant == Spec => []Inv
<1>1. Init => Inv
  BY InitTypes, InitSearch, InitRan DEF Inv
<1>2. Inv /\ [Next]_vars => Inv'
  BY StepTypes, StepKahn, StepSearch, StepVerdict, StepStages, StepRan DEF Inv
<1> QED
  BY <1>1, <1>2, PTL DEF Spec

\* A node is handed the outputs of exactly the earlier stages, all successes,
\* whatever the workers of its own stage do meanwhile (engine.py:87-118).
THEOREM HandedEarlierStages == Spec => []SeesEarlierStages
<1>1. Inv => SeesEarlierStages
  BY DEF Inv, Ran
<1> QED
  BY <1>1, Invariant, PTL

-----------------------------------------------------------------------------
(* The run keeps the promise.                                              *)

LEMMA InitPromise == Init => Promise!Init
BY DEF Init, Promise!Init, arcs, status, verdict

LEMMA StepPromise == Inv /\ Inv' /\ [Next]_vars => [Promise!Next]_(Promise!pvars)
<1> SUFFICES ASSUME Inv, Inv', [Next]_vars
             PROVE  Promise!Next \/ UNCHANGED Promise!pvars
  OBVIOUS
<1> USE StagedMembers
<1>0. /\ TypeOK /\ TypeOK' /\ KahnInv /\ StagesInv /\ StagesInv' /\ Ran
      /\ job \in [NodeIds -> Jobs] /\ result \in [NodeIds -> {"none", "ok", "failed"}]
      /\ nodes \subseteq NodeIds
  BY TypeSplit DEF Inv, PoolOK, GraphOK
<1>1. \A n \in NodeIds :
        status[n] = IF job[n] \in {"idle", "queued"} THEN "todo"
                    ELSE IF job[n] = "running" THEN "running" ELSE result[n]
  BY DEF status
<1>2. phase \in Before \cup {"stages"} => \A n \in NodeIds : job[n] = "idle"
  <2> SUFFICES ASSUME phase \in Before \cup {"stages"}, NEW n \in NodeIds
               PROVE  job[n] = "idle"
    OBVIOUS
  <2>1. CASE n \in Staged
    <3>1. PICK j \in 1..Len(stages) : n \in stages[j]
      BY <1>0, <2>1
    <3>2. stage = 1 /\ (j = stage \/ j > stage) /\ phase \notin {"pool", "raised"}
      BY DEF Inv, Ran, PoolInv, Before
    <3> QED
      BY <3>1, <3>2 DEF Inv, Ran, PoolInv
  <2>2. CASE n \notin Staged
    BY <2>2 DEF Inv, Ran, PoolInv
  <2> QED
    BY <2>1, <2>2
<1>3. CASE \/ \E n \in NodeIds : AddNode(n)
           \/ \E m, n \in NodeIds : AddEdge(m, n)
  <2>1. phase = "build" /\ phase' = "build" /\ UNCHANGED <<job, result>>
    BY <1>3 DEF AddNode, AddEdge, pool
  <2>2. UNCHANGED <<status, verdict>> /\ verdict = "none"
    BY <2>1 DEF status, verdict
  <2>3. \A n \in NodeIds : status[n] = "todo"
    BY <1>1, <1>2, <2>1 DEF Before
  <2>4. nodes \subseteq nodes' /\ arcs \subseteq arcs'
    <3>1. CASE \E n \in NodeIds : AddNode(n)
      BY <3>1 DEF AddNode, arcs
    <3>2. CASE \E m, n \in NodeIds : AddEdge(m, n)
      <4>1. PICK m \in NodeIds, n \in NodeIds : AddEdge(m, n)
        BY <3>2
      <4>2. \A p \in Pairs : edges'[p] = IF p = <<m, n>> THEN edges[p] + 1 ELSE edges[p]
        BY <1>0, <4>1, TypeSplit DEF AddEdge, GraphOK
      <4>3. \A p \in Pairs : edges[p] \in Nat
        BY <1>0, TypeSplit DEF GraphOK
      <4> QED
        BY <4>1, <4>2, <4>3 DEF AddEdge, arcs
    <3> QED
      BY <1>3, <3>1, <3>2
  <2>5. Promise!Edit
    BY <2>2, <2>3, <2>4 DEF Promise!Edit, Promise!Idle
  <2> QED
    BY <2>5 DEF Promise!Next
<1>4. ASSUME NEW n \in NodeIds, FindCycle(n) PROVE Promise!Reject
  <2>1. phase = "dfs" /\ phase' = "rejected" /\ UNCHANGED <<nodes, edges, job, result>>
    BY <1>4 DEF FindCycle, graph, pool
  <2>2. \A m \in NodeIds : status[m] = "todo"
    BY <1>1, <1>2, <2>1 DEF Before
  <2> QED
    BY <2>1, <2>2 DEF Promise!Reject, Promise!Idle, status, verdict, arcs
<1>5. CASE \/ BeginRun \/ Ascend \/ Validated \/ NextStage \/ StagesEnd \/ CloseStage
           \/ UNCHANGED vars \/ \E n \in NodeIds : Visit(n) \/ Descend(n)
  <2>1. /\ UNCHANGED <<nodes, edges, job, result>>
        /\ UNCHANGED <<phase, success>> \/
             (/\ phase \in {"build", "dfs", "stages", "pool"}
              /\ phase' \in {"dfs", "stages", "run"})
    BY <1>5 DEF BeginRun, Ascend, Validated, NextStage, StagesEnd, CloseStage, vars,
                Visit, Descend, graph, pool
  <2>2. UNCHANGED <<nodes, arcs, status, verdict>>
    BY <2>1 DEF arcs, status, verdict
  <2> QED
    BY <2>2 DEF Promise!pvars
<1>6. CASE OpenStage
  <2>1. /\ phase = "run" /\ phase' = "pool" /\ UNCHANGED <<nodes, edges, result>>
        /\ stage \in 1..Len(stages)
        /\ \A n \in NodeIds : job'[n] = IF n \in Stage THEN "queued" ELSE job[n]
    BY <1>0, <1>6, TypeSplit DEF OpenStage, graph, PoolOK
  <2>2. \A n \in NodeIds : n \in Stage => job[n] = "idle"
    BY <2>1 DEF Inv, Ran, PoolInv, Stage
  <2>3. \A n \in NodeIds : status'[n] = status[n]
    BY <1>1, <2>1, <2>2 DEF status
  <2>4. UNCHANGED <<nodes, arcs, status, verdict>>
    BY <2>1, <2>3 DEF arcs, status, verdict
  <2> QED
    BY <2>4 DEF Promise!pvars
<1>7. ASSUME NEW n \in NodeIds, StartNode(n) PROVE Promise!Start(n)
  <2>1. /\ phase = "pool" /\ job[n] = "queued"
        /\ UNCHANGED <<phase, nodes, edges, result, success>>
        /\ \A k \in NodeIds : job'[k] = IF k = n THEN "running" ELSE job[k]
    BY <1>0, <1>7 DEF StartNode, graph
  <2>2. /\ n \in Staged /\ n \in Stage /\ stage \in 1..Len(stages)
        /\ \A m \in Earlier(stage) : job[m] = "collected" /\ result[m] = "ok"
    BY <1>0, <2>1, OutNodes
  <2>3. n \in nodes /\ status[n] = "todo"
    BY <1>0, <1>1, <2>1, <2>2 DEF KahnInv
  <2>4. ASSUME NEW m \in nodes, <<m, n>> \in arcs PROVE status[m] = "ok"
    <3>1. m \in NodeIds /\ Arc(m, n)
      BY <1>0, <2>4 DEF arcs, Arc
    <3>2. m \in Earlier(stage)
      BY <1>0, <2>2, <3>1 DEF StagesInv, Stage
    <3> QED
      BY <1>1, <2>2, <3>1, <3>2
  <2>5. status' = [status EXCEPT ![n] = "running"]
    BY <2>1 DEF status
  <2>6. UNCHANGED <<nodes, arcs, verdict>> /\ verdict = "none"
    BY <2>1 DEF arcs, verdict
  <2> QED
    BY <2>3, <2>4, <2>5, <2>6 DEF Promise!Start, Promise!Before
<1>8. ASSUME NEW n \in NodeIds, NEW r \in {"ok", "failed"}, FinishNode(n, r)
      PROVE  Promise!Finish(n, r)
  <2>1. /\ job[n] = "running" /\ UNCHANGED <<phase, nodes, edges, success>>
        /\ \A k \in NodeIds : job'[k] = IF k = n THEN "returned" ELSE job[k]
        /\ \A k \in NodeIds : result'[k] = IF k = n THEN r ELSE result[k]
    BY <1>0, <1>8 DEF FinishNode, graph
  <2>2. status[n] = "running" /\ status' = [status EXCEPT ![n] = r]
    BY <1>1, <2>1 DEF status
  <2>3. UNCHANGED <<nodes, arcs, verdict>>
    BY <2>1 DEF arcs, verdict
  <2> QED
    BY <2>2, <2>3 DEF Promise!Finish
<1>9. ASSUME NEW n \in NodeIds, Collect(n) PROVE UNCHANGED Promise!pvars
  <2>1. /\ phase = "pool" /\ job[n] = "returned"
        /\ UNCHANGED <<phase, nodes, edges, result>>
        /\ \A k \in NodeIds : job'[k] = IF k = n THEN "collected" ELSE job[k]
    BY <1>0, <1>9 DEF Collect, graph
  <2>2. \A k \in NodeIds : status'[k] = status[k]
    BY <1>1, <2>1 DEF status
  <2>3. UNCHANGED <<nodes, arcs, status, verdict>>
    BY <2>1, <2>2 DEF arcs, status, verdict
  <2> QED
    BY <2>3 DEF Promise!pvars
<1>10. CASE EndRun
  <2>1. /\ phase = "run" /\ phase' = "done"
        /\ ~success \/ stage > Len(stages)
        /\ UNCHANGED <<nodes, edges, job, result, success>>
    BY <1>10 DEF EndRun, graph, pool
  <2>2. Staged = nodes
    BY <1>0, <2>1 DEF StagesInv
  <2>3. ASSUME NEW n \in NodeIds PROVE job[n] \in {"idle", "collected"}
    <3>1. job[n] \notin {"queued", "running", "returned"}
      BY <1>0, <2>1, OutNodes
    <3> QED
      BY <1>0, <3>1 DEF Jobs
  <2>4. \A n \in NodeIds : status[n] # "running"
    <3>1. \A n \in NodeIds : job[n] = "collected" => result[n] # "none"
      BY DEF Inv, Ran, PoolInv
    <3> QED
      BY <1>0, <1>1, <2>3, <3>1
  <2>5. ASSUME success PROVE Promise!End
    <3>1. ASSUME NEW n \in nodes PROVE status[n] = "ok"
      <4>1. PICK j \in 1..Len(stages) : n \in stages[j]
        BY <1>0, <2>2
      <4>2. j < stage
        BY <1>0, <2>1, <2>5, TypeSplit DEF PoolOK
      <4>3. job[n] = "collected" /\ n \in NodeIds
        BY <1>0, <4>1, <4>2 DEF Ran, PoolInv
      <4> QED
        BY <1>1, <2>5, <4>3 DEF Inv, Ran, PoolInv
    <3> QED
      BY <2>1, <2>4, <2>5, <3>1 DEF Promise!End, verdict, status, arcs
  <2>6. ASSUME ~success PROVE Promise!End
    <3>1. PICK n \in NodeIds : job[n] = "collected" /\ result[n] # "ok"
      BY <2>6 DEF Inv, Ran, PoolInv
    <3>2. result[n] = "failed"
      BY <1>0, <3>1 DEF Ran, PoolInv
    <3>3. n \in nodes /\ status[n] = "failed"
      BY <1>1, <2>2, <3>1, <3>2 DEF Inv, Ran, PoolInv
    <3>4. verdict = "none" /\ verdict' = "failed" /\ UNCHANGED <<nodes, arcs, status>>
      BY <2>1, <2>6 DEF verdict, status, arcs
    <3> QED
      BY <2>4, <3>3, <3>4 DEF Promise!End
  <2>7. Promise!End
    BY <2>5, <2>6
  <2> QED
    BY <2>7 DEF Promise!Next
<1>11. CASE ListenerRaises
  <2>1. /\ phase \in {"stages", "run", "pool"} /\ phase' = "raised"
        /\ UNCHANGED <<nodes, edges, job, result>>
    BY <1>11 DEF ListenerRaises, graph, pool
  <2>2. \A n \in NodeIds : job[n] # "running"
    BY <2>1 DEF Inv, Ran, PoolInv
  <2>3. \A n \in NodeIds : status[n] # "running"
    BY <1>0, <1>1, <2>2
  <2>4. verdict = "none" /\ verdict' = "raised" /\ UNCHANGED <<nodes, arcs, status>>
    BY <2>1 DEF verdict, status, arcs
  <2> QED
    BY <2>3, <2>4 DEF Promise!Raise, Promise!Next
<1> QED
  BY <1>3, <1>4, <1>5, <1>6, <1>7, <1>8, <1>9, <1>10, <1>11
     DEF Next, RunStep, NodeReturns, Promise!Next

\* Stages, pool and snapshots keep the promise (engine.py:69-118): a node starts
\* once, after all its predecessors have succeeded, and the run ends when nothing
\* runs, well exactly if every node of the graph has succeeded.
THEOREM RunKeepsPromise == Spec => KeepsPromise
<1>1. Inv /\ [Next]_vars => Inv'
  BY StepTypes, StepKahn, StepSearch, StepVerdict, StepStages, StepRan DEF Inv
<1> QED
  BY <1>1, InitPromise, StepPromise, Invariant, PTL DEF Spec, KeepsPromise, Promise!Spec
=============================================================================
