---------------------------- MODULE WorkflowRun ----------------------------
(***************************************************************************)
(* A workflow (workflow/): the graph is built node by node and edge by      *)
(* edge, validated by a depth-first search, cut into stages by Kahn's       *)
(* algorithm, and run stage by stage on a thread pool.                      *)
(*                                                                         *)
(* Abstractions.  The list of edges is kept as the number of edges between  *)
(* two nodes (add_edge accepts duplicates); in_degree is kept per source,   *)
(* the code keeps its sum.  The adjacency order is a choice.  The kinds of  *)
(* node differ in what they call: each returns a result that is a success   *)
(* or a failure.  topological_sort is left out: the engine does not call it.*)
(***************************************************************************)
EXTENDS Naturals, FiniteSets, Sequences

CONSTANTS
    NodeIds,        \* the names a workflow may use for its nodes
    MaxEdges,       \* bound: edges of the graph
    MaxParallel     \* max_parallel: 4 in the code

ASSUME WorkflowAssumption ==
    /\ IsFiniteSet(NodeIds)
    /\ MaxEdges \in Nat
    /\ MaxParallel \in Nat \ {0}

Pairs == NodeIds \X NodeIds

VARIABLES
    phase,      \* "build", "dfs", "rejected", "stages", "run", "pool", "done", "raised"
    nodes,      \* _nodes
    edges,      \* _edges, _adjacency, _reverse: edges per pair of nodes
    size,       \* their number
    visited,    \* validate: visited
    path,       \* validate: the calls of _dfs under way, which are in_stack
    left,       \* execution_stages: in_degree, per source
    ready,      \* execution_stages: ready
    stages,     \* the stages found so far
    stage,      \* index of the stage that runs or runs next
    job,        \* future of each node
    result,     \* what the node returned
    outputs,    \* nodes with an entry in outputs
    saw,        \* nodes with an entry in the outputs handed to the node
    success     \* success of the run

graph == <<nodes, edges, size>>
search == <<visited, path>>
kahn == <<left, ready, stages>>
pool == <<stage, job, result, outputs, saw, success>>
vars == <<phase, graph, search, kahn, pool>>

-----------------------------------------------------------------------------
(* State functions.                                                        *)

Arc(m, n) == edges[<<m, n>>] > 0
InPath == {path[i] : i \in DOMAIN path}
Top == path[Len(path)]

\* in_degree[n] == 0
Free(deg, n) == \A m \in NodeIds : deg[<<m, n>>] = 0

Staged == UNION {stages[i] : i \in DOMAIN stages}
Stage == stages[stage]
Earlier(j) == UNION {stages[i] : i \in 1..(j - 1)}
Running == {n \in NodeIds : job[n] = "running"}

Init ==
    /\ phase = "build"
    /\ nodes = {}
    /\ edges = [p \in Pairs |-> 0]
    /\ size = 0
    /\ visited = {}
    /\ path = <<>>
    /\ left = [p \in Pairs |-> 0]
    /\ ready = {}
    /\ stages = <<>>
    /\ stage = 1
    /\ job = [n \in NodeIds |-> "idle"]
    /\ result = [n \in NodeIds |-> "none"]
    /\ outputs = {}
    /\ saw = [n \in NodeIds |-> {}]
    /\ success = TRUE

-----------------------------------------------------------------------------
(* add_node and add_edge.  A duplicate node and an unknown end raise.       *)

AddNode(n) ==
    /\ phase = "build"
    /\ n \notin nodes
    /\ nodes' = nodes \cup {n}
    /\ UNCHANGED <<phase, edges, size, search, kahn, pool>>

AddEdge(m, n) ==
    /\ phase = "build"
    /\ size < MaxEdges
    /\ {m, n} \subseteq nodes
    /\ edges' = [edges EXCEPT ![<<m, n>>] = @ + 1]
    /\ size' = size + 1
    /\ UNCHANGED <<phase, nodes, search, kahn, pool>>

-----------------------------------------------------------------------------
(* run: validate.                                                          *)

BeginRun ==
    /\ phase = "build"
    /\ phase' = "dfs"
    /\ UNCHANGED <<graph, search, kahn, pool>>

\* validate calls _dfs for a node not visited yet.
Visit(n) ==
    /\ phase = "dfs"
    /\ path = <<>>
    /\ n \in nodes \ visited
    /\ visited' = visited \cup {n}
    /\ path' = <<n>>
    /\ UNCHANGED <<phase, graph, kahn, pool>>

\* _dfs calls itself for a neighbour not visited yet.
Descend(n) ==
    /\ phase = "dfs"
    /\ path # <<>>
    /\ Arc(Top, n)
    /\ n \notin visited
    /\ visited' = visited \cup {n}
    /\ path' = Append(path, n)
    /\ UNCHANGED <<phase, graph, kahn, pool>>

\* Mutated: a neighbour that has been visited counts as a cycle.
FindCycleVisited(n) ==
    /\ phase = "dfs"
    /\ path # <<>>
    /\ Arc(Top, n)
    /\ n \in visited
    /\ phase' = "rejected"
    /\ UNCHANGED <<graph, search, kahn, pool>>

\* _dfs meets a neighbour that is on the stack: run returns an invalid result.
FindCycle(n) ==
    /\ phase = "dfs"
    /\ path # <<>>
    /\ Arc(Top, n)
    /\ n \in InPath
    /\ phase' = "rejected"
    /\ UNCHANGED <<graph, search, kahn, pool>>

\* Every neighbour has been looked at: _dfs returns False.
Ascend ==
    /\ phase = "dfs"
    /\ path # <<>>
    /\ \A n \in NodeIds : Arc(Top, n) => n \in visited \ InPath
    /\ path' = SubSeq(path, 1, Len(path) - 1)
    /\ UNCHANGED <<phase, graph, visited, kahn, pool>>

\* The graph is valid: execution_stages starts with the nodes of in-degree 0.
Validated ==
    /\ phase = "dfs"
    /\ path = <<>>
    /\ nodes \subseteq visited
    /\ phase' = "stages"
    /\ left' = edges
    /\ ready' = {n \in nodes : Free(edges, n)}
    /\ UNCHANGED <<graph, search, stages, pool>>

-----------------------------------------------------------------------------
(* run: execution_stages.                                                  *)

\* Mutated: duplicate edges count once.
NextStageOnce ==
    /\ phase = "stages"
    /\ ready # {}
    /\ stages' = Append(stages, ready)
    /\ left' = [p \in Pairs |->
                   IF p[1] \in ready /\ edges[p] > 0 THEN left[p] - 1 ELSE left[p]]
    /\ ready' = {n \in nodes : ~Free(left, n) /\ Free(left', n)}
    /\ UNCHANGED <<phase, graph, search, pool>>

\* One edge per neighbour of a ready node is taken off, and the neighbours that
\* this frees are ready next.
NextStage ==
    /\ phase = "stages"
    /\ ready # {}
    /\ stages' = Append(stages, ready)
    /\ left' = [p \in Pairs |-> IF p[1] \in ready THEN left[p] - edges[p] ELSE left[p]]
    /\ ready' = {n \in nodes : ~Free(left, n) /\ Free(left', n)}
    /\ UNCHANGED <<phase, graph, search, pool>>

StagesEnd ==
    /\ phase = "stages"
    /\ ready = {}
    /\ phase' = "run"
    /\ UNCHANGED <<graph, search, kahn, pool>>

-----------------------------------------------------------------------------
(* run: the stages.                                                        *)

\* Every node of the stage is submitted with a copy of the outputs so far (a
\* stage of one node runs in place, which is a pool of one).
OpenStage ==
    /\ phase = "run"
    /\ success
    /\ stage <= Len(stages)
    /\ phase' = "pool"
    /\ job' = [n \in NodeIds |-> IF n \in Stage THEN "queued" ELSE job[n]]
    /\ saw' = [n \in NodeIds |-> IF n \in Stage THEN outputs ELSE saw[n]]
    /\ UNCHANGED <<graph, search, kahn, stage, result, outputs, success>>

\* Mutated: the nodes share the outputs and read them when they start.
StartNodeShared(n) ==
    /\ phase = "pool"
    /\ job[n] = "queued"
    /\ Cardinality(Running) < MaxParallel
    /\ job' = [job EXCEPT ![n] = "running"]
    /\ saw' = [saw EXCEPT ![n] = outputs]
    /\ UNCHANGED <<phase, graph, search, kahn, stage, result, outputs, success>>

\* A worker of the pool takes a node up.
StartNode(n) ==
    /\ phase = "pool"
    /\ job[n] = "queued"
    /\ Cardinality(Running) < MaxParallel
    /\ job' = [job EXCEPT ![n] = "running"]
    /\ UNCHANGED <<phase, graph, search, kahn, stage, result, outputs, saw, success>>

\* _execute_node returns: whatever is raised in it becomes a failed step.
FinishNode(n, r) ==
    /\ job[n] = "running"
    /\ job' = [job EXCEPT ![n] = "returned"]
    /\ result' = [result EXCEPT ![n] = r]
    /\ UNCHANGED <<phase, graph, search, kahn, stage, outputs, saw, success>>

\* Mutated: a failed step is not collected.
CollectSuccess(n) ==
    /\ phase = "pool"
    /\ job[n] = "returned"
    /\ result[n] = "ok"
    /\ job' = [job EXCEPT ![n] = "collected"]
    /\ outputs' = outputs \cup {n}
    /\ UNCHANGED <<phase, graph, search, kahn, stage, result, saw, success>>

\* as_completed yields a future that is done: its output is kept, also that of a
\* failed step, while other nodes of the stage wait or run.
Collect(n) ==
    /\ phase = "pool"
    /\ job[n] = "returned"
    /\ job' = [job EXCEPT ![n] = "collected"]
    /\ outputs' = outputs \cup {n}
    /\ success' = (success /\ result[n] = "ok")
    /\ UNCHANGED <<phase, graph, search, kahn, stage, result, saw>>

\* The pool is left when all its futures have been collected.
CloseStage ==
    /\ phase = "pool"
    /\ \A n \in Stage : job[n] = "collected"
    /\ phase' = "run"
    /\ stage' = stage + 1
    /\ UNCHANGED <<graph, search, kahn, job, result, outputs, saw, success>>

\* After the last stage, or after a stage with a failure.
EndRun ==
    /\ phase = "run"
    /\ ~success \/ stage > Len(stages)
    /\ phase' = "done"
    /\ UNCHANGED <<graph, search, kahn, pool>>

\* A listener of the bus raises, and publish passes it on to run: at WORKFLOW_START,
\* at WORKFLOW_END, or at the events of a node that is alone in its stage, which
\* runs in run's own thread.  In a pool the future keeps it (FinishNode).
ListenerRaises ==
    /\ \/ phase = "stages" /\ stages = <<>>
       \/ phase = "run" /\ (~success \/ stage > Len(stages))
       \/ phase = "pool" /\ \E n \in Stage : Stage = {n} /\ job[n] \in {"queued", "returned"}
    /\ phase' = "raised"
    /\ UNCHANGED <<graph, search, kahn, pool>>

-----------------------------------------------------------------------------
RunStep ==
    \/ Ascend \/ Validated \/ NextStage \/ StagesEnd
    \/ OpenStage \/ CloseStage \/ EndRun
    \/ \E n \in NodeIds :
         Visit(n) \/ Descend(n) \/ FindCycle(n) \/ StartNode(n) \/ Collect(n)

NodeReturns == \E n \in NodeIds, r \in {"ok", "failed"} : FinishNode(n, r)

Next ==
    \/ \E n \in NodeIds : AddNode(n)
    \/ \E m, n \in NodeIds : AddEdge(m, n)
    \/ BeginRun
    \/ RunStep
    \/ ListenerRaises
    \/ NodeReturns

Spec == Init /\ [][Next]_vars

\* The run goes on by itself, and every node returns: default_node_timeout does
\* not help it to, since it is only given to futures that are done.
FairSpec == Spec /\ WF_vars(RunStep) /\ WF_vars(NodeReturns)

-----------------------------------------------------------------------------
(* Properties.                                                             *)

TypeOK ==
    /\ phase \in {"build", "dfs", "rejected", "stages", "run", "pool", "done", "raised"}
    /\ nodes \subseteq NodeIds
    /\ edges \in [Pairs -> Nat]
    /\ size \in Nat
    /\ visited \subseteq NodeIds
    /\ path \in Seq(NodeIds)
    /\ left \in [Pairs -> Nat]
    /\ ready \subseteq NodeIds
    /\ stages \in Seq(SUBSET NodeIds)
    /\ stage \in Nat \ {0}
    /\ job \in [NodeIds -> {"idle", "queued", "running", "returned", "collected"}]
    /\ result \in [NodeIds -> {"none", "ok", "failed"}]
    /\ outputs \subseteq NodeIds
    /\ saw \in [NodeIds -> SUBSET NodeIds]
    /\ success \in BOOLEAN

\* No cycle: every non-empty set of nodes has a member without a predecessor in
\* the set.  The definition knows nothing of searches and orders.
Acyclic ==
    \A S \in SUBSET nodes : S # {} => \E n \in S : \A m \in S : ~Arc(m, n)

\* validate turns a graph away only for a cycle, and lets none pass: for every
\* graph, with loops and duplicate edges, and every order of the search.
VerdictRight ==
    /\ phase = "rejected" => ~Acyclic
    /\ phase \in {"stages", "run", "pool", "done", "raised"} => Acyclic

\* A node that has been submitted was handed the outputs of exactly the earlier
\* stages, all of them successes, although those of its stage mates come in
\* while it still waits for a worker: what it sees does not depend on timing,
\* and nothing is started behind a failure.
SeesEarlierStages ==
    \A j \in DOMAIN stages : \A n \in stages[j] :
        job[n] # "idle" =>
            /\ saw[n] = Earlier(j)
            /\ \A m \in Earlier(j) : result[m] = "ok"

\* The run keeps the promise: a node starts once and after all its predecessors
\* have succeeded, and the run ends when nothing runs, well only if no node was
\* left out.
arcs == {p \in Pairs : edges[p] > 0}
status == [n \in NodeIds |->
    IF job[n] \in {"idle", "queued"} THEN "todo"
    ELSE IF job[n] = "running" THEN "running" ELSE result[n]]
verdict ==
    IF phase = "rejected" THEN "invalid"
    ELSE IF phase = "raised" THEN "raised"
    ELSE IF phase # "done" THEN "none"
    ELSE IF success THEN "ok" ELSE "failed"

Promise == INSTANCE WorkflowPromise
KeepsPromise == Promise!Spec

\* A run that has begun ends, as long as its nodes return, or is left by an exception.
RunEnds == phase = "dfs" ~> phase \in {"rejected", "done", "raised"}
=============================================================================
