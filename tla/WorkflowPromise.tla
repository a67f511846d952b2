-------------------------- MODULE WorkflowPromise --------------------------
(***************************************************************************)
(* What a workflow run promises, without stages, pools and snapshots: a     *)
(* node starts when all its predecessors have succeeded, once; the run ends *)
(* when nothing runs any more, well exactly if every node has succeeded.    *)
(***************************************************************************)
CONSTANTS NodeIds

VARIABLES
    nodes,      \* the nodes of the graph
    arcs,       \* its arcs, as a set of pairs
    status,     \* of each node: "todo", "running", "ok" or "failed"
    verdict     \* "none" while it runs, then "ok", "failed", "invalid" or "raised"

pvars == <<nodes, arcs, status, verdict>>

Before(n) == {m \in nodes : <<m, n>> \in arcs}
Idle == \A n \in NodeIds : status[n] = "todo"

Init ==
    /\ nodes = {}
    /\ arcs = {}
    /\ status = [n \in NodeIds |-> "todo"]
    /\ verdict = "none"

\* The graph grows before the run.
Edit ==
    /\ Idle
    /\ verdict = "none"
    /\ nodes \subseteq nodes'
    /\ arcs \subseteq arcs'
    /\ UNCHANGED <<status, verdict>>

Start(n) ==
    /\ verdict = "none"
    /\ n \in nodes
    /\ status[n] = "todo"
    /\ \A m \in Before(n) : status[m] = "ok"
    /\ status' = [status EXCEPT ![n] = "running"]
    /\ UNCHANGED <<nodes, arcs, verdict>>

Finish(n, result) ==
    /\ status[n] = "running"
    /\ status' = [status EXCEPT ![n] = result]
    /\ UNCHANGED <<nodes, arcs, verdict>>

Reject ==
    /\ verdict = "none"
    /\ Idle
    /\ verdict' = "invalid"
    /\ UNCHANGED <<nodes, arcs, status>>

End ==
    /\ verdict = "none"
    /\ \A n \in NodeIds : status[n] # "running"
    /\ verdict' = IF \A n \in nodes : status[n] = "ok" THEN "ok" ELSE "failed"
    /\ verdict' = "failed" => \E n \in nodes : status[n] = "failed"
    /\ UNCHANGED <<nodes, arcs, status>>

\* The run raises instead of returning a result, when nothing runs.
Raise ==
    /\ verdict = "none"
    /\ \A n \in NodeIds : status[n] # "running"
    /\ verdict' = "raised"
    /\ UNCHANGED <<nodes, arcs, status>>

Next ==
    \/ Edit \/ Reject \/ End \/ Raise
    \/ \E n \in NodeIds : Start(n) \/ Finish(n, "ok") \/ Finish(n, "failed")

Spec == Init /\ [][Next]_pvars
=============================================================================
