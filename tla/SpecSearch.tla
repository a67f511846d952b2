---------------------------- MODULE SpecSearch ----------------------------
(***************************************************************************)
(* The search for a better specification (learning/spec_search): a loop of  *)
(* sessions, each of which lets a teacher diagnose the traces and plan       *)
(* edits, applies what the autonomy mode allows, keeps or rejects each edit  *)
(* by a benchmark and queues the rest for the user.                          *)
(*                                                                         *)
(* Abstractions.  An edit is its operation, its tier and the name the        *)
(* teacher gave it; operations are one per tier.  Costs and scores are small *)
(* numbers; a benchmark may return any of them and may see a regression.     *)
(* Costs of the diagnostic tools and of the fallback call, which the code    *)
(* does not count, are left out.  The queue is that of the session in        *)
(* progress: file names carry the session, so no other session touches it.   *)
(***************************************************************************)
EXTENDS Naturals, Sequences, FiniteSets

CONSTANTS
    Names,          \* the ids the teacher gives to edits; it may use one twice
    Autonomies,     \* the modes the orchestrator may have been created with
    MaxEdits,       \* bound: edits of a plan
    MaxTurns,       \* max_tool_calls of a diagnosis
    MaxCost,        \* max_cost_usd of a diagnosis
    CallCost,       \* bound: cost of one call of the teacher
    MaxScore,       \* the best score of the benchmark
    Stagnation,     \* stagnation_k
    Budget          \* max_total_cost_usd

ASSUME SearchAssumption ==
    /\ Autonomies \subseteq {"manual", "tiered", "auto"}
    /\ MaxEdits \in Nat /\ CallCost \in Nat /\ MaxScore \in Nat
    /\ MaxTurns \in Nat \ {0} /\ MaxCost \in Nat \ {0}
    /\ Stagnation \in Nat \ {0} /\ Budget \in Nat \ {0}

VARIABLES
    autonomy,   \* _autonomy
    scored,     \* whether there is a scorer
    pc,         \* where the session is
    status,     \* the session's status
    turn,       \* turns of the diagnosis
    cost,       \* cost of the session so far
    before,     \* benchmark_before
    plan,       \* plan.edits
    outcomes,   \* statuses of the edits dealt with
    applied,    \* indices of the plan's edits that are in the files
    changed,    \* operations by which the files were ever changed
    queue,      \* names of the session's files in pending_review
    queued,     \* edits passed by the loop that enqueues
    hasPending, \* has_pending
    ended,      \* what run returns: the session's status, its cost and its score
    best, streak, total, stop       \* LoopResult and no_improve_streak

settings == <<autonomy, scored>>
effort == <<turn, cost, before>>
work == <<plan, outcomes, applied, changed>>
review == <<queue, queued, hasPending>>
search == <<best, streak, total, stop>>
vars == <<settings, pc, status, effort, work, review, ended, search>>

-----------------------------------------------------------------------------
Tiers == {"auto", "review", "manual"}
Ops == {"set_param", "patch_prompt", "replace_prompt", "lora_finetune"}
Edit == [name : Names, op : Ops, tier : Tiers]
Plans == UNION {[1..n -> Edit] : n \in 0..MaxEdits}
Scores == 0..MaxScore
Costs == 0..CallCost

\* TIER_TABLE.
Tier(op) ==
    CASE op = "set_param" -> "auto"
      [] op = "lora_finetune" -> "manual"
      [] OTHER -> "review"

\* assign_tiers: the tier the teacher named is overwritten.
AssignAsNamed(edits) == edits           \* Mutated: the teacher's tier stays.
AssignTiers(edits) ==
    [i \in DOMAIN edits |-> [edits[i] EXCEPT !.tier = Tier(edits[i].op)]]

\* maybe_downgrade_to_replace: a patch that is large or does not apply becomes
\* a replacement; its tier is not looked up again.
Downgrades(edits) ==
    {[i \in DOMAIN edits |->
        IF i \in large THEN [edits[i] EXCEPT !.op = "replace_prompt"] ELSE edits[i]] :
        large \in SUBSET {i \in DOMAIN edits : edits[i].op = "patch_prompt"}}

\* Edits that wait for the user, and edits that nobody may apply.
ForReview(edit) ==
    \/ autonomy = "manual"
    \/ autonomy = "tiered" /\ edit.tier = "review"
Refused(edit) == autonomy # "manual" /\ edit.tier = "manual"

-----------------------------------------------------------------------------
NoResult == [status |-> "none", cost |-> 0, score |-> 0]

Init ==
    /\ autonomy \in Autonomies
    /\ scored \in BOOLEAN
    /\ pc = "start" /\ status = "none"
    /\ turn = 0 /\ cost = 0 /\ before = 0
    /\ plan = <<>> /\ outcomes = <<>> /\ applied = {}
    /\ queue = {} /\ queued = 0 /\ hasPending = FALSE
    /\ changed = {}
    /\ ended = NoResult
    /\ best = 0 /\ streak = 0 /\ total = 0 /\ stop = "none"

\* SpecSearchLoop.run calls orchestrator.run: a session of its own id begins.
StartSession ==
    /\ pc = "start" /\ stop = "none"
    /\ pc' = "ready"
    /\ status' = "none"
    /\ plan' = <<>> /\ outcomes' = <<>> /\ applied' = {}
    /\ queue' = {} /\ queued' = 0 /\ hasPending' = FALSE
    /\ ended' = NoResult
    /\ UNCHANGED <<settings, effort, changed, search>>

\* run returns what the loop reads of the session; its locals are gone.
Returned(s, c, score) ==
    /\ status' = s
    /\ ended' = [status |-> s, cost |-> c, score |-> score]
    /\ pc' = "loop"
    /\ turn' = 0 /\ cost' = 0 /\ before' = 0

\* Too few traces.
NotReady ==
    /\ pc = "ready"
    /\ Returned("failed", 0, 0)
    /\ UNCHANGED <<settings, work, review, search>>

\* The benchmark before, if there is a scorer; then the diagnosis begins.
Ready ==
    /\ pc = "ready"
    /\ before' \in IF scored THEN Scores ELSE {0}
    /\ status' = "diagnosing"
    /\ pc' = "diagnose"
    /\ UNCHANGED <<settings, turn, cost, work, review, ended, search>>

\* TeacherAgent.run: a turn, which may be the last because the teacher calls no
\* tool, because the budget of the diagnosis is used, or because turns are.
TeacherTurn(c) ==
    /\ pc = "diagnose"
    /\ cost' = cost + c
    /\ \/ pc' = "clusters" /\ turn' = 0
       \/ /\ cost' < MaxCost /\ turn + 1 < MaxTurns
          /\ turn' = turn + 1
          /\ UNCHANGED pc
    /\ UNCHANGED <<settings, status, before, work, review, ended, search>>

\* The diagnosis, its fallback call included, names no cluster.
NoClusters ==
    /\ pc = "clusters"
    /\ Returned("failed", cost, 0)
    /\ UNCHANGED <<settings, work, review, search>>

Clusters ==
    /\ pc = "clusters"
    /\ status' = "planning"
    /\ pc' = "plan"
    /\ UNCHANGED <<settings, effort, work, review, ended, search>>

\* LearningPlanner.run: one call of the teacher, whose edits get their tiers.
Plan(edits, c) ==
    /\ pc = "plan"
    /\ cost' = cost + c
    /\ plan' \in Downgrades(AssignTiers(edits))
    /\ status' = "executing"
    /\ pc' = "execute"
    /\ UNCHANGED <<settings, turn, before, outcomes, applied, changed, review, ended, search>>

-----------------------------------------------------------------------------
(* The edits of the plan, in order.                                        *)

Next1 == Len(outcomes) + 1
Current == plan[Next1]
Outcome(s) == outcomes' = Append(outcomes, s)
AtEdit == pc = "execute" /\ Next1 <= Len(plan)

PutOff ==
    /\ AtEdit /\ ForReview(Current)
    /\ Outcome("pending_review")
    /\ UNCHANGED <<settings, pc, status, effort, plan, applied, changed, review, ended, search>>

Skip ==
    /\ AtEdit /\ Refused(Current)
    /\ Outcome("skipped")
    /\ UNCHANGED <<settings, pc, status, effort, plan, applied, changed, review, ended, search>>

\* validate refuses the edit or apply raises before it writes the file.
Unfit ==
    /\ AtEdit /\ ~ForReview(Current) /\ ~Refused(Current)
    /\ Outcome("rejected_by_gate")
    /\ UNCHANGED <<settings, pc, status, effort, plan, applied, changed, review, ended, search>>

\* apply writes the file; without a scorer that is the end of it.
Apply ==
    /\ AtEdit /\ ~ForReview(Current) /\ ~Refused(Current)
    /\ applied' = applied \cup {Next1}
    /\ changed' = changed \cup {Current.op}
    /\ IF scored
       THEN pc' = "gate" /\ UNCHANGED outcomes
       ELSE Outcome("applied") /\ UNCHANGED pc
    /\ UNCHANGED <<settings, status, effort, plan, review, ended, search>>

\* BenchmarkGate.evaluate, against the snapshot of before the session.  The
\* rollback of a rejected edit is the applier's, and no applier undoes anything.
Gate(after, regressed) ==
    /\ pc = "gate"
    /\ pc' = "execute"
    /\ Outcome(IF after > before /\ ~regressed THEN "applied" ELSE "rejected_by_gate")
    /\ UNCHANGED <<settings, status, effort, plan, applied, changed, review, ended, search>>

-----------------------------------------------------------------------------
(* The end of a session and of the search.                                 *)

\* The loop over zip(outcomes, plan.edits).
EnqueueLast ==          \* Mutated: the last edit alone decides has_pending.
    /\ pc = "execute" /\ Len(outcomes) = Len(plan) /\ queued < Len(plan)
    /\ queued' = queued + 1
    /\ hasPending' = (outcomes[queued'] = "pending_review")
    /\ queue' = IF hasPending' THEN queue \cup {plan[queued'].name} ELSE queue
    /\ UNCHANGED <<settings, pc, status, effort, work, ended, search>>

Enqueue ==
    /\ pc = "execute" /\ Len(outcomes) = Len(plan) /\ queued < Len(plan)
    /\ queued' = queued + 1
    /\ IF outcomes[queued'] = "pending_review"
       THEN queue' = queue \cup {plan[queued'].name} /\ hasPending' = TRUE
       ELSE UNCHANGED <<queue, hasPending>>
    /\ UNCHANGED <<settings, pc, status, effort, work, ended, search>>

\* The benchmark after and the final status, which is saved.
EndSession(after) ==
    /\ pc = "execute" /\ Len(outcomes) = Len(plan) /\ queued = Len(plan)
    /\ Returned(IF hasPending THEN "awaiting_review" ELSE "completed", cost,
                IF scored THEN after ELSE 0)
    /\ UNCHANGED <<settings, work, review, search>>

\* Whatever raises inside of run: the session object of the last phase is saved
\* as failed, without outcomes and without its cost.
Raise ==
    /\ pc \in {"ready", "diagnose", "clusters", "plan", "execute", "gate"}
    /\ outcomes' = <<>>
    /\ Returned("failed", 0, 0)
    /\ UNCHANGED <<settings, plan, applied, changed, review, search>>

\* An exception that run does not catch, before its try or, however the session
\* ended, in its last save_session or the writing of session.json: it leaves
\* SpecSearchLoop.run as well, and nobody gets a result.
Escape ==
    /\ pc \in {"ready", "loop"}
    /\ pc' = "start"
    /\ ended' = NoResult
    /\ stop' = "raised"
    /\ UNCHANGED <<settings, status, effort, work, review, best, streak, total>>

\* SpecSearchLoop.run reads what the session returned.
AfterKeepsBest ==       \* Mutated: the best score is not remembered.
    /\ pc = "loop"
    /\ pc' = "start"
    /\ total' = total + ended.cost
    /\ IF ended.status = "failed"
       THEN stop' = "failed" /\ UNCHANGED <<best, streak>>
       ELSE /\ streak' = IF ended.score > best THEN 0 ELSE streak + 1
            /\ UNCHANGED best
            /\ stop' = IF streak' >= Stagnation THEN "stagnation"
                        ELSE IF total' >= Budget THEN "budget" ELSE "none"
    /\ UNCHANGED <<settings, status, effort, work, review, ended>>

AfterOverBudget ==      \* Mutated: the budget has to be exceeded.
    /\ pc = "loop"
    /\ pc' = "start"
    /\ total' = total + ended.cost
    /\ IF ended.status = "failed"
       THEN stop' = "failed" /\ UNCHANGED <<best, streak>>
       ELSE LET better == ended.score > best IN
            /\ best' = IF better THEN ended.score ELSE best
            /\ streak' = IF better THEN 0 ELSE streak + 1
            /\ stop' = IF streak' >= Stagnation THEN "stagnation"
                        ELSE IF total' > Budget THEN "budget" ELSE "none"
    /\ UNCHANGED <<settings, status, effort, work, review, ended>>

AfterSession ==
    /\ pc = "loop"
    /\ pc' = "start"
    /\ total' = total + ended.cost
    /\ IF ended.status = "failed"
       THEN stop' = "failed" /\ UNCHANGED <<best, streak>>
       ELSE LET better == ended.score > best IN
            /\ best' = IF better THEN ended.score ELSE best
            /\ streak' = IF better THEN 0 ELSE streak + 1
            /\ stop' = IF streak' >= Stagnation THEN "stagnation"
                        ELSE IF total' >= Budget THEN "budget" ELSE "none"
    /\ UNCHANGED <<settings, status, effort, work, review, ended>>

Teach == \E c \in Costs : TeacherTurn(c)
Propose == \E edits \in Plans, c \in Costs : Plan(edits, c)
Judge == \E after \in Scores, regressed \in BOOLEAN : Gate(after, regressed)
End == \E after \in Scores : EndSession(after)
SessionStep ==
    \/ NotReady \/ Ready \/ Teach \/ NoClusters \/ Clusters \/ Propose
    \/ PutOff \/ Skip \/ Unfit \/ Apply \/ Judge \/ Enqueue \/ End \/ Raise
Next == StartSession \/ SessionStep \/ AfterSession \/ Escape

Spec == Init /\ [][Next]_vars
\* The teacher, the benchmark and the files answer or raise: run goes on.
FairSpec == Spec /\ WF_vars(Next)

-----------------------------------------------------------------------------
Statuses == {"none", "diagnosing", "planning", "executing", "failed", "completed", "awaiting_review"}
EditStatuses == {"applied", "rejected_by_gate", "pending_review", "skipped"}

\* The values of the variables: no turn beyond the last, no outcome beyond the
\* plan, no session after the one that makes the streak as long as stagnation.
TypeOK ==
    /\ autonomy \in Autonomies /\ scored \in BOOLEAN
    /\ pc \in {"start", "ready", "diagnose", "clusters", "plan", "execute", "gate", "loop"}
    /\ status \in Statuses
    /\ turn \in 0..(MaxTurns - 1) /\ cost \in Nat /\ before \in Scores
    /\ plan \in Seq(Edit)
    /\ outcomes \in Seq(EditStatuses)
    /\ applied \subseteq 1..Len(plan) /\ changed \subseteq Ops
    /\ queue \subseteq Names /\ queued \in 0..Len(plan) /\ hasPending \in BOOLEAN
    /\ ended \in [status : Statuses, cost : Nat, score : Scores]
    /\ best \in Scores /\ streak \in 0..Stagnation /\ total \in Nat
    /\ stop \in {"none", "failed", "stagnation", "budget", "raised"}

\* Whatever tiers the teacher writes into its edits, and in however many
\* sessions: no file is changed in manual mode, and none by an operation of the
\* review tier unless the mode is auto, nor by one of the manual tier ever.
OnlyPermittedChanges ==
    \A op \in changed :
        /\ autonomy # "manual"
        /\ \/ Tier(op) = "auto"
           \/ Tier(op) = "review" /\ autonomy = "auto"

\* A session that ended well awaits the review of exactly what lies in the
\* queue: it says awaiting_review if and only if one of its files is there, and
\* every edit that was put off has a file under its name.
ReviewIsQueued ==
    ended.status \in {"completed", "awaiting_review"} =>
        /\ ended.status = "awaiting_review" <=> queue # {}
        /\ queue = {plan[i].name : i \in {j \in DOMAIN plan : outcomes[j] = "pending_review"}}

\* The search overshoots its budget by less than a session: a diagnosis that was
\* below its own budget before its last call, that call, and the plan.
OvershootBounded ==
    total <= (Budget - 1) + (MaxCost - 1) + 2 * CallCost

\* Every search ends: a better score cannot be had for ever, and sessions
\* without one are counted.
SearchEnds == <>(stop # "none")

\* What the guide says of rejected edits ("rejected edits roll back").
RejectedRollsBack ==
    ended.status \in {"completed", "awaiting_review"} =>
        \A i \in applied : outcomes[i] = "applied"
=============================================================================
