------------------------- MODULE SpecSearch_proofs -------------------------
(***************************************************************************)
(* What holds of the search for every budget, plan and benchmark: only       *)
(* permitted operations change files, and the budget is overshot by less     *)
(* than a session.  Both follow from invariants that say what the phase of   *)
(* the session adds.                                                       *)
(***************************************************************************)
EXTENDS SpecSearch, TLAPS

\* Every edit of the plan has the tier of its operation.
PlanTiers == \A i \in DOMAIN plan : plan[i].op \in Ops /\ plan[i].tier = Tier(plan[i].op)

TierInv ==
    /\ changed \subseteq Ops
    /\ PlanTiers
    /\ OnlyPermittedChanges

\* The cost of a session by its phase, and a budget not yet used up while the
\* search goes on.
SessionMost == (MaxCost - 1) + 2 * CallCost
CostInv ==
    /\ cost \in Nat /\ total \in Nat /\ ended.cost \in Nat
    /\ pc \in {"start", "ready", "loop"} => cost = 0
    /\ pc = "diagnose" => cost <= MaxCost - 1
    /\ pc \in {"clusters", "plan"} => cost <= (MaxCost - 1) + CallCost
    /\ pc \in {"execute", "gate"} => cost <= SessionMost
    /\ ended.cost <= SessionMost
    /\ pc # "start" => stop = "none"
    /\ stop = "none" => total <= Budget - 1
    /\ OvershootBounded

\* What the loop that enqueues has passed lies in the queue, and it is not
\* entered before every edit has its outcome.
Passed == {plan[i].name : i \in {j \in 1..queued : outcomes[j] = "pending_review"}}
ReviewInv ==
    /\ pc \in {"ready", "diagnose", "clusters", "plan"} =>
        outcomes = <<>> /\ queue = {} /\ hasPending = FALSE
    /\ pc \in {"execute", "gate"} =>
        /\ queue = Passed
        /\ hasPending <=> queue # {}
        /\ queued > 0 => Len(outcomes) = Len(plan)
    /\ pc = "gate" => Len(outcomes) < Len(plan)
    /\ pc \notin {"start", "loop"} => ended.status = "none"
    /\ ReviewIsQueued

-----------------------------------------------------------------------------
(* The teacher's plan.                                                     *)

\* Whatever the teacher writes, assign_tiers gives each edit the tier of its
\* operation.
LEMMA AssignedTiers ==
    ASSUME NEW edits \in Plans, NEW i \in DOMAIN edits
    PROVE  /\ DOMAIN AssignTiers(edits) = DOMAIN edits
           /\ AssignTiers(edits)[i].op \in Ops
           /\ AssignTiers(edits)[i].tier = Tier(AssignTiers(edits)[i].op)
  <1>1. edits[i] \in Edit
    BY DEF Plans
  <1>2. AssignTiers(edits)[i] = [edits[i] EXCEPT !.tier = Tier(edits[i].op)]
    BY DEF AssignTiers
  <1>3. AssignTiers(edits)[i].op = edits[i].op
    BY <1>1, <1>2 DEF Edit
  <1>4. AssignTiers(edits)[i].tier = Tier(edits[i].op)
    BY <1>1, <1>2 DEF Edit
  <1> QED
    BY <1>1, <1>3, <1>4 DEF AssignTiers, Edit

\* A patch that becomes a replacement keeps a tier that is right for it.
LEMMA DowngradedTiers ==
    ASSUME NEW edits \in Plans, NEW p \in Downgrades(AssignTiers(edits)),
           NEW i \in DOMAIN p
    PROVE  p[i].op \in Ops /\ p[i].tier = Tier(p[i].op)
  <1> DEFINE a == AssignTiers(edits)
  <1>1. PICK large \in SUBSET {j \in DOMAIN a : a[j].op = "patch_prompt"} :
            p = [j \in DOMAIN a |->
                    IF j \in large THEN [a[j] EXCEPT !.op = "replace_prompt"] ELSE a[j]]
    BY DEF Downgrades
  <1>2. i \in DOMAIN a /\ i \in DOMAIN edits
    BY <1>1 DEF AssignTiers
  <1>3. a[i].op \in Ops /\ a[i].tier = Tier(a[i].op)
    BY <1>2, AssignedTiers
  <1>4. edits[i] \in Edit /\ a[i] = [edits[i] EXCEPT !.tier = Tier(edits[i].op)]
    BY <1>2 DEF Plans, AssignTiers
  <1>5. CASE i \in large
    <2>1. a[i].op = "patch_prompt" /\ p[i] = [a[i] EXCEPT !.op = "replace_prompt"]
      BY <1>1, <1>2, <1>5
    <2>2. p[i].op = "replace_prompt" /\ p[i].tier = a[i].tier
      BY <2>1, <1>4 DEF Edit
    <2> QED
      BY <2>1, <2>2, <1>3 DEF Tier, Ops
  <1>6. CASE i \notin large
    BY <1>1, <1>2, <1>3, <1>6
  <1> QED
    BY <1>5, <1>6

-----------------------------------------------------------------------------
(* Types.                                                                  *)

\* A session begins with nothing done, and only while the search goes on, which
\* it does not once the streak is long enough.
TypeInv ==
    /\ TypeOK
    /\ pc \in {"ready", "diagnose", "clusters", "plan"} => applied = {} /\ queued = 0
    /\ pc # "start" => stop = "none"
    /\ stop = "none" => streak < Stagnation

\* A plan of the teacher is a sequence of edits, before and after it is given
\* its tiers.
LEMMA PlanIsSeq ==
    ASSUME NEW edits \in Plans, NEW p \in Downgrades(AssignTiers(edits))
    PROVE  p \in Seq(Edit)
  <1> DEFINE a == AssignTiers(edits)
  <1>1. PICK n \in 0..MaxEdits : edits \in [1..n -> Edit]
    BY DEF Plans
  <1>2. a \in [1..n -> Edit]
    <2>1. \A i \in 1..n : Tier(edits[i].op) \in Tiers
      BY DEF Tier, Tiers
    <2> QED
      BY <1>1, <2>1 DEF AssignTiers, Edit
  <1>3. PICK large \in SUBSET {j \in DOMAIN a : a[j].op = "patch_prompt"} :
            p = [j \in DOMAIN a |->
                    IF j \in large THEN [a[j] EXCEPT !.op = "replace_prompt"] ELSE a[j]]
    BY DEF Downgrades
  <1>4. p \in [1..n -> Edit]
    <2> HIDE DEF a
    <2>1. \A j \in 1..n : [a[j] EXCEPT !.op = "replace_prompt"] \in Edit
      BY <1>2 DEF Edit, Ops
    <2> QED
      BY <1>2, <1>3, <2>1
  <1>5. n \in Nat
    BY SearchAssumption
  <1> QED
    BY <1>4, <1>5

LEMMA TypeInit == Init => TypeInv
  <1> SUFFICES ASSUME Init PROVE TypeInv
    OBVIOUS
  <1>1. /\ autonomy \in Autonomies /\ scored \in BOOLEAN /\ hasPending \in BOOLEAN
    BY DEF Init
  <1>0. plan \in Seq(Edit) /\ outcomes \in Seq(EditStatuses) /\ Len(plan) = 0
    BY DEF Init
  <1>2. 0 \in Nat /\ 0 \in Scores /\ 0 \in 0..(MaxTurns - 1) /\ 0 \in 0..Stagnation
    BY SearchAssumption DEF Scores
  <1>3. ended \in [status : Statuses, cost : Nat, score : Scores]
    BY <1>2 DEF Init, NoResult, Statuses
  <1>4. TypeOK
    BY <1>0, <1>1, <1>2, <1>3 DEF Init, TypeOK, Statuses
  <1> QED
    BY <1>4, SearchAssumption DEF Init, TypeInv

LEMMA TypeStep == TypeInv /\ [Next]_vars => TypeInv'
  <1> SUFFICES ASSUME TypeInv, [Next]_vars PROVE TypeInv'
    OBVIOUS
  <1> USE SearchAssumption DEF TypeInv, TypeOK, Statuses, Scores
  <1>1. CASE StartSession
    <2>1. plan' \in Seq(Edit) /\ Len(plan') = 0 /\ outcomes' \in Seq(EditStatuses)
      BY <1>1 DEF StartSession
    <2>4. hasPending' \in BOOLEAN
      BY <1>1 DEF StartSession
    <2>2. ended' \in [status : Statuses, cost : Nat, score : Scores]
      BY <1>1 DEF StartSession, NoResult
    <2>3. UNCHANGED <<autonomy, scored, turn, cost, before, changed, best, streak, total, stop>>
      BY <1>1 DEF StartSession, settings, effort, search
    <2> QED
      BY <1>1, <2>1, <2>2, <2>3, <2>4 DEF StartSession
  <1>2. CASE NotReady
    BY <1>2 DEF NotReady, Returned, settings, work, review, search
  <1>3. CASE Ready
    BY <1>3 DEF Ready, settings, work, review, search
  <1>4. CASE Teach
    BY <1>4 DEF Teach, TeacherTurn, Costs, settings, work, review, search
  <1>5. CASE NoClusters
    BY <1>5 DEF NoClusters, Returned, settings, work, review, search
  <1>6. CASE Clusters
    BY <1>6 DEF Clusters, settings, effort, work, review, search
  <1>7. CASE Propose
    <2>1. PICK edits \in Plans, c \in Costs : Plan(edits, c)
      BY <1>7 DEF Propose
    <2>2. plan' \in Seq(Edit)
      BY <2>1, PlanIsSeq DEF Plan
    <2> QED
      BY <2>1, <2>2 DEF Plan, Costs, settings, review, search
  <1>8. CASE PutOff \/ Skip \/ Unfit
    <2>1. PICK x \in EditStatuses : outcomes' = Append(outcomes, x)
      BY <1>8 DEF PutOff, Skip, Unfit, Outcome, EditStatuses
    <2>3. outcomes' \in Seq(EditStatuses)
      BY <2>1
    <2>2. UNCHANGED <<settings, pc, status, effort, plan, applied, changed, review, ended, search>>
      BY <1>8 DEF PutOff, Skip, Unfit
    <2> QED
      BY <2>2, <2>3 DEF settings, effort, review, search
  <1>9. CASE Apply
    <2>1. Next1 \in 1..Len(plan) /\ Current \in Edit
      BY <1>9 DEF Apply, AtEdit, Next1, Current
    <2>2. Current.op \in Ops
      BY <2>1 DEF Edit
    <2>3. applied' \subseteq 1..Len(plan) /\ changed' \subseteq Ops /\ plan' = plan
      BY <1>9, <2>1, <2>2 DEF Apply
    <2>4. outcomes' \in Seq(EditStatuses)
      <3>1. \/ outcomes' = outcomes
            \/ outcomes' = Append(outcomes, "applied")
        BY <1>9 DEF Apply, Outcome
      <3>2. "applied" \in EditStatuses
        BY DEF EditStatuses
      <3> QED
        BY <3>1, <3>2
    <2>5. pc' \in {"execute", "gate"} /\ pc = "execute"
      BY <1>9 DEF Apply, AtEdit
    <2> QED
      BY <1>9, <2>3, <2>4, <2>5 DEF Apply, settings, effort, review, search
  <1>10. CASE Judge
    <2>1. PICK x \in EditStatuses : outcomes' = Append(outcomes, x)
      BY <1>10 DEF Judge, Gate, Outcome, EditStatuses
    <2>2. outcomes' \in Seq(EditStatuses)
      BY <2>1
    <2> QED
      BY <1>10, <2>2 DEF Judge, Gate, settings, effort, review, search
  <1>11. CASE Enqueue
    <2>1. queued' \in 1..Len(plan) /\ plan[queued'] \in Edit
      BY <1>11 DEF Enqueue
    <2>2. plan[queued'].name \in Names
      BY <2>1 DEF Edit
    <2>3. queue' \subseteq Names /\ hasPending' \in BOOLEAN
      BY <1>11, <2>2 DEF Enqueue
    <2>4. pc = "execute" /\ UNCHANGED <<settings, pc, status, effort, work, ended, search>>
      BY <1>11 DEF Enqueue
    <2> QED
      BY <2>1, <2>3, <2>4 DEF settings, effort, work, search
  <1>12. CASE End
    BY <1>12 DEF End, EndSession, Returned, settings, work, review, search
  <1>13. CASE Raise
    BY <1>13 DEF Raise, Returned, settings, review, search
  <1>14. CASE AfterSession
    <2>1. total' \in Nat /\ best' \in Scores /\ streak' \in 0..Stagnation
          /\ stop' \in {"none", "failed", "stagnation", "budget", "raised"}
          /\ (stop' = "none" => streak' < Stagnation)
      BY SMTT(30), <1>14 DEF AfterSession
    <2> QED
      BY <1>14, <2>1 DEF AfterSession, settings, effort, work, review
  <1>15. CASE Escape
    BY <1>15 DEF Escape, NoResult, Statuses, Scores, settings, effort, work, review
  <1>16. CASE UNCHANGED vars
    BY <1>16 DEF vars, settings, effort, work, review, search
  <1> QED
    BY <1>1, <1>2, <1>3, <1>4, <1>5, <1>6, <1>7, <1>8, <1>9, <1>10, <1>11, <1>12, <1>13,
       <1>14, <1>15, <1>16 DEF Next, SessionStep

\* THEOREM: the variables keep their types; in particular no search goes on
\* after the session that makes the streak as long as stagnation_k.
THEOREM TypeCorrect == Spec => []TypeOK
  <1>1. TypeInv => TypeOK
    BY DEF TypeInv
  <1> QED
    BY TypeInit, TypeStep, <1>1, PTL DEF Spec

-----------------------------------------------------------------------------
(* Files change only as the autonomy mode permits.                         *)

LEMMA TierInit == Init => TierInv
  BY DEF Init, TierInv, PlanTiers, OnlyPermittedChanges

LEMMA TierStep == TypeInv /\ TierInv /\ [Next]_vars => TierInv'
  <1> SUFFICES ASSUME TypeInv, TierInv, [Next]_vars PROVE TierInv'
    OBVIOUS
  <1> USE DEF TierInv
  <1>1. CASE StartSession
    BY <1>1 DEF StartSession, settings, PlanTiers, OnlyPermittedChanges
  <1>2. CASE Propose
    <2>1. PICK edits \in Plans, c \in Costs : Plan(edits, c)
      BY <1>2 DEF Propose
    <2>2. plan' \in Downgrades(AssignTiers(edits))
      BY <2>1 DEF Plan
    <2>3. PlanTiers'
      BY <2>2, DowngradedTiers DEF PlanTiers
    <2>4. UNCHANGED <<autonomy, changed>>
      BY <2>1 DEF Plan, settings
    <2> QED
      BY <2>3, <2>4 DEF OnlyPermittedChanges
  <1>3. CASE Apply
    <2>1. Next1 \in DOMAIN plan /\ Current.op \in Ops /\ Current.tier = Tier(Current.op)
      <3>1. Next1 \in DOMAIN plan
        BY <1>3 DEF Apply, AtEdit, Next1, TypeInv, TypeOK
      <3> QED
        BY <3>1 DEF PlanTiers, Current
    <2>2. changed' = changed \cup {Current.op} /\ UNCHANGED <<plan, autonomy>>
      BY <1>3 DEF Apply, settings
    <2>3. autonomy # "manual" /\ (Current.tier = "review" => autonomy # "tiered")
          /\ Current.tier # "manual"
      BY <1>3 DEF Apply, ForReview, Refused
    <2>4. Tier(Current.op) \in Tiers
      BY <2>1 DEF Tier, Tiers
    <2>5. PlanTiers'
      BY <2>2 DEF PlanTiers
    <2>6. /\ autonomy # "manual"
          /\ \/ Tier(Current.op) = "auto"
             \/ Tier(Current.op) = "review" /\ autonomy = "auto"
      <3>1. autonomy \in {"manual", "tiered", "auto"}
        BY SearchAssumption DEF TypeInv, TypeOK
      <3> QED
        BY <2>1, <2>3, <2>4, <3>1 DEF Tiers
    <2>7. OnlyPermittedChanges'
      <3> SUFFICES ASSUME NEW op \in changed'
                   PROVE  /\ autonomy # "manual"
                          /\ \/ Tier(op) = "auto"
                             \/ Tier(op) = "review" /\ autonomy = "auto"
        BY <2>2 DEF OnlyPermittedChanges
      <3> QED
        BY <2>2, <2>6 DEF OnlyPermittedChanges
    <2> QED
      BY <2>1, <2>2, <2>5, <2>7
  <1>4. CASE UNCHANGED <<plan, autonomy, changed>>
    BY <1>4 DEF PlanTiers, OnlyPermittedChanges
  <1>5. CASE Next /\ ~StartSession /\ ~Propose /\ ~Apply
    <2>1. UNCHANGED <<plan, autonomy, changed>>
      BY <1>5 DEF Next, SessionStep, NotReady, Ready, Teach, TeacherTurn, NoClusters, Clusters,
         PutOff, Skip, Unfit, Judge, Gate, Enqueue, End, EndSession, Raise, Escape,
         AfterSession, settings, work
    <2> QED
      BY <2>1, <1>4
  <1>6. CASE UNCHANGED vars
    BY <1>6, <1>4 DEF vars, settings, work
  <1> QED
    BY <1>1, <1>2, <1>3, <1>5, <1>6 DEF Next

\* THEOREM: whatever tiers the teacher writes, in however many sessions, files
\* change only by operations that the autonomy mode permits.
THEOREM PermittedChanges == Spec => []OnlyPermittedChanges
  <1>1. TierInv => OnlyPermittedChanges
    BY DEF TierInv
  <1> QED
    BY TypeInit, TypeStep, TierInit, TierStep, <1>1, PTL DEF Spec

-----------------------------------------------------------------------------
(* The budget.                                                             *)

LEMMA CostInit == Init => CostInv
  BY SearchAssumption DEF Init, CostInv, SessionMost, OvershootBounded, NoResult

LEMMA CostStep == CostInv /\ [Next]_vars => CostInv'
  <1> SUFFICES ASSUME CostInv, [Next]_vars PROVE CostInv'
    OBVIOUS
  <1> USE SearchAssumption DEF CostInv, SessionMost, OvershootBounded
  <1>1. CASE StartSession
    BY <1>1 DEF StartSession, effort, search, NoResult
  <1>2. CASE NotReady \/ NoClusters \/ End \/ Raise
    BY <1>2 DEF NotReady, NoClusters, End, EndSession, Raise, Returned, search
  <1>3. CASE Ready \/ Clusters
    BY <1>3 DEF Ready, Clusters, effort, search
  <1>4. CASE Teach
    <2>1. PICK c \in Costs : TeacherTurn(c)
      BY <1>4 DEF Teach
    <2>2. c \in Nat /\ c <= CallCost
      BY DEF Costs
    <2>3. cost' = cost + c /\ pc = "diagnose" /\ UNCHANGED <<ended, search>>
      BY <2>1 DEF TeacherTurn
    <2>4. \/ pc' = "clusters"
          \/ pc' = "diagnose" /\ cost' < MaxCost
      BY <2>1 DEF TeacherTurn
    <2> QED
      BY <2>2, <2>3, <2>4 DEF search
  <1>5. CASE Propose
    <2>1. PICK edits \in Plans, c \in Costs : Plan(edits, c)
      BY <1>5 DEF Propose
    <2>2. c \in Nat /\ c <= CallCost
      BY DEF Costs
    <2> QED
      BY <2>1, <2>2 DEF Plan, search
  <1>6. CASE PutOff \/ Skip \/ Unfit \/ Apply \/ Judge \/ Enqueue
    BY <1>6 DEF PutOff, Skip, Unfit, Apply, Judge, Gate, Enqueue, AtEdit, effort, search
  <1>7. CASE AfterSession
    <2>1. total' = total + ended.cost /\ pc = "loop" /\ pc' = "start" /\ UNCHANGED <<cost, ended>>
      BY <1>7 DEF AfterSession, effort
    <2>2. stop' = "none" => total' < Budget
      BY <1>7, <2>1 DEF AfterSession
    <2> QED
      BY <2>1, <2>2
  <1>8. CASE Escape
    BY <1>8 DEF Escape, NoResult, effort
  <1>9. CASE UNCHANGED vars
    BY <1>9 DEF vars, effort, search
  <1> QED
    BY <1>1, <1>2, <1>3, <1>4, <1>5, <1>6, <1>7, <1>8, <1>9 DEF Next, SessionStep

\* THEOREM: for every budget and every price of a call, the counted cost of a
\* search exceeds its budget by less than one session.
THEOREM LessThanASessionOver == Spec => []OvershootBounded
  <1>1. CostInv => OvershootBounded
    BY DEF CostInv
  <1> QED
    BY CostInit, CostStep, <1>1, PTL DEF Spec

-----------------------------------------------------------------------------
(* The queue for the user.                                                 *)

LEMMA ReviewInit == Init => ReviewInv
  BY DEF Init, ReviewInv, ReviewIsQueued, NoResult

LEMMA ReviewStep == TypeInv /\ ReviewInv /\ [Next]_vars => ReviewInv'
  <1> SUFFICES ASSUME TypeInv, ReviewInv, [Next]_vars PROVE ReviewInv'
    OBVIOUS
  <1>t. plan \in Seq(Edit) /\ outcomes \in Seq(EditStatuses) /\ queued \in 0..Len(plan)
        /\ hasPending \in BOOLEAN /\ Len(outcomes) \in Nat /\ Len(plan) \in Nat
        /\ ended \in [status : Statuses, cost : Nat, score : Scores]
        /\ (pc \in {"ready", "diagnose", "clusters", "plan"} => queued = 0)
    BY DEF TypeInv, TypeOK
  <1> USE DEF ReviewInv
  <1>1. CASE StartSession
    BY <1>1 DEF StartSession, ReviewIsQueued, NoResult
  <1>2. CASE NotReady \/ NoClusters \/ Raise
    BY <1>2 DEF NotReady, NoClusters, Raise, Returned, ReviewIsQueued, review
  <1>3. CASE Ready \/ Teach \/ Clusters
    BY <1>3 DEF Ready, Teach, TeacherTurn, Clusters, ReviewIsQueued, work, review
  <1>4. CASE Propose
    <2>1. pc = "plan" /\ pc' = "execute" /\ UNCHANGED <<outcomes, review, ended>>
      BY <1>4 DEF Propose, Plan
    <2>2. Passed' = {}
      BY <2>1, <1>t DEF Passed, review
    <2> QED
      BY <2>1, <2>2, <1>t DEF ReviewIsQueued, review
  <1>5. CASE PutOff \/ Skip \/ Unfit \/ Apply \/ Judge
    <2>1. /\ pc \in {"execute", "gate"} /\ pc' \in {"execute", "gate"}
          /\ Len(outcomes) < Len(plan)
          /\ UNCHANGED <<plan, review, ended>>
      BY <1>5, <1>t DEF PutOff, Skip, Unfit, Apply, Judge, Gate, AtEdit, Next1
    <2>2. queued = 0 /\ queued' = 0
      BY <2>1, <1>t DEF review
    <2>3. Passed = {} /\ Passed' = {}
      BY <2>2 DEF Passed
    <2>4. pc' = "gate" => Len(outcomes') < Len(plan')
      BY <1>5, <2>1 DEF PutOff, Skip, Unfit, Apply, Judge, Gate, AtEdit
    <2> QED
      BY <2>1, <2>2, <2>3, <2>4 DEF ReviewIsQueued, review
  <1>6. CASE Enqueue
    <2>1. /\ pc = "execute" /\ pc' = "execute" /\ Len(outcomes) = Len(plan)
          /\ queued' = queued + 1 /\ queued' \in 1..Len(plan)
          /\ UNCHANGED <<plan, outcomes, ended>>
      BY <1>6, <1>t DEF Enqueue, work
    <2>2. 1..queued' = 1..queued \cup {queued'}
      BY <2>1, <1>t
    <2>3. CASE outcomes[queued'] = "pending_review"
      <3>1. queue' = queue \cup {plan[queued'].name} /\ hasPending' = TRUE
        BY <1>6, <2>3 DEF Enqueue
      <3>2. Passed' = Passed \cup {plan[queued'].name}
        BY <2>1, <2>2, <2>3 DEF Passed
      <3> QED
        BY <2>1, <3>1, <3>2 DEF ReviewIsQueued
    <2>4. CASE outcomes[queued'] # "pending_review"
      <3>1. UNCHANGED <<queue, hasPending>>
        BY <1>6, <2>4 DEF Enqueue
      <3>2. Passed' = Passed
        BY <2>1, <2>2, <2>4 DEF Passed
      <3> QED
        BY <2>1, <3>1, <3>2 DEF ReviewIsQueued
    <2> QED
      BY <2>3, <2>4
  <1>7. CASE End
    <2>1. /\ pc = "execute" /\ pc' = "loop" /\ Len(outcomes) = Len(plan) /\ queued = Len(plan)
          /\ ended'.status = (IF hasPending THEN "awaiting_review" ELSE "completed")
          /\ UNCHANGED <<plan, outcomes, queue>>
      BY <1>7 DEF End, EndSession, Returned, work, review
    <2>2. queue = {plan[i].name : i \in {j \in DOMAIN plan : outcomes[j] = "pending_review"}}
      BY <2>1, <1>t DEF Passed
    <2> QED
      BY <2>1, <2>2, <1>t DEF ReviewIsQueued
  <1>8. CASE AfterSession \/ UNCHANGED vars
    <2>1. UNCHANGED <<plan, outcomes, queue, queued, hasPending, ended>>
          /\ (pc' # pc => pc = "loop" /\ pc' = "start")
      BY <1>8 DEF AfterSession, vars, work, review
    <2> QED
      BY <2>1 DEF ReviewIsQueued, Passed
  <1>9. CASE Escape
    BY <1>9 DEF Escape, ReviewIsQueued, NoResult
  <1> QED
    BY <1>1, <1>2, <1>3, <1>4, <1>5, <1>6, <1>7, <1>8, <1>9 DEF Next, SessionStep

\* THEOREM: however many edits a plan has and whatever names they bear, a
\* session that ended well awaits the review of exactly what lies in the queue.
THEOREM QueueAwaitsReview == Spec => []ReviewIsQueued
  <1>1. ReviewInv => ReviewIsQueued
    BY DEF ReviewInv
  <1> QED
    BY TypeInit, TypeStep, ReviewInit, ReviewStep, <1>1, PTL DEF Spec
=============================================================================
