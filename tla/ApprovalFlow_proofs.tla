-------------------------- MODULE ApprovalFlow_proofs --------------------------
(***************************************************************************)
(* Theorems about ApprovalFlow, for every set of items, keys, tiers and    *)
(* processes and every number of rows.                                     *)
(***************************************************************************)
EXTENDS ApprovalFlow, TLAPS, WellFoundedInduction

-----------------------------------------------------------------------------
(* The row that is handled next is one of those listed.                    *)

LEMMA FirstIn ==
    ASSUME NEW rows, rows \subseteq Nat, rows # {}
    PROVE  First(rows) \in rows
<1> DEFINE Less == OpToRel(<, Nat)
<1>1. IsWellFoundedOn(Less, Nat)
  BY NatLessThanWellFounded
<1> HIDE DEF Less
<1>2. PICK a \in rows : \A b \in rows : ~(<<b, a>> \in Less)
  BY <1>1, WFMin
<1>3. \A b \in rows : ~(b < a)
  BY <1>2 DEF Less, OpToRel
<1>4. \A b \in rows : a <= b
  BY <1>3
<1> QED
  BY <1>4 DEF First

-----------------------------------------------------------------------------
(* Types.  Whoever is to handle a row has one.                             *)

RowInHand ==
    \A p \in Procs : pc[p] \in {"approve", "mark", "remember"} => todo[p] # {}

TypeInv == TypeOK /\ RowInHand

LEMMA ProcFacts ==
    /\ Runners \subseteq Agents /\ Execs \subseteq Agents
    /\ Agents \subseteq Procs /\ Repliers \subseteq Procs
    /\ Runners \cap Repliers = {} /\ Execs \cap Repliers = {}
    /\ Runners \cap Execs = {}
BY ProcsAssumption DEF Agents, Procs

LEMMA QueuedFacts ==
    ASSUME TypeOK
    PROVE  /\ count \in Nat /\ Queued \subseteq Actions
           /\ Queued \subseteq Nat
BY ConstantsAssumption DEF TypeOK, Queued, Actions

LEMMA FirstQueued ==
    ASSUME TypeOK, NEW p \in Procs, todo[p] # {}
    PROVE  First(todo[p]) \in todo[p] /\ First(todo[p]) \in Queued
<1>1. todo[p] \subseteq Queued
  BY DEF TypeOK
<1> QED
  BY <1>1, QueuedFacts, FirstIn

LEMMA InitTypes == Init => TypeInv
<1> SUFFICES ASSUME Init PROVE TypeInv
  OBVIOUS
<1>1. count \in 0 .. MaxActions /\ state \in [Actions -> Statuses \cup {"none"}]
  BY ConstantsAssumption DEF Init
<1>2. /\ about \in [Actions -> Proposals \cup {NoProposal}]
      /\ memory \in [Keys -> {"ask", "always_approve", "always_deny"}]
  BY DEF Init
<1>3. /\ pc \in [Procs -> Phases] /\ todo \in [Procs -> SUBSET Queued]
      /\ RowInHand
  BY DEF Init, Phases, RowInHand
<1>4. /\ unseen \in [Runners -> SUBSET Items]
      /\ auto \in [Runners -> SUBSET Queued]
      /\ open \in [Runners -> SUBSET Queued]
  BY DEF Init
<1>5. plan \in [Runners -> [what : Proposals \cup {NoProposal}, auto : BOOLEAN]]
  BY DEF Init, NoPlan
<1>6. reply \in [Repliers -> Replies]
  BY DEF Init, NoReply, Replies
<1>7. stale \in SUBSET Queued /\ consented \in SUBSET Queued /\ ran \in SUBSET Queued
  BY DEF Init
<1> QED
  BY <1>1, <1>2, <1>3, <1>4, <1>5, <1>6, <1>7 DEF TypeInv, TypeOK

\* A statement on one row stores a status.
LEMMA UpdateTypes ==
    ASSUME TypeOK, NEW a, NEW s \in Statuses, UpdateStatus(a, s)
    PROVE  /\ state' \in [Actions -> Statuses \cup {"none"}]
           /\ Queued' = Queued
           /\ UNCHANGED <<count, about, stale>>
BY DEF TypeOK, UpdateStatus, Queued

LEMMA ExpireTypes ==
    ASSUME TypeOK, ExpireStale
    PROVE  /\ state' \in [Actions -> Statuses \cup {"none"}]
           /\ Queued' = Queued
           /\ UNCHANGED <<count, about, stale>>
BY DEF TypeOK, ExpireStale, Queued, Statuses

\* A process that moves on, and handles its row or keeps its list.
LEMMA MoveTypes ==
    ASSUME TypeInv, NEW p \in Procs, NEW phase \in Phases, Goto(p, phase),
           Queued' = Queued,
           \/ Handled(p) /\ phase \notin {"approve", "mark", "remember"}
           \/ todo' = todo /\ (phase \in {"approve", "mark", "remember"}
                              => todo[p] # {})
    PROVE  /\ pc' \in [Procs -> Phases]
           /\ todo' \in [Procs -> SUBSET Queued']
           /\ RowInHand'
<1>1. /\ pc' \in [Procs -> Phases] /\ pc'[p] = phase
      /\ \A q \in Procs \ {p} : pc'[q] = pc[q]
  BY DEF Goto, TypeInv, TypeOK
<1>2. CASE Handled(p) /\ phase \notin {"approve", "mark", "remember"}
  <2>1. /\ todo' \in [Procs -> SUBSET Queued']
        /\ \A q \in Procs \ {p} : todo'[q] = todo[q]
    BY <1>2 DEF Handled, TypeInv, TypeOK
  <2> QED
    BY <1>1, <1>2, <2>1 DEF TypeInv, RowInHand
<1>3. CASE todo' = todo /\ (phase \in {"approve", "mark", "remember"}
                           => todo[p] # {})
  BY <1>1, <1>3 DEF TypeInv, TypeOK, RowInHand
<1> QED
  BY <1>2, <1>3

\* The run up to the rows it queues.
LEMMA RoutingTypes ==
    ASSUME TypeInv, NEW r \in Runners,
           BeginRun(r) \/ Collect(r) \/ SkipItem(r) \/ Route(r) \/ RoutingDone(r)
    PROVE  TypeInv'
<1>1. r \in Procs /\ Phases # {}
  BY ProcFacts DEF Phases
<1>2. CASE BeginRun(r)
  <2>1. "collect" \in Phases
    BY DEF Phases
  <2>2. /\ state' \in [Actions -> Statuses \cup {"none"}]
        /\ Queued' = Queued /\ UNCHANGED <<count, about, stale>>
    BY <1>2, ExpireTypes DEF BeginRun, TypeInv
  <2>3. pc' \in [Procs -> Phases] /\ RowInHand'
    BY <1>1, <1>2, <2>1, <2>2, MoveTypes DEF BeginRun
  <2> QED
    BY <1>2, <2>2, <2>3 DEF BeginRun, TypeInv, TypeOK, obs
<1>3. CASE Collect(r)
  <2> DEFINE phase == IF unseen'[r] = {} THEN "off" ELSE "route"
  <2>1. phase \in Phases /\ phase \notin {"approve", "mark", "remember"}
    BY DEF Phases
  <2>2. Queued' = Queued /\ Goto(r, phase) /\ todo' = todo
    BY <1>3 DEF Collect, table, Queued
  <2> HIDE DEF phase
  <2>3. pc' \in [Procs -> Phases] /\ RowInHand'
    BY <1>1, <2>1, <2>2, MoveTypes
  <2>4. unseen' \in [Runners -> SUBSET Items]
    BY <1>3 DEF Collect, TypeInv, TypeOK
  <2> QED
    BY <1>3, <2>2, <2>3, <2>4 DEF Collect, TypeInv, TypeOK, table, obs
<1>4. CASE SkipItem(r)
  <2>1. unseen' \in [Runners -> SUBSET Items]
    BY <1>4 DEF SkipItem, TypeInv, TypeOK
  <2> QED
    BY <1>4, <2>1 DEF SkipItem, TypeInv, TypeOK, RowInHand, table, obs, Queued
<1>5. CASE Route(r)
  <2>1. "queue" \in Phases
    BY DEF Phases
  <2>2. Queued' = Queued /\ Goto(r, "queue") /\ todo' = todo
    BY <1>5 DEF Route, table, Queued
  <2>3. pc' \in [Procs -> Phases] /\ RowInHand'
    BY <1>1, <2>1, <2>2, MoveTypes
  <2>4. unseen' \in [Runners -> SUBSET Items]
    BY <1>5 DEF Route, TypeInv, TypeOK
  <2>5. plan' \in [Runners -> [what : Proposals \cup {NoProposal}, auto : BOOLEAN]]
    BY <1>5 DEF Route, TypeInv, TypeOK
  <2> QED
    BY <1>5, <2>2, <2>3, <2>4, <2>5 DEF Route, TypeInv, TypeOK, table, obs
<1>6. CASE RoutingDone(r)
  <2> DEFINE phase == IF auto[r] = {} THEN "notify" ELSE "list"
  <2>1. phase \in Phases /\ phase \notin {"approve", "mark", "remember"}
    BY DEF Phases
  <2>2. Queued' = Queued /\ Goto(r, phase) /\ todo' = todo
    BY <1>6 DEF RoutingDone, table, Queued
  <2> HIDE DEF phase
  <2>3. pc' \in [Procs -> Phases] /\ RowInHand'
    BY <1>1, <2>1, <2>2, MoveTypes
  <2> QED
    BY <1>6, <2>2, <2>3 DEF RoutingDone, TypeInv, TypeOK, table, obs
<1> QED
  BY <1>2, <1>3, <1>4, <1>5, <1>6

LEMMA QueueTypes ==
    ASSUME TypeInv, NEW r \in Runners, QueueAction(r)
    PROVE  TypeInv'
<1> DEFINE new == count + 1
<1>1. r \in Procs /\ count \in Nat /\ new \in Actions
  BY ProcFacts, ConstantsAssumption DEF TypeInv, TypeOK, QueueAction, Actions
<1>2. /\ count' = new /\ count' \in 0 .. MaxActions
      /\ Queued \subseteq Queued' /\ new \in Queued'
  BY <1>1 DEF QueueAction, Actions, Queued
<1>3. state' \in [Actions -> Statuses \cup {"none"}]
  BY DEF QueueAction, TypeInv, TypeOK, Statuses
<1>4. about' \in [Actions -> Proposals \cup {NoProposal}]
  BY DEF QueueAction, TypeInv, TypeOK
<1>5. plan' \in [Runners -> [what : Proposals \cup {NoProposal}, auto : BOOLEAN]]
  BY DEF QueueAction, TypeInv, TypeOK, NoPlan
<1>6. /\ auto' \in [Runners -> SUBSET Queued']
      /\ open' \in [Runners -> SUBSET Queued']
  BY <1>2 DEF QueueAction, TypeInv, TypeOK
<1>7. todo' \in [Procs -> SUBSET Queued']
  BY <1>2 DEF QueueAction, TypeInv, TypeOK
<1>8. pc' \in [Procs -> Phases] /\ RowInHand'
  <2>1. CASE pc' = [pc EXCEPT ![r] = "approve"] /\ todo' = [todo EXCEPT ![r] = {new}]
    BY <1>1, <2>1 DEF TypeInv, TypeOK, RowInHand, Phases
  <2>2. CASE pc' = [pc EXCEPT ![r] = "route"] /\ todo' = todo
    BY <1>1, <2>2 DEF TypeInv, TypeOK, RowInHand, Phases
  <2> QED
    BY <2>1, <2>2 DEF QueueAction, Goto
<1>9. UNCHANGED <<stale, memory, unseen, reply, consented, ran>>
  BY DEF QueueAction, obs
<1> HIDE DEF new
<1>10. /\ stale' \in SUBSET Queued' /\ consented' \in SUBSET Queued'
       /\ ran' \in SUBSET Queued'
  BY <1>2, <1>9 DEF TypeInv, TypeOK
<1> QED
  BY <1>2, <1>3, <1>4, <1>5, <1>6, <1>7, <1>8, <1>9, <1>10 DEF TypeInv, TypeOK

\* What the run does with the rows it queued.
LEMMA RunTypes ==
    ASSUME TypeInv, NEW r \in Runners,
           \/ AutoApprove(r) \/ ListToExecute(r)
           \/ Notify(r) \/ FlagSent(r) \/ EndRun(r)
    PROVE  TypeInv'
<1>1. r \in Procs
  BY ProcFacts
<1>2. CASE AutoApprove(r)
  <2>1. /\ First(todo[r]) \in Queued
        /\ "approved" \in Statuses /\ "route" \in Phases
    BY <1>1, <1>2, FirstQueued DEF AutoApprove, TypeInv, RowInHand, Statuses, Phases
  <2>2. /\ state' \in [Actions -> Statuses \cup {"none"}]
        /\ Queued' = Queued /\ UNCHANGED <<count, about, stale>>
    BY <1>2, <2>1, UpdateTypes DEF AutoApprove, TypeInv
  <2>3. /\ pc' \in [Procs -> Phases] /\ todo' \in [Procs -> SUBSET Queued']
        /\ RowInHand'
    BY <1>1, <1>2, <2>1, <2>2, MoveTypes DEF AutoApprove
  <2>4. consented' \in SUBSET Queued'
    BY <1>2, <2>1, <2>2 DEF AutoApprove, TypeInv, TypeOK
  <2> QED
    BY <1>2, <2>2, <2>3, <2>4 DEF AutoApprove, TypeInv, TypeOK
<1>3. CASE ListToExecute(r)
  <2>1. Queued' = Queued /\ UNCHANGED table
    BY <1>3 DEF ListToExecute, table, Queued
  <2>2. todo' \in [Procs -> SUBSET Queued']
    BY <1>3, <2>1 DEF ListToExecute, ListApproved, TypeInv, TypeOK
  <2>3. pc' \in [Procs -> Phases] /\ RowInHand'
    BY <1>1, <1>3 DEF ListToExecute, Goto, TypeInv, TypeOK, RowInHand, Phases
  <2> QED
    BY <1>3, <2>1, <2>2, <2>3 DEF ListToExecute, TypeInv, TypeOK, table, obs
<1>4. CASE Notify(r)
  <2>1. Queued' = Queued /\ UNCHANGED table
    BY <1>4 DEF Notify, table, Queued
  <2>2. todo' \in [Procs -> SUBSET Queued']
    BY <1>4, <2>1 DEF Notify, TypeInv, TypeOK
  <2>3. pc' \in [Procs -> Phases] /\ RowInHand'
    BY <1>1, <1>4 DEF Notify, Goto, TypeInv, TypeOK, RowInHand, Phases
  <2> QED
    BY <1>4, <2>1, <2>2, <2>3 DEF Notify, TypeInv, TypeOK, table, obs
<1>5. CASE FlagSent(r)
  <2>1. "pending" \in Statuses
    BY DEF Statuses
  <2>2. /\ state' \in [Actions -> Statuses \cup {"none"}]
        /\ Queued' = Queued /\ UNCHANGED <<count, about, stale>>
    BY <1>5, <2>1, UpdateTypes DEF FlagSent, TypeInv
  <2>3. /\ todo' \in [Procs -> SUBSET Queued']
        /\ pc[r] = "flag" /\ pc' = pc
        /\ \A q \in Procs \ {r} : todo'[q] = todo[q]
    BY <1>5, <2>2 DEF FlagSent, Handled, TypeInv, TypeOK
  <2>4. RowInHand'
    BY <2>3 DEF TypeInv, RowInHand
  <2> QED
    BY <1>5, <2>2, <2>3, <2>4 DEF FlagSent, TypeInv, TypeOK, obs
<1>6. CASE EndRun(r)
  <2>1. Queued' = Queued /\ UNCHANGED table
    BY <1>6 DEF EndRun, table, Queued
  <2>2. pc' \in [Procs -> Phases] /\ RowInHand'
    BY <1>1, <1>6 DEF EndRun, Goto, TypeInv, TypeOK, RowInHand, Phases
  <2>3. /\ auto' \in [Runners -> SUBSET Queued']
        /\ open' \in [Runners -> SUBSET Queued']
    BY <1>6, <2>1 DEF EndRun, TypeInv, TypeOK
  <2> QED
    BY <1>6, <2>1, <2>2, <2>3 DEF EndRun, TypeInv, TypeOK, table, obs
<1> QED
  BY <1>2, <1>3, <1>4, <1>5, <1>6

LEMMA ExecuteTypes ==
    ASSUME TypeInv, NEW p \in Agents, ExecuteStep(p) \/ CallExecute(p)
    PROVE  TypeInv'
<1>1. p \in Procs
  BY ProcFacts
<1>2. CASE RunAction(p)
  <2>1. First(todo[p]) \in Queued /\ "mark" \in Phases
    BY <1>1, <1>2, FirstQueued DEF RunAction, TypeInv, Phases
  <2>2. Queued' = Queued /\ UNCHANGED table
    BY <1>2 DEF RunAction, table, Queued
  <2>3. pc' \in [Procs -> Phases] /\ RowInHand'
    BY <1>1, <1>2, <2>1, <2>2, MoveTypes DEF RunAction
  <2>4. ran' \in SUBSET Queued'
    BY <1>2, <2>1, <2>2 DEF RunAction, TypeInv, TypeOK
  <2> QED
    BY <1>2, <2>2, <2>3, <2>4 DEF RunAction, TypeInv, TypeOK, table
<1>3. CASE MarkExecuted(p)
  <2>1. "executed" \in Statuses /\ "exec" \in Phases
    BY DEF Statuses, Phases
  <2>2. /\ state' \in [Actions -> Statuses \cup {"none"}]
        /\ Queued' = Queued /\ UNCHANGED <<count, about, stale>>
    BY <1>3, <2>1, UpdateTypes DEF MarkExecuted, TypeInv
  <2>3. /\ pc' \in [Procs -> Phases] /\ todo' \in [Procs -> SUBSET Queued']
        /\ RowInHand'
    BY <1>1, <1>3, <2>1, <2>2, MoveTypes DEF MarkExecuted
  <2> QED
    BY <1>3, <2>2, <2>3 DEF MarkExecuted, TypeInv, TypeOK, obs
<1>4. CASE ExecuteDone(p)
  <2> DEFINE phase == IF p \in Runners THEN "notify" ELSE "off"
  <2>1. phase \in Phases /\ phase \notin {"approve", "mark", "remember"}
    BY DEF Phases
  <2>2. Queued' = Queued /\ Goto(p, phase) /\ todo' = todo /\ UNCHANGED table
    BY <1>4 DEF ExecuteDone, table, Queued
  <2> HIDE DEF phase
  <2>3. pc' \in [Procs -> Phases] /\ RowInHand'
    BY <1>1, <2>1, <2>2, MoveTypes
  <2> QED
    BY <1>4, <2>2, <2>3 DEF ExecuteDone, TypeInv, TypeOK, table, obs
<1>5. CASE CallExecute(p)
  <2>1. Queued' = Queued /\ UNCHANGED table
    BY <1>5 DEF CallExecute, table, Queued
  <2>2. todo' \in [Procs -> SUBSET Queued']
    BY <1>5, <2>1 DEF CallExecute, ListApproved, TypeInv, TypeOK
  <2>3. pc' \in [Procs -> Phases] /\ RowInHand'
    BY <1>1, <1>5 DEF CallExecute, Goto, TypeInv, TypeOK, RowInHand, Phases
  <2> QED
    BY <1>5, <2>1, <2>2, <2>3 DEF CallExecute, TypeInv, TypeOK, table, obs
<1> QED
  BY <1>2, <1>3, <1>4, <1>5 DEF ExecuteStep

\* A decision on a row that is there.
LEMMA DecidedTypes ==
    ASSUME TypeOK, NEW a \in Queued, NEW yes \in BOOLEAN, Decided(a, yes)
    PROVE  /\ state' \in [Actions -> Statuses \cup {"none"}]
           /\ Queued' = Queued
           /\ UNCHANGED <<count, about, stale, ran>>
           /\ consented' \in SUBSET Queued'
<1>1. Verdict(yes) \in Statuses /\ UpdateStatus(a, Verdict(yes))
  BY DEF Verdict, Statuses, Decided
<1>2. /\ state' \in [Actions -> Statuses \cup {"none"}]
      /\ Queued' = Queued
      /\ UNCHANGED <<count, about, stale>>
  BY <1>1, UpdateTypes
<1> QED
  BY <1>2 DEF Decided, TypeOK

LEMMA ReplyTypes ==
    ASSUME TypeInv, NEW p \in Repliers,
           ReplyOne(p) \/ ReplyAll(p) \/ ReplyStep(p)
    PROVE  TypeInv'
<1>1. p \in Procs
  BY ProcFacts
<1>2. CASE ReplyOne(p) \/ ReplyAll(p)
  <2>1. Queued' = Queued /\ UNCHANGED table
    BY <1>2 DEF ReplyOne, ReplyAll, table, Queued
  <2>2. todo' \in [Procs -> SUBSET Queued']
    BY <1>2, <2>1 DEF ReplyOne, ReplyAll, ListPending, Pending, TypeInv, TypeOK
  <2>3. pc' \in [Procs -> Phases] /\ RowInHand'
    BY <1>1, <1>2 DEF ReplyOne, ReplyAll, Goto, TypeInv, TypeOK, RowInHand, Phases
  <2>4. reply' \in [Repliers -> Replies]
    <3>1. Remembering \cup {AllTiers} \subseteq SUBSET AllTiers
      BY DEF Remembering, AllTiers
    <3>2. ASSUME NEW yes \in BOOLEAN, NEW tiers \in SUBSET AllTiers
          PROVE  [yes |-> yes, remember |-> tiers] \in Replies
      BY DEF Replies
    <3>3. \E one \in Replies : reply' = [reply EXCEPT ![p] = one]
      BY <1>2, <3>1, <3>2 DEF ReplyOne, ReplyAll
    <3> QED
      BY <3>3 DEF TypeInv, TypeOK
  <2> QED
    BY <1>2, <2>1, <2>2, <2>3, <2>4
    DEF ReplyOne, ReplyAll, TypeInv, TypeOK, table, obs
<1>3. CASE Decide(p)
  <2>1. First(todo[p]) \in Queued /\ reply[p].yes \in BOOLEAN
    BY <1>1, <1>3, FirstQueued DEF Decide, TypeInv, TypeOK, Replies
  <2>2. /\ state' \in [Actions -> Statuses \cup {"none"}]
        /\ Queued' = Queued
        /\ UNCHANGED <<count, about, stale, ran>>
        /\ consented' \in SUBSET Queued'
    BY <1>3, <2>1, DecidedTypes DEF Decide, TypeInv
  <2>3. /\ pc' \in [Procs -> Phases] /\ todo' \in [Procs -> SUBSET Queued']
        /\ RowInHand'
    <3>1. CASE Goto(p, "remember") /\ UNCHANGED todo
      BY <1>1, <1>3, <2>2, <3>1
      DEF Decide, Goto, TypeInv, TypeOK, RowInHand, Phases
    <3>2. CASE Handled(p) /\ UNCHANGED pc
      BY <1>1, <1>3, <2>2, <3>2
      DEF Decide, Handled, TypeInv, TypeOK, RowInHand, Phases
    <3> QED
      BY <1>3, <3>1, <3>2 DEF Decide
  <2> QED
    BY <1>3, <2>2, <2>3 DEF Decide, TypeInv, TypeOK
<1>4. CASE Remember(p)
  <2>1. Queued' = Queued /\ UNCHANGED table /\ "decide" \in Phases
    BY <1>4 DEF Remember, table, Queued, Phases
  <2>2. /\ pc' \in [Procs -> Phases] /\ todo' \in [Procs -> SUBSET Queued']
        /\ RowInHand'
    BY <1>1, <1>4, <2>1, MoveTypes DEF Remember
  <2>3. memory' \in [Keys -> {"ask", "always_approve", "always_deny"}]
    BY <1>4 DEF Remember, TypeInv, TypeOK
  <2> QED
    BY <1>4, <2>1, <2>2, <2>3 DEF Remember, TypeInv, TypeOK, table, obs
<1>5. CASE ReplyDone(p)
  <2>1. Queued' = Queued /\ UNCHANGED table
    BY <1>5 DEF ReplyDone, table, Queued
  <2>2. pc' \in [Procs -> Phases] /\ RowInHand'
    BY <1>1, <1>5 DEF ReplyDone, Goto, TypeInv, TypeOK, RowInHand, Phases
  <2>3. reply' \in [Repliers -> Replies]
    BY <1>5 DEF ReplyDone, NoReply, Replies, TypeInv, TypeOK
  <2> QED
    BY <1>5, <2>1, <2>2, <2>3 DEF ReplyDone, TypeInv, TypeOK, table, obs
<1> QED
  BY <1>2, <1>3, <1>4, <1>5 DEF ReplyStep

LEMMA OutsideTypes ==
    ASSUME TypeInv,
           \/ \E a \in Actions, yes \in BOOLEAN : PostDecision(a, yes)
           \/ GetPending
           \/ \E a \in Actions : Age(a)
           \/ \E p \in Procs : Crash(p)
           \/ UNCHANGED vars
    PROVE  TypeInv'
<1>1. ASSUME NEW a \in Actions, NEW yes \in BOOLEAN, PostDecision(a, yes)
      PROVE  TypeInv'
  <2>1. /\ state' \in [Actions -> Statuses \cup {"none"}]
        /\ Queued' = Queued
        /\ UNCHANGED <<count, about, stale, ran>>
        /\ consented' \in SUBSET Queued'
    BY <1>1, DecidedTypes DEF PostDecision, TypeInv
  <2> QED
    BY <1>1, <2>1 DEF PostDecision, TypeInv, TypeOK, RowInHand, local
<1>2. CASE GetPending
  <2>1. /\ state' \in [Actions -> Statuses \cup {"none"}]
        /\ Queued' = Queued /\ UNCHANGED <<count, about, stale>>
    BY <1>2, ExpireTypes DEF GetPending, TypeInv
  <2> QED
    BY <1>2, <2>1 DEF GetPending, TypeInv, TypeOK, RowInHand, local, obs
<1>3. ASSUME NEW a \in Actions, Age(a) PROVE TypeInv'
  BY <1>3 DEF Age, TypeInv, TypeOK, RowInHand, local, obs, Queued
<1>4. ASSUME NEW p \in Procs, Crash(p) PROVE TypeInv'
  <2>1. Queued' = Queued /\ UNCHANGED table
    BY <1>4 DEF Crash, table, Queued
  <2>2. /\ pc' \in [Procs -> Phases] /\ todo' \in [Procs -> SUBSET Queued']
        /\ RowInHand'
    BY <1>4, <2>1 DEF Crash, Goto, TypeInv, TypeOK, RowInHand, Phases
  <2>3. /\ unseen' \in [Runners -> SUBSET Items]
        /\ auto' \in [Runners -> SUBSET Queued']
        /\ open' \in [Runners -> SUBSET Queued']
    BY <1>4, <2>1 DEF Crash, TypeInv, TypeOK
  <2>4. plan' \in [Runners -> [what : Proposals \cup {NoProposal}, auto : BOOLEAN]]
    BY <1>4 DEF Crash, NoPlan, TypeInv, TypeOK
  <2>5. reply' \in [Repliers -> Replies]
    BY <1>4 DEF Crash, NoReply, Replies, TypeInv, TypeOK
  <2> QED
    BY <1>4, <2>1, <2>2, <2>3, <2>4, <2>5 DEF Crash, TypeInv, TypeOK, table, obs
<1>5. CASE UNCHANGED vars
  BY <1>5 DEF vars, table, local, obs, TypeInv, TypeOK, RowInHand, Queued
<1> QED
  BY <1>1, <1>2, <1>3, <1>4, <1>5

LEMMA NextTypes == TypeInv /\ [Next]_vars => TypeInv'
<1> SUFFICES ASSUME TypeInv, [Next]_vars PROVE TypeInv'
  OBVIOUS
<1>1. ASSUME NEW r \in Runners, RunStep(r) PROVE TypeInv'
  BY <1>1, ProcFacts, RoutingTypes, QueueTypes, RunTypes, ExecuteTypes
  DEF RunStep
<1>2. ASSUME NEW e \in Execs, CallExecute(e) \/ ExecuteStep(e) PROVE TypeInv'
  BY <1>2, ProcFacts, ExecuteTypes
<1>3. CASE User
  BY <1>3, ReplyTypes, OutsideTypes DEF User
<1>4. ASSUME NEW p \in Repliers, ReplyStep(p) PROVE TypeInv'
  BY <1>4, ReplyTypes
<1> QED
  BY <1>1, <1>2, <1>3, <1>4, OutsideTypes DEF Next

\* The types, and a row in hand wherever one is to be handled: nobody writes
\* a row that it has not listed.
THEOREM TypeInvariant == Spec => []TypeInv
BY InitTypes, NextTypes, PTL DEF Spec

\* Every reachable state is well typed: nothing but the five statuses is ever
\* stored, and every row that a process is about to write is there
\* (approval_store.py:186-293).
THEOREM TypeCorrect == Spec => []TypeOK
<1>1. TypeInv => TypeOK
  BY DEF TypeInv
<1> QED
  BY <1>1, TypeInvariant, PTL

-----------------------------------------------------------------------------
(* Consent.  A status of approved goes back to a decision that somebody    *)
(* took, and so does every row that an executor listed.                    *)

ConsentInv ==
    /\ \A a \in Queued : state[a] = "approved" => a \in consented
    /\ \A p \in Agents : pc[p] \in {"exec", "mark"} => todo[p] \subseteq consented
    /\ ran \subseteq consented

\* The rows, statuses and lists other than p's stay, and p's is consented to.
LEMMA ConsentByStep ==
    ASSUME TypeInv, ConsentInv, NEW p \in Procs,
           consented \subseteq consented', ran' \subseteq consented',
           \A a \in Queued' : state'[a] = "approved"
              => a \in consented' \/ (a \in Queued /\ state[a] = "approved"),
           \A q \in Procs \ {p} : pc'[q] = pc[q] /\ todo'[q] = todo[q],
           p \in Agents /\ pc'[p] \in {"exec", "mark"} => todo'[p] \subseteq consented'
    PROVE  ConsentInv'
<1>1. \A q \in Agents : pc'[q] \in {"exec", "mark"} => todo'[q] \subseteq consented'
  BY ProcFacts DEF ConsentInv
<1> QED
  BY <1>1 DEF ConsentInv

LEMMA ConsentRun ==
    ASSUME TypeInv, ConsentInv, NEW r \in Runners, RunStep(r), ~ExecuteStep(r)
    PROVE  ConsentInv'
<1>1. r \in Procs /\ r \in Agents
  BY ProcFacts
<1>2. \A q \in Procs \ {r} : pc'[q] = pc[q] /\ todo'[q] = todo[q]
  BY DEF RunStep, BeginRun, Collect, SkipItem, Route, QueueAction, AutoApprove,
         RoutingDone, ListToExecute, Notify, FlagSent, EndRun, Goto, Handled,
         TypeInv, TypeOK
<1>3. CASE AutoApprove(r)
  <2>1. /\ \A a \in Queued' : state'[a] = "approved" => a \in consented' \/
                               (a \in Queued /\ state[a] = "approved")
        /\ consented \subseteq consented' /\ ran' = ran
    BY <1>3 DEF AutoApprove, UpdateStatus, Queued, TypeInv, TypeOK
  <2>2. pc'[r] = "route"
    BY <1>1, <1>3 DEF AutoApprove, Goto, TypeInv, TypeOK
  <2>3. ran' \subseteq consented'
    BY <2>1 DEF ConsentInv
  <2> QED
    BY <1>1, <1>2, <2>1, <2>2, <2>3, ConsentByStep
<1>4. CASE QueueAction(r)
  <2>1. /\ count \in Nat /\ Queued' = Queued \cup {count + 1}
        /\ count + 1 \in Actions
    BY <1>4, ConstantsAssumption DEF QueueAction, TypeInv, TypeOK, Queued, Actions
  <2>2. \A a \in Queued' : state'[a] = "approved" => a \in Queued /\ state[a] = "approved"
    BY <1>4, <2>1 DEF QueueAction, TypeInv, TypeOK
  <2>3. pc'[r] \in {"approve", "route"}
    BY <1>1, <1>4 DEF QueueAction, Goto, TypeInv, TypeOK
  <2>4. UNCHANGED <<consented, ran>>
    BY <1>4 DEF QueueAction, obs
  <2>5. ran' \subseteq consented'
    BY <2>4 DEF ConsentInv
  <2> QED
    BY <1>1, <1>2, <2>2, <2>3, <2>4, <2>5, ConsentByStep
<1>5. CASE ListToExecute(r)
  <2>1. UNCHANGED <<count, state, consented, ran>>
    BY <1>5 DEF ListToExecute, table, obs
  <2>2. todo'[r] \subseteq ListApproved
    BY <1>1, <1>5 DEF ListToExecute, TypeInv, TypeOK
  <2>3. ListApproved \subseteq consented
    BY DEF ListApproved, ConsentInv
  <2>4. ran' \subseteq consented' /\ Queued' = Queued
    BY <2>1 DEF ConsentInv, Queued
  <2> QED
    BY <1>1, <1>2, <2>1, <2>2, <2>3, <2>4, ConsentByStep
<1>6. CASE \/ BeginRun(r) \/ Collect(r) \/ SkipItem(r) \/ Route(r)
           \/ RoutingDone(r) \/ Notify(r) \/ FlagSent(r) \/ EndRun(r)
  <2>1. UNCHANGED <<count, consented, ran>> /\ Queued' = Queued
    BY <1>6 DEF BeginRun, Collect, SkipItem, Route, RoutingDone, Notify,
                FlagSent, EndRun, ExpireStale, UpdateStatus, table, obs, Queued
  <2>2. \A a \in Queued : state'[a] = "approved" => state[a] = "approved"
    <3>1. state' = state \/ ExpireStale \/ UpdateStatus(First(todo[r]), "pending")
      BY <1>6 DEF BeginRun, Collect, SkipItem, Route, RoutingDone, Notify,
                  FlagSent, EndRun, table
    <3> QED
      BY <3>1, QueuedFacts DEF ExpireStale, UpdateStatus, TypeInv, TypeOK
  <2>3. pc'[r] \notin {"exec", "mark"}
    BY <1>1, <1>6 DEF BeginRun, Collect, SkipItem, Route, RoutingDone, Notify,
                FlagSent, EndRun, Goto, TypeInv, TypeOK
  <2>4. ran' \subseteq consented'
    BY <2>1 DEF ConsentInv
  <2> QED
    BY <1>1, <1>2, <2>1, <2>2, <2>3, <2>4, ConsentByStep
<1> QED
  BY <1>3, <1>4, <1>5, <1>6 DEF RunStep

LEMMA ConsentExecute ==
    ASSUME TypeInv, ConsentInv, NEW p \in Agents, ExecuteStep(p) \/ CallExecute(p)
    PROVE  ConsentInv'
<1>1. p \in Procs
  BY ProcFacts
<1>2. \A q \in Procs \ {p} : pc'[q] = pc[q] /\ todo'[q] = todo[q]
  BY DEF ExecuteStep, RunAction, MarkExecuted, ExecuteDone, CallExecute, Goto,
         Handled, TypeInv, TypeOK
<1>3. Queued' = Queued /\ consented' = consented
  BY DEF ExecuteStep, RunAction, MarkExecuted, ExecuteDone, CallExecute,
         UpdateStatus, table, obs, Queued
<1>4. \A a \in Queued : state'[a] = "approved" => state[a] = "approved"
  <2>1. state' = state \/ UpdateStatus(First(todo[p]), "executed")
    BY DEF ExecuteStep, RunAction, MarkExecuted, ExecuteDone, CallExecute, table
  <2> QED
    BY <2>1, QueuedFacts DEF UpdateStatus, TypeInv, TypeOK
<1>5. CASE RunAction(p)
  <2>1. First(todo[p]) \in todo[p] /\ todo[p] \subseteq consented
    BY <1>1, <1>5, FirstQueued DEF RunAction, TypeInv, ConsentInv
  <2>2. ran' \subseteq consented' /\ todo'[p] \subseteq consented'
    BY <1>3, <1>5, <2>1 DEF RunAction, ConsentInv
  <2> QED
    BY <1>1, <1>2, <1>3, <1>4, <2>2, ConsentByStep
<1>6. CASE MarkExecuted(p) \/ ExecuteDone(p)
  <2>1. todo'[p] \subseteq todo[p] /\ pc[p] \in {"exec", "mark"}
    BY <1>1, <1>6 DEF MarkExecuted, ExecuteDone, Handled, TypeInv, TypeOK
  <2>2. ran' \subseteq consented' /\ todo'[p] \subseteq consented'
    BY <1>3, <1>6, <2>1 DEF MarkExecuted, ExecuteDone, ConsentInv, obs
  <2> QED
    BY <1>1, <1>2, <1>3, <1>4, <2>2, ConsentByStep
<1>7. CASE CallExecute(p)
  <2>1. todo'[p] = ListApproved /\ ran' = ran
    BY <1>1, <1>7 DEF CallExecute, TypeInv, TypeOK, obs
  <2>2. ran' \subseteq consented' /\ todo'[p] \subseteq consented'
    BY <1>3, <2>1 DEF ListApproved, ConsentInv
  <2> QED
    BY <1>1, <1>2, <1>3, <1>4, <2>2, ConsentByStep
<1> QED
  BY <1>5, <1>6, <1>7 DEF ExecuteStep

LEMMA ConsentReply ==
    ASSUME TypeInv, ConsentInv, NEW p \in Repliers,
           ReplyOne(p) \/ ReplyAll(p) \/ ReplyStep(p)
    PROVE  ConsentInv'
<1>1. p \in Procs /\ p \notin Agents
  BY ProcFacts DEF Agents
<1>2. \A q \in Procs \ {p} : pc'[q] = pc[q] /\ todo'[q] = todo[q]
  BY DEF ReplyOne, ReplyAll, ReplyStep, Decide, Remember, ReplyDone, Goto,
         Handled, TypeInv, TypeOK
<1>3. CASE Decide(p)
  <2>1. Queued' = Queued /\ ran' = ran /\ consented \subseteq consented'
    BY <1>3 DEF Decide, Decided, UpdateStatus, Queued
  <2>2. \A a \in Queued : state'[a] = "approved"
                         => a \in consented' \/ state[a] = "approved"
    BY <1>3, QueuedFacts
    DEF Decide, Decided, UpdateStatus, Verdict, TypeInv, TypeOK
  <2>3. ran' \subseteq consented'
    BY <2>1 DEF ConsentInv
  <2> QED
    BY <1>1, <1>2, <2>1, <2>2, <2>3, ConsentByStep
<1>4. CASE ReplyOne(p) \/ ReplyAll(p) \/ Remember(p) \/ ReplyDone(p)
  <2>1. UNCHANGED <<count, state, consented, ran>> /\ Queued' = Queued
    BY <1>4 DEF ReplyOne, ReplyAll, Remember, ReplyDone, table, obs, Queued
  <2>2. ran' \subseteq consented'
    BY <2>1 DEF ConsentInv
  <2> QED
    BY <1>1, <1>2, <2>1, <2>2, ConsentByStep
<1> QED
  BY <1>3, <1>4 DEF ReplyStep

LEMMA ConsentOutside ==
    ASSUME TypeInv, ConsentInv,
           \/ \E a \in Actions, yes \in BOOLEAN : PostDecision(a, yes)
           \/ GetPending
           \/ \E a \in Actions : Age(a)
           \/ \E p \in Procs : Crash(p)
           \/ UNCHANGED vars
    PROVE  ConsentInv'
<1>1. ASSUME NEW a \in Actions, NEW yes \in BOOLEAN, PostDecision(a, yes)
      PROVE  ConsentInv'
  <2>1. /\ Queued' = Queued /\ UNCHANGED <<pc, todo, ran>>
        /\ consented \subseteq consented'
    BY <1>1 DEF PostDecision, Decided, UpdateStatus, Queued, local
  <2>2. \A b \in Queued : state'[b] = "approved"
                         => b \in consented' \/ state[b] = "approved"
    BY <1>1, QueuedFacts
    DEF PostDecision, Decided, UpdateStatus, Verdict, TypeInv, TypeOK
  <2> QED
    BY <2>1, <2>2 DEF ConsentInv
<1>2. CASE GetPending
  <2>1. Queued' = Queued /\ UNCHANGED <<pc, todo, ran, consented>>
    BY <1>2 DEF GetPending, ExpireStale, Queued, local, obs
  <2>2. \A b \in Queued : state'[b] = "approved" => state[b] = "approved"
    BY <1>2, QueuedFacts DEF GetPending, ExpireStale, TypeInv, TypeOK
  <2> QED
    BY <2>1, <2>2 DEF ConsentInv
<1>3. ASSUME NEW p \in Procs, Crash(p) PROVE ConsentInv'
  <2>1. /\ Queued' = Queued /\ UNCHANGED <<state, ran, consented>>
        /\ pc'[p] = "off" /\ \A q \in Procs \ {p} : pc'[q] = pc[q] /\ todo'[q] = todo[q]
    BY <1>3 DEF Crash, Goto, TypeInv, TypeOK, Queued, table, obs
  <2>2. ran' \subseteq consented'
    BY <2>1 DEF ConsentInv
  <2> QED
    BY <1>3, <2>1, <2>2, ConsentByStep
<1>4. CASE (\E a \in Actions : Age(a)) \/ UNCHANGED vars
  <2>1. UNCHANGED <<count, state, pc, todo, consented, ran>> /\ Queued' = Queued
    BY <1>4 DEF Age, vars, table, local, obs, Queued
  <2> QED
    BY <2>1 DEF ConsentInv
<1> QED
  BY <1>1, <1>2, <1>3, <1>4

LEMMA ConsentHolds == Spec => []ConsentInv
<1>1. Init => ConsentInv
  BY ProcFacts DEF Init, ConsentInv, Queued
<1>2. TypeInv /\ ConsentInv /\ [Next]_vars => ConsentInv'
  <2> SUFFICES ASSUME TypeInv, ConsentInv, [Next]_vars PROVE ConsentInv'
    OBVIOUS
  <2>1. ASSUME NEW r \in Runners, RunStep(r) PROVE ConsentInv'
    BY <2>1, ProcFacts, ConsentRun, ConsentExecute
  <2>2. ASSUME NEW e \in Execs, CallExecute(e) \/ ExecuteStep(e) PROVE ConsentInv'
    BY <2>2, ProcFacts, ConsentExecute
  <2>3. CASE User
    BY <2>3, ConsentReply, ConsentOutside DEF User
  <2>4. ASSUME NEW p \in Repliers, ReplyStep(p) PROVE ConsentInv'
    BY <2>4, ConsentReply
  <2> QED
    BY <2>1, <2>2, <2>3, <2>4, ConsentOutside DEF Next
<1> QED
  BY <1>1, <1>2, TypeInvariant, PTL DEF Spec

\* Nothing is executed that nobody agreed to, whatever the runs, executors,
\* replies and requests write in whatever order and wherever they die
\* (approval_store.py:253-282, proactive_agent.py:447-476).
THEOREM ExecutedWithConsent == Spec => []RanWasConsented
<1>1. ConsentInv => RanWasConsented
  BY DEF ConsentInv, RanWasConsented
<1> QED
  BY <1>1, ConsentHolds, PTL

-----------------------------------------------------------------------------
(* One proposal for an item.  The run that took its list of unseen items   *)
(* is the only one that queues; an item leaves the list before its row is  *)
(* queued.                                                                 *)

UnseenInv ==
    /\ ProposedOnce
    /\ \A r \in Runners :
          /\ pc[r] \in {"route", "queue", "approve"} => unseen[r] \cap SeenItems = {}
          /\ pc[r] = "queue" => plan[r].what.item \notin unseen[r] \cup SeenItems

LEMMA UnseenQueue ==
    ASSUME \A r, s \in Runners : r = s,
           TypeInv, UnseenInv, NEW r \in Runners, QueueAction(r)
    PROVE  UnseenInv'
<1> DEFINE new == count + 1
           item == plan[r].what.item
<1>1. /\ count \in Nat /\ new \in Actions /\ new \notin Queued
      /\ Queued' = Queued \cup {new} /\ Queued \subseteq Actions
  BY ConstantsAssumption DEF QueueAction, TypeInv, TypeOK, Queued, Actions
<1>2. about'[new].item = item /\ \A a \in Queued : about'[a] = about[a]
  BY <1>1 DEF QueueAction, TypeInv, TypeOK
<1> HIDE DEF new, item
<1>3. item \notin unseen[r] \cup SeenItems
  BY DEF QueueAction, UnseenInv, item
<1>4. ProposedOnce'
  <2>1. ASSUME NEW a \in Queued, about'[a].item = about'[new].item PROVE FALSE
    BY <1>2, <1>3, <2>1 DEF SeenItems
  <2>2. ASSUME NEW a \in Queued, NEW b \in Queued, about'[a].item = about'[b].item
        PROVE  a = b
    BY <1>2, <2>2 DEF UnseenInv, ProposedOnce
  <2> QED
    BY <1>1, <2>1, <2>2 DEF ProposedOnce
<1>5. SeenItems' = SeenItems \cup {item}
  BY <1>1, <1>2 DEF SeenItems
<1>6. unseen' = unseen /\ unseen[r] \cap SeenItems = {} /\ pc'[r] # "queue"
  BY ProcFacts DEF QueueAction, UnseenInv, TypeInv, TypeOK, Goto
<1>7. \A s \in Runners : s = r
  OBVIOUS
<1> QED
  BY <1>3, <1>4, <1>5, <1>6, <1>7 DEF UnseenInv

LEMMA UnseenRun ==
    ASSUME \A r, s \in Runners : r = s,
           TypeInv, UnseenInv, NEW r \in Runners, RunStep(r), ~QueueAction(r)
    PROVE  UnseenInv'
<1>1. r \in Procs /\ \A s \in Runners : s = r
  BY ProcFacts
<1>2. UNCHANGED <<count, about>> /\ Queued' = Queued
  BY DEF RunStep, ExecuteStep, BeginRun, Collect, SkipItem, Route, AutoApprove,
         RoutingDone, ListToExecute, RunAction, MarkExecuted, ExecuteDone,
         Notify, FlagSent, EndRun, ExpireStale, UpdateStatus, table, Queued
<1>3. SeenItems' = SeenItems /\ ProposedOnce'
  BY <1>2 DEF SeenItems, UnseenInv, ProposedOnce
<1>4. CASE Collect(r)
  <2>1. unseen'[r] \cap SeenItems = {} /\ pc'[r] \in {"off", "route"}
    BY <1>1, <1>4 DEF Collect, Goto, TypeInv, TypeOK
  <2> QED
    BY <1>1, <1>3, <2>1 DEF UnseenInv
<1>5. CASE SkipItem(r)
  <2>1. unseen'[r] \subseteq unseen[r] /\ pc' = pc /\ pc[r] = "route"
    BY <1>5 DEF SkipItem, TypeInv, TypeOK
  <2> QED
    BY <1>1, <1>3, <2>1 DEF UnseenInv
<1>6. CASE Route(r)
  <2>1. PICK p \in Proposals :
          /\ p.item \in unseen[r]
          /\ unseen' = [unseen EXCEPT ![r] = @ \ {p.item}]
          /\ plan' = [plan EXCEPT ![r] =
                [what |-> p, auto |-> \/ p.tier = "trivial"
                                      \/ memory[p.key] = "always_approve"]]
    BY <1>6 DEF Route
  <2>2. /\ unseen'[r] = unseen[r] \ {p.item}
        /\ plan'[r].what = p
    BY <2>1 DEF TypeInv, TypeOK
  <2>3. unseen[r] \cap SeenItems = {}
    BY <1>6 DEF Route, UnseenInv
  <2>4. p.item \notin unseen'[r] \cup SeenItems
    BY <2>1, <2>2, <2>3
  <2> QED
    BY <1>1, <1>3, <2>2, <2>3, <2>4 DEF UnseenInv
<1>7. CASE AutoApprove(r)
  <2>1. unseen' = unseen /\ pc[r] = "approve" /\ pc'[r] = "route"
    BY <1>1, <1>7 DEF AutoApprove, Goto, TypeInv, TypeOK
  <2> QED
    BY <1>1, <1>3, <2>1 DEF UnseenInv
<1>8. CASE \/ BeginRun(r) \/ RoutingDone(r) \/ ListToExecute(r) \/ ExecuteStep(r)
           \/ Notify(r) \/ FlagSent(r) \/ EndRun(r)
  <2>1. pc'[r] \notin {"route", "queue", "approve"}
    BY <1>1, <1>8 DEF BeginRun, RoutingDone, ListToExecute, ExecuteStep, RunAction,
       MarkExecuted, ExecuteDone, Notify, FlagSent, EndRun, Goto, TypeInv, TypeOK
  <2> QED
    BY <1>1, <1>3, <2>1 DEF UnseenInv
<1> QED
  BY <1>4, <1>5, <1>6, <1>7, <1>8 DEF RunStep

LEMMA UnseenOthers ==
    ASSUME TypeInv, UnseenInv,
           \/ \E e \in Execs : CallExecute(e) \/ ExecuteStep(e)
           \/ \E p \in Repliers : ReplyStep(p)
           \/ User
           \/ \E a \in Actions : Age(a)
           \/ \E p \in Procs : Crash(p)
           \/ UNCHANGED vars
    PROVE  UnseenInv'
<1>1. UNCHANGED <<count, about>> /\ Queued' = Queued
  BY DEF ExecuteStep, RunAction, MarkExecuted, ExecuteDone, CallExecute, ReplyStep,
         Decide, Decided, Remember, ReplyDone, User, ReplyOne, ReplyAll,
         PostDecision, GetPending, Age, Crash, ExpireStale, UpdateStatus, vars,
         table, Queued
<1>2. SeenItems' = SeenItems /\ ProposedOnce'
  BY <1>1 DEF SeenItems, UnseenInv, ProposedOnce
<1>3. ASSUME NEW r \in Runners
      PROVE  \/ pc'[r] = pc[r] /\ unseen'[r] = unseen[r] /\ plan'[r] = plan[r]
             \/ pc'[r] = "off"
  <2>1. ASSUME NEW e \in Execs, CallExecute(e) \/ ExecuteStep(e)
        PROVE  pc'[r] = pc[r] /\ unseen' = unseen /\ plan' = plan
    BY <2>1, ProcFacts DEF ExecuteStep, RunAction, MarkExecuted, ExecuteDone,
                           CallExecute, Goto, TypeInv, TypeOK
  <2>2. ASSUME NEW p \in Repliers, ReplyOne(p) \/ ReplyAll(p) \/ ReplyStep(p)
        PROVE  pc'[r] = pc[r] /\ unseen' = unseen /\ plan' = plan
    BY <2>2, ProcFacts DEF ReplyOne, ReplyAll, ReplyStep, Decide, Remember,
                           ReplyDone, Goto, TypeInv, TypeOK
  <2>3. ASSUME NEW p \in Procs, Crash(p)
        PROVE  \/ pc'[r] = pc[r] /\ unseen'[r] = unseen[r] /\ plan'[r] = plan[r]
               \/ pc'[r] = "off"
    BY <2>3, ProcFacts DEF Crash, Goto, TypeInv, TypeOK
  <2>4. CASE \/ \E a \in Actions, yes \in BOOLEAN : PostDecision(a, yes)
             \/ GetPending \/ (\E a \in Actions : Age(a)) \/ UNCHANGED vars
    BY <2>4 DEF PostDecision, GetPending, Age, vars, local
  <2> QED
    BY <2>1, <2>2, <2>3, <2>4 DEF User
<1> QED
  BY <1>2, <1>3 DEF UnseenInv

LEMMA UnseenHolds ==
    ASSUME \A r, s \in Runners : r = s
    PROVE  Spec => []UnseenInv
<1>1. Init => UnseenInv
  <2> SUFFICES ASSUME Init PROVE UnseenInv
    OBVIOUS
  <2>1. Queued = {} /\ \A r \in Runners : pc[r] = "off"
    BY ProcFacts DEF Init, Queued
  <2> QED
    BY <2>1 DEF UnseenInv, ProposedOnce
<1>2. TypeInv /\ UnseenInv /\ [Next]_vars => UnseenInv'
  <2> SUFFICES ASSUME TypeInv, UnseenInv, [Next]_vars PROVE UnseenInv'
    OBVIOUS
  <2>1. ASSUME NEW r \in Runners, RunStep(r) PROVE UnseenInv'
    BY <2>1, UnseenQueue, UnseenRun
  <2> QED
    BY <2>1, UnseenOthers DEF Next
<1> QED
  BY <1>1, <1>2, TypeInvariant, PTL DEF Spec

\* With one proactive agent, no two proposals are about the same item, at
\* whatever statement its runs die (proactive_agent.py:374-466,
\* approval_store.py:362-386).
THEOREM ProposedOnlyOnce ==
    ASSUME \A r, s \in Runners : r = s
    PROVE  Spec => []ProposedOnce
<1>1. UnseenInv => ProposedOnce
  BY DEF UnseenInv
<1> QED
  BY <1>1, UnseenHolds, PTL

-----------------------------------------------------------------------------
(* The promise of ApprovalPromise.  The writes look at no status, so what  *)
(* makes a status true is what the process that writes it has done before. *)

StagesTrue == \A a \in Actions : state[a] = "none" <=> a \notin Queued

\* An executor marks what it has performed; a run asks about no trivial action,
\* flags only what it asked about, and queues what the model proposed.
HonestProc(p) ==
    /\ p \in Agents /\ pc[p] = "mark" => First(todo[p]) \in ran
    /\ p \in Runners =>
          /\ open[p] \cap Free = {}
          /\ pc[p] = "flag" => todo[p] \subseteq open[p]
          /\ pc[p] = "queue" => /\ plan[p].what \in Proposals
                                /\ plan[p].what.tier = "trivial" => plan[p].auto

HonestInv == StagesTrue /\ \A p \in Procs : HonestProc(p)

PromiseInv == TypeInv /\ ConsentInv /\ UnseenInv /\ HonestInv

LEMMA ProposedAreQueued ==
    ASSUME TypeInv, StagesTrue
    PROVE  Promise!Proposed = Queued
BY QueuedFacts DEF Promise!Proposed, StagesTrue, TypeInv

\* A step of p over rows that stay queued.
LEMMA HonestByStep ==
    ASSUME HonestInv, NEW p \in Procs,
           UNCHANGED <<count, about>>, ran \subseteq ran',
           \A a \in Actions : state'[a] = "none" <=> state[a] = "none",
           \A q \in Procs \ {p} : pc'[q] = pc[q] /\ todo'[q] = todo[q],
           \A r \in Runners \ {p} : open'[r] = open[r] /\ plan'[r] = plan[r],
           HonestProc(p)'
    PROVE  HonestInv'
<1>1. Queued' = Queued /\ Free' = Free
  BY DEF Queued, Free
<1>2. StagesTrue'
  BY <1>1 DEF HonestInv, StagesTrue
<1>3. ASSUME NEW q \in Procs, q # p PROVE HonestProc(q)'
  <2>1. HonestProc(q)
    BY DEF HonestInv
  <2>2. pc'[q] = pc[q] /\ todo'[q] = todo[q]
    BY <1>3
  <2>3. q \in Runners => open'[q] = open[q] /\ plan'[q] = plan[q]
    BY <1>3
  <2> QED
    BY <1>1, <2>1, <2>2, <2>3 DEF HonestProc
<1> QED
  BY <1>2, <1>3 DEF HonestInv

\* One row is written.
LEMMA StatusSeen ==
    ASSUME TypeInv, StagesTrue, NEW a \in Queued, NEW s \in Statuses,
           UpdateStatus(a, s)
    PROVE  /\ Promise!Write(a, s)
           /\ UNCHANGED <<count, about>>
           /\ \A b \in Actions : state'[b] = "none" <=> state[b] = "none"
<1>1. UNCHANGED <<count, about>> /\ state' = [state EXCEPT ![a] = s]
  BY DEF UpdateStatus
<1>2. UNCHANGED <<About, Free>>
  BY <1>1 DEF About, Free, Queued
<1>3. Promise!Write(a, s)
  BY <1>1, <1>2, ProposedAreQueued DEF Promise!Write
<1>4. s # "none" /\ state[a] # "none" /\ a \in Actions
  BY QueuedFacts DEF Statuses, StagesTrue, TypeInv
<1>5. \A b \in Actions : state'[b] = "none" <=> state[b] = "none"
  BY <1>1, <1>4 DEF TypeInv, TypeOK
<1> QED
  BY <1>1, <1>3, <1>5

\* Pending rows expire.
LEMMA LapseSeen ==
    ASSUME TypeInv, StagesTrue, ExpireStale, UNCHANGED obs
    PROVE  /\ Promise!Lapse
           /\ UNCHANGED <<count, about>>
           /\ \A b \in Actions : state'[b] = "none" <=> state[b] = "none"
<1> DEFINE late == Pending \cap stale
<1>1. /\ UNCHANGED <<count, about>>
      /\ state' = [a \in Actions |-> IF a \in late THEN "expired" ELSE state[a]]
  BY DEF ExpireStale
<1>2. late \in SUBSET {a \in Actions : state[a] = "pending"}
  BY QueuedFacts DEF Pending, TypeInv
<1>3. UNCHANGED <<About, Free>>
  BY <1>1 DEF About, Free, Queued
<1> HIDE DEF late
<1>4. Promise!Lapse
  BY <1>1, <1>2, <1>3 DEF Promise!Lapse, obs
<1>5. \A b \in Actions : state'[b] = "none" <=> state[b] = "none"
  BY <1>1, <1>2
<1> QED
  BY <1>1, <1>4, <1>5

\* The table is left alone.
LEMMA NothingSeen ==
    ASSUME UNCHANGED <<count, state, about, consented, ran>>
    PROVE  UNCHANGED Promise!vars
BY DEF Promise!vars, About, Free, Queued

LEMMA PromiseByQueue ==
    ASSUME PromiseInv, NEW r \in Runners, QueueAction(r)
    PROVE  HonestInv' /\ \E a \in Actions : Promise!Propose(a)
<1> DEFINE new == count + 1
           what == plan[r].what
<1>1. /\ r \in Procs /\ r \in Agents /\ count \in Nat /\ new \in Actions
      /\ new \notin Queued /\ Queued' = Queued \cup {new} /\ Queued \subseteq Actions
  BY ProcFacts, ConstantsAssumption
  DEF QueueAction, PromiseInv, TypeInv, TypeOK, Queued, Actions
<1>2. /\ state' = [state EXCEPT ![new] = "pending"]
      /\ about' = [about EXCEPT ![new] = what]
      /\ plan' = [plan EXCEPT ![r] = NoPlan]
      /\ UNCHANGED <<consented, ran>> /\ pc[r] = "queue"
  BY DEF QueueAction, obs
<1>3. /\ what \in Proposals /\ (what.tier = "trivial" => plan[r].auto)
      /\ open[r] \cap Free = {}
  BY <1>1, <1>2 DEF PromiseInv, HonestInv, HonestProc
<1>4. /\ \/ plan[r].auto /\ pc'[r] = "approve" /\ open' = open
         \/ ~plan[r].auto /\ pc'[r] = "route" /\ open'[r] = open[r] \cup {new}
      /\ \A q \in Procs \ {r} : pc'[q] = pc[q] /\ todo'[q] = todo[q]
      /\ \A q \in Runners \ {r} : open'[q] = open[q] /\ plan'[q] = plan[q]
  BY <1>1 DEF QueueAction, Goto, PromiseInv, TypeInv, TypeOK
<1> HIDE DEF new, what
<1>5. /\ state'[new] = "pending" /\ about'[new] = what
      /\ \A a \in Actions \ {new} : state'[a] = state[a] /\ about'[a] = about[a]
  BY <1>1, <1>2 DEF PromiseInv, TypeInv, TypeOK
<1>6. /\ Free' \in {Free, Free \cup {new}}
      /\ what.tier # "trivial" => Free' = Free
  BY <1>1, <1>5 DEF Free
<1>7. About' = [About EXCEPT ![new] = what.item]
  BY <1>5 DEF About
<1>8. \A b \in Queued : About[b] # what.item
  BY <1>1, <1>2 DEF PromiseInv, UnseenInv, SeenItems, About, what
<1>9. what.item \in Items
  BY <1>3 DEF Proposals
<1>10. Promise!Proposed = Queued
  BY ProposedAreQueued DEF PromiseInv, HonestInv
<1>11. Promise!Propose(new)
  BY <1>1, <1>2, <1>6, <1>7, <1>8, <1>9, <1>10 DEF Promise!Propose
<1>12. StagesTrue'
  BY <1>1, <1>5 DEF PromiseInv, HonestInv, StagesTrue
<1>13. HonestProc(r)'
  <2>1. open'[r] \cap Free' = {}
    <3>1. CASE plan[r].auto
      <4>1. new \notin open[r]
        BY <1>1 DEF PromiseInv, TypeInv, TypeOK
      <4> QED
        BY <1>3, <1>4, <1>6, <3>1, <4>1
    <3>2. CASE ~plan[r].auto
      <4>1. new \notin Free /\ Free' = Free
        BY <1>1, <1>3, <1>6, <3>2 DEF Free
      <4> QED
        BY <1>3, <1>4, <3>2, <4>1
    <3> QED
      BY <3>1, <3>2
  <2> QED
    BY <1>4, <2>1 DEF HonestProc
<1>14. ASSUME NEW q \in Procs, q # r PROVE HonestProc(q)'
  <2>1. HonestProc(q) /\ pc'[q] = pc[q] /\ todo'[q] = todo[q]
    BY <1>4, <1>14 DEF PromiseInv, HonestInv
  <2>2. q \in Runners => /\ open'[q] = open[q] /\ plan'[q] = plan[q]
                         /\ new \notin open[q]
    BY <1>1, <1>4, <1>14 DEF PromiseInv, TypeInv, TypeOK
  <2> QED
    BY <1>2, <1>6, <2>1, <2>2 DEF HonestProc
<1> QED
  BY <1>1, <1>11, <1>12, <1>13, <1>14 DEF HonestInv

\* The run apart from its new rows: it approves its own, and flags what it asked.
LEMMA PromiseByRun ==
    ASSUME PromiseInv, NEW r \in Runners, RunStep(r), ~ExecuteStep(r),
           ~QueueAction(r)
    PROVE  HonestInv' /\ [Promise!Next]_(Promise!vars)
<1> USE ProcFacts DEF Goto, PromiseInv, HonestInv
<1>1. /\ r \in Procs /\ r \in Agents /\ HonestProc(r) /\ Free \subseteq Queued
      /\ \A q \in Procs \ {r} : pc'[q] = pc[q] /\ todo'[q] = todo[q]
      /\ \A q \in Runners \ {r} : open'[q] = open[q] /\ plan'[q] = plan[q]
      /\ ran' = ran
  BY DEF RunStep, BeginRun, Collect, SkipItem, Route, AutoApprove,
         RoutingDone, ListToExecute, Notify, FlagSent, EndRun, Handled, obs,
         TypeInv, TypeOK, Free
<1>2. CASE BeginRun(r)
  <2>1. /\ Promise!Lapse /\ UNCHANGED <<count, about>>
        /\ \A b \in Actions : state'[b] = "none" <=> state[b] = "none"
    BY <1>2, LapseSeen DEF BeginRun
  <2>2. pc'[r] = "collect" /\ open' = open /\ Free' = Free
    BY <1>1, <1>2, <2>1 DEF BeginRun, TypeInv, TypeOK, Free, Queued
  <2>3. HonestProc(r)'
    BY <1>1, <2>2 DEF HonestProc
  <2> QED
    BY <1>1, <2>1, <2>3, HonestByStep DEF Promise!Next
<1>3. CASE AutoApprove(r)
  <2> DEFINE a == First(todo[r])
  <2>1. a \in Queued /\ "approved" \in Statuses /\ UpdateStatus(a, "approved")
    BY <1>1, <1>3, FirstQueued DEF AutoApprove, TypeInv, RowInHand, Statuses
  <2>2. /\ Promise!Write(a, "approved") /\ UNCHANGED <<count, about>>
        /\ \A b \in Actions : state'[b] = "none" <=> state[b] = "none"
    BY <2>1, StatusSeen
  <2>3. Promise!Agree(a) /\ a \in Actions
    BY <1>1, <1>3, <2>1, <2>2, QueuedFacts DEF AutoApprove, Promise!Agree, TypeInv
  <2>4. pc'[r] = "route" /\ open' = open /\ Free' = Free
    BY <1>1, <1>3, <2>2 DEF AutoApprove, TypeInv, TypeOK, Free, Queued
  <2>5. HonestProc(r)'
    BY <1>1, <2>4 DEF HonestProc
  <2> QED
    BY <1>1, <2>2, <2>3, <2>5, HonestByStep DEF Promise!Next
<1>4. CASE FlagSent(r)
  <2> DEFINE a == First(todo[r])
  <2>1. /\ a \in Queued /\ a \in todo[r] /\ pc[r] = "flag"
        /\ "pending" \in Statuses /\ UpdateStatus(a, "pending")
    BY <1>1, <1>4, FirstQueued DEF FlagSent, TypeInv, Statuses
  <2>2. /\ Promise!Write(a, "pending") /\ UNCHANGED <<count, about>>
        /\ \A b \in Actions : state'[b] = "none" <=> state[b] = "none"
    BY <2>1, StatusSeen
  <2>3. a \notin Free
    BY <1>1, <2>1 DEF HonestProc
  <2>4. Promise!Reopen(a) /\ a \in Actions
    BY <1>4, <2>1, <2>2, <2>3, QueuedFacts DEF FlagSent, Promise!Reopen, obs, TypeInv
  <2>5. /\ pc' = pc /\ open' = open /\ plan' = plan /\ Free' = Free
        /\ todo'[r] \subseteq todo[r]
    BY <1>1, <1>4, <2>2 DEF FlagSent, Handled, TypeInv, TypeOK, Free, Queued
  <2>6. HonestProc(r)'
    BY <1>1, <2>1, <2>5 DEF HonestProc
  <2> QED
    BY <1>1, <2>2, <2>4, <2>6, HonestByStep DEF Promise!Next
<1>5. CASE \/ Collect(r) \/ SkipItem(r) \/ Route(r) \/ RoutingDone(r)
           \/ ListToExecute(r) \/ Notify(r) \/ EndRun(r)
  <2>1. UNCHANGED <<count, state, about, consented, ran>>
    BY <1>5 DEF Collect, SkipItem, Route, RoutingDone, ListToExecute, Notify,
                EndRun, table, obs
  <2>2. Free' = Free /\ UNCHANGED Promise!vars
    BY <2>1, NothingSeen DEF Free, Queued
  <2>3. HonestProc(r)'
    <3>1. CASE Route(r)
      <4>1. PICK p \in Proposals :
               plan' = [plan EXCEPT ![r] =
                  [what |-> p, auto |-> \/ p.tier = "trivial"
                                        \/ memory[p.key] = "always_approve"]]
        BY <3>1 DEF Route
      <4>2. /\ plan'[r].what = p /\ (p.tier = "trivial" => plan'[r].auto)
            /\ pc'[r] = "queue" /\ open' = open
        BY <1>1, <3>1, <4>1 DEF Route, TypeInv, TypeOK
      <4> QED
        BY <1>1, <2>2, <4>2 DEF HonestProc
    <3>2. CASE Notify(r)
      <4>1. pc'[r] = "flag" /\ todo'[r] \subseteq open[r] /\ open' = open
        BY <1>1, <3>2 DEF Notify, TypeInv, TypeOK
      <4> QED
        BY <1>1, <2>2, <4>1 DEF HonestProc
    <3>3. CASE EndRun(r)
      <4>1. pc'[r] = "off" /\ open'[r] = {}
        BY <1>1, <3>3 DEF EndRun, TypeInv, TypeOK
      <4> QED
        BY <4>1 DEF HonestProc
    <3>4. CASE Collect(r) \/ SkipItem(r) \/ RoutingDone(r) \/ ListToExecute(r)
      <4>1. pc'[r] \notin {"mark", "flag", "queue"} /\ open' = open
        BY <1>1, <3>4 DEF Collect, SkipItem, RoutingDone, ListToExecute, TypeInv, TypeOK
      <4> QED
        BY <1>1, <2>2, <4>1 DEF HonestProc
    <3> QED
      BY <1>5, <3>1, <3>2, <3>3, <3>4
  <2> QED
    BY <1>1, <2>1, <2>2, <2>3, HonestByStep
<1> QED
  BY <1>2, <1>3, <1>4, <1>5 DEF RunStep

LEMMA PromiseByExecute ==
    ASSUME PromiseInv, NEW p \in Agents, ExecuteStep(p) \/ CallExecute(p)
    PROVE  HonestInv' /\ [Promise!Next]_(Promise!vars)
<1> USE ProcFacts DEF Goto, PromiseInv, HonestInv
<1>1. /\ p \in Procs /\ HonestProc(p)
      /\ \A q \in Procs \ {p} : pc'[q] = pc[q] /\ todo'[q] = todo[q]
      /\ UNCHANGED <<open, plan, consented>>
  BY DEF ExecuteStep, RunAction, MarkExecuted, ExecuteDone, CallExecute, Handled,
         obs, TypeInv, TypeOK
<1>2. CASE RunAction(p)
  <2> DEFINE a == First(todo[p])
  <2>1. /\ a \in todo[p] /\ a \in Queued /\ pc[p] = "exec"
        /\ ran' = ran \cup {a} /\ todo' = todo /\ pc'[p] = "mark"
        /\ UNCHANGED <<count, state, about, consented>>
    BY <1>1, <1>2, FirstQueued DEF RunAction, TypeInv, TypeOK, table
  <2>2. a \in consented /\ a \in Actions
    BY <2>1, QueuedFacts DEF ConsentInv, TypeInv
  <2>3. UNCHANGED <<About, Free>>
    BY <2>1 DEF About, Free, Queued
  <2>4. Promise!Perform(a)
    BY <2>1, <2>2, <2>3 DEF Promise!Perform
  <2>5. HonestProc(p)'
    BY <1>1, <2>1, <2>3 DEF HonestProc
  <2> QED
    BY <1>1, <2>1, <2>2, <2>4, <2>5, HonestByStep DEF Promise!Next
<1>3. CASE MarkExecuted(p)
  <2> DEFINE a == First(todo[p])
  <2>1. /\ a \in Queued /\ "executed" \in Statuses /\ UpdateStatus(a, "executed")
        /\ pc[p] = "mark" /\ pc'[p] = "exec" /\ ran' = ran
    BY <1>1, <1>3, FirstQueued
    DEF MarkExecuted, TypeInv, TypeOK, RowInHand, Statuses, obs
  <2>2. /\ Promise!Write(a, "executed") /\ UNCHANGED <<count, about>>
        /\ \A b \in Actions : state'[b] = "none" <=> state[b] = "none"
    BY <2>1, StatusSeen
  <2>3. Promise!Record(a) /\ a \in Actions
    BY <1>1, <2>1, <2>2, QueuedFacts DEF HonestProc, Promise!Record, TypeInv
  <2>4. Free' = Free
    BY <2>2 DEF Free, Queued
  <2>5. HonestProc(p)'
    BY <1>1, <2>1, <2>4 DEF HonestProc
  <2> QED
    BY <1>1, <2>1, <2>2, <2>3, <2>5, HonestByStep DEF Promise!Next
<1>4. CASE ExecuteDone(p) \/ CallExecute(p)
  <2>1. /\ UNCHANGED <<count, state, about, consented, ran>>
        /\ pc'[p] \notin {"mark", "flag", "queue"}
    BY <1>1, <1>4 DEF ExecuteDone, CallExecute, table, obs, TypeInv, TypeOK
  <2>2. Free' = Free /\ UNCHANGED Promise!vars
    BY <2>1, NothingSeen DEF Free, Queued
  <2>3. HonestProc(p)'
    BY <1>1, <2>1, <2>2 DEF HonestProc
  <2> QED
    BY <1>1, <2>1, <2>2, <2>3, HonestByStep
<1> QED
  BY <1>2, <1>3, <1>4 DEF ExecuteStep

\* A decision, by whomever: a consent or a refusal.
LEMMA DecisionSeen ==
    ASSUME TypeInv, StagesTrue, NEW a \in Queued, NEW yes \in BOOLEAN,
           Decided(a, yes)
    PROVE  /\ Promise!Agree(a) \/ Promise!Refuse(a)
           /\ UNCHANGED <<count, about, ran>>
           /\ \A b \in Actions : state'[b] = "none" <=> state[b] = "none"
<1>1. Verdict(yes) \in Statuses /\ UpdateStatus(a, Verdict(yes)) /\ ran' = ran
  BY DEF Verdict, Statuses, Decided
<1>2. /\ Promise!Write(a, Verdict(yes)) /\ UNCHANGED <<count, about>>
      /\ \A b \in Actions : state'[b] = "none" <=> state[b] = "none"
  BY <1>1, StatusSeen
<1>3. CASE yes
  <2>1. Promise!Write(a, "approved")
    BY <1>2, <1>3 DEF Verdict
  <2> QED
    BY <1>1, <1>2, <1>3, <2>1 DEF Decided, Promise!Agree
<1>4. CASE ~yes
  <2>1. Promise!Write(a, "denied")
    BY <1>2, <1>4 DEF Verdict
  <2> QED
    BY <1>1, <1>2, <1>4, <2>1 DEF Decided, Promise!Refuse
<1> QED
  BY <1>3, <1>4

LEMMA PromiseByReply ==
    ASSUME PromiseInv, NEW p \in Repliers,
           ReplyOne(p) \/ ReplyAll(p) \/ ReplyStep(p)
    PROVE  HonestInv' /\ [Promise!Next]_(Promise!vars)
<1> USE ProcFacts DEF Goto, PromiseInv, HonestInv
<1>1. /\ p \in Procs /\ p \notin Agents /\ p \notin Runners
      /\ \A q \in Procs \ {p} : pc'[q] = pc[q] /\ todo'[q] = todo[q]
      /\ UNCHANGED <<open, plan>>
  BY DEF ReplyOne, ReplyAll, ReplyStep, Decide, Remember, ReplyDone, Handled,
         Agents, TypeInv, TypeOK
<1>2. HonestProc(p)'
  BY <1>1 DEF HonestProc
<1>3. CASE Decide(p)
  <2> DEFINE a == First(todo[p])
  <2>1. a \in Queued /\ reply[p].yes \in BOOLEAN /\ Decided(a, reply[p].yes)
    BY <1>1, <1>3, FirstQueued DEF Decide, TypeInv, TypeOK, Replies
  <2>2. /\ Promise!Agree(a) \/ Promise!Refuse(a)
        /\ UNCHANGED <<count, about, ran>>
        /\ \A b \in Actions : state'[b] = "none" <=> state[b] = "none"
    BY <2>1, DecisionSeen
  <2>3. a \in Actions
    BY <2>1, QueuedFacts DEF TypeInv
  <2> QED
    BY <1>1, <1>2, <2>2, <2>3, HonestByStep DEF Promise!Next
<1>4. CASE ReplyOne(p) \/ ReplyAll(p) \/ Remember(p) \/ ReplyDone(p)
  <2>1. UNCHANGED <<count, state, about, consented, ran>>
    BY <1>4 DEF ReplyOne, ReplyAll, Remember, ReplyDone, table, obs
  <2>2. UNCHANGED Promise!vars
    BY <2>1, NothingSeen
  <2> QED
    BY <1>1, <1>2, <2>1, <2>2, HonestByStep
<1> QED
  BY <1>3, <1>4 DEF ReplyStep

LEMMA PromiseOutside ==
    ASSUME PromiseInv,
           \/ \E a \in Actions, yes \in BOOLEAN : PostDecision(a, yes)
           \/ GetPending
           \/ \E a \in Actions : Age(a)
           \/ \E p \in Procs : Crash(p)
           \/ UNCHANGED vars
    PROVE  HonestInv' /\ [Promise!Next]_(Promise!vars)
<1> USE DEF PromiseInv, HonestInv
<1>1. ASSUME UNCHANGED <<count, about, ran, pc, todo, open, plan>>,
             \A b \in Actions : state'[b] = "none" <=> state[b] = "none"
      PROVE  HonestInv'
  <2>1. Queued' = Queued /\ Free' = Free
    BY <1>1 DEF Queued, Free
  <2>2. StagesTrue'
    BY <1>1, <2>1 DEF StagesTrue
  <2> QED
    BY <1>1, <2>1, <2>2 DEF HonestProc
<1>2. ASSUME NEW a \in Actions, NEW yes \in BOOLEAN, PostDecision(a, yes)
      PROVE  HonestInv' /\ Promise!Next
  <2>1. /\ Promise!Agree(a) \/ Promise!Refuse(a)
        /\ UNCHANGED <<count, about, ran>>
        /\ \A b \in Actions : state'[b] = "none" <=> state[b] = "none"
    BY <1>2, DecisionSeen DEF PostDecision
  <2>2. UNCHANGED <<pc, todo, open, plan>>
    BY <1>2 DEF PostDecision, local
  <2> QED
    BY <1>1, <2>1, <2>2 DEF Promise!Next
<1>3. CASE GetPending
  <2>1. /\ Promise!Lapse /\ UNCHANGED <<count, about>>
        /\ \A b \in Actions : state'[b] = "none" <=> state[b] = "none"
    BY <1>3, LapseSeen DEF GetPending
  <2>2. UNCHANGED <<pc, todo, open, plan, ran>>
    BY <1>3 DEF GetPending, local, obs
  <2> QED
    BY <1>1, <2>1, <2>2 DEF Promise!Next
<1>4. CASE (\E a \in Actions : Age(a)) \/ UNCHANGED vars
  <2>1. UNCHANGED <<count, state, about, consented, ran, pc, todo, open, plan>>
    BY <1>4 DEF Age, vars, table, local, obs
  <2> QED
    BY <1>1, <2>1, NothingSeen
<1>5. ASSUME NEW p \in Procs, Crash(p) PROVE HonestInv' /\ UNCHANGED Promise!vars
  <2>1. UNCHANGED <<count, state, about, consented, ran>>
    BY <1>5 DEF Crash, table, obs
  <2>2. /\ pc'[p] = "off" /\ (p \in Runners => open'[p] = {})
        /\ \A q \in Procs \ {p} : pc'[q] = pc[q] /\ todo'[q] = todo[q]
        /\ \A q \in Runners \ {p} : open'[q] = open[q] /\ plan'[q] = plan[q]
    BY <1>5 DEF Crash, Goto, TypeInv, TypeOK
  <2>3. HonestProc(p)'
    BY <2>2 DEF HonestProc
  <2> QED
    BY <2>1, <2>2, <2>3, NothingSeen, HonestByStep
<1> QED
  BY <1>2, <1>3, <1>4, <1>5

\* With one proactive agent, whatever the runs, executors, replies, requests
\* and crashes do in whatever order, the table keeps the promise of
\* ApprovalPromise: each status says what has happened to its action
\* (approval_store.py:186-293, proactive_agent.py:361-509,
\* proactive_tools.py:369-397).
THEOREM StatusesAreTrue ==
    ASSUME \A r, s \in Runners : r = s
    PROVE  Spec => KeepsPromise
<1>1. Spec => [](TypeInv /\ ConsentInv /\ UnseenInv)
  BY TypeInvariant, ConsentHolds, UnseenHolds, PTL
<1>2. Init => Promise!Init /\ HonestInv
  <2> SUFFICES ASSUME Init PROVE Promise!Init /\ HonestInv
    OBVIOUS
  <2>1. Queued = {} /\ Free = {}
    BY DEF Init, Queued, Free
  <2>2. StagesTrue
    BY <2>1 DEF Init, StagesTrue
  <2>3. \A p \in Procs : HonestProc(p)
    BY <2>1 DEF Init, HonestProc
  <2>4. Promise!Init
    BY <2>1 DEF Init, Promise!Init, About, NoProposal
  <2> QED
    BY <2>2, <2>3, <2>4 DEF HonestInv
<1>3. PromiseInv /\ [Next]_vars => HonestInv' /\ [Promise!Next]_(Promise!vars)
  <2> SUFFICES ASSUME PromiseInv, [Next]_vars
               PROVE  HonestInv' /\ [Promise!Next]_(Promise!vars)
    OBVIOUS
  <2>1. ASSUME NEW r \in Runners, QueueAction(r)
        PROVE  HonestInv' /\ Promise!Next
    BY <2>1, PromiseByQueue DEF Promise!Next
  <2>2. ASSUME NEW r \in Runners, RunStep(r)
        PROVE  HonestInv' /\ [Promise!Next]_(Promise!vars)
    BY <2>1, <2>2, ProcFacts, PromiseByRun, PromiseByExecute
  <2>3. ASSUME NEW e \in Execs, CallExecute(e) \/ ExecuteStep(e)
        PROVE  HonestInv' /\ [Promise!Next]_(Promise!vars)
    BY <2>3, ProcFacts, PromiseByExecute
  <2>4. CASE User \/ \E p \in Repliers : ReplyStep(p)
    BY <2>4, PromiseByReply, PromiseOutside DEF User
  <2> QED
    BY <2>2, <2>3, <2>4, PromiseOutside DEF Next
<1> QED
  BY <1>1, <1>2, <1>3, PTL
     DEF Spec, PromiseInv, KeepsPromise, Promise!Spec

=============================================================================
