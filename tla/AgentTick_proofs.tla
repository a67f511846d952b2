--------------------------- MODULE AgentTick_proofs ---------------------------
(***************************************************************************)
(* Theorems about AgentTick, for every set of requests, processes and      *)
(* messages and every value of the limits.                                 *)
(***************************************************************************)
EXTENDS AgentTick, TLAPS

-----------------------------------------------------------------------------
(* Types.  CountStall writes the count that _reconcile read, plus one: the *)
(* row stays within max_stall_retries because the scheduler thread decided *)
(* to release on a count below it.                                         *)

SeenBelowLimit == pc[Sched] \in {"release", "count"} => seen < MaxStallRetries

TypeInv == TypeOK /\ SeenBelowLimit

USE DEF Statuses, Phases, Entering, Ticking, Closing, Streaming, SchedSteps

LEMMA WorkerFacts ==
    /\ Sched \in Workers
    /\ Posts \subseteq Workers /\ Senders \subseteq Workers
    /\ Clis \subseteq Workers /\ Threads \subseteq Workers
    /\ Streams \subseteq Senders
    /\ Sched \notin Posts /\ Sched \notin Senders /\ Sched \notin Clis
BY WorkersAssumption DEF Threads, Senders, Workers

LEMMA InitTypes == Init => TypeInv
<1> SUFFICES ASSUME Init PROVE TypeInv
  OBVIOUS
<1>1. MaxRetries \in Nat /\ MaxRetries >= 1 /\ Budget \in Nat /\ MaxStallRetries \in Nat
  BY ConstantsAssumption
<1>2. SeenBelowLimit
  BY WorkerFacts DEF Init, SeenBelowLimit
<1>3. TypeOK
  <2>1. status \in Statuses /\ fresh \in BOOLEAN /\ activity \in {"none", "recent", "old"}
    BY DEF Init
  <2>2. spent \in 0 .. Budget + 2 /\ stalls \in 0 .. MaxStallRetries /\ seen \in 0 .. MaxStallRetries
    BY <1>1 DEF Init
  <2>3. msg \in [Messages -> {"unsent", "pending", "delivered"}]
    BY DEF Init
  <2>4. up \in BOOLEAN /\ registered \in BOOLEAN /\ due \in BOOLEAN
    BY ConstantsAssumption DEF Init
  <2>5. pc \in [Workers -> Phases]
    BY DEF Init
  <2>6. inbox \in [Workers -> SUBSET Messages]
    BY DEF Init
  <2>7. attempt \in [Workers -> 1 .. MaxRetries]
    BY <1>1 DEF Init
  <2>8. prompted \in SUBSET Messages /\ answered \in SUBSET Messages
    BY DEF Init
  <2>9. orphan \in BOOLEAN /\ held \in BOOLEAN
    BY DEF Init
  <2> QED
    BY <2>1, <2>2, <2>3, <2>4, <2>5, <2>6, <2>7, <2>8, <2>9 DEF TypeOK
<1> QED
  BY <1>2, <1>3 DEF TypeInv

\* The steps of a worker that is asked for a tick or executes one.
LEMMA RequestTypes ==
    ASSUME TypeInv, NEW w \in Workers, Request(w)
    PROVE  TypeInv'
<1> USE ConstantsAssumption, WorkerFacts
        DEF TypeInv, TypeOK, SeenBelowLimit, Goto, row, host, Unsent
<1>1. CASE PostRun(w)
  BY <1>1 DEF PostRun
<1>2. CASE SendMessage(w)
  <2> PICK m \in Unsent : inbox' = [inbox EXCEPT ![w] = {m}]
    BY <1>2 DEF SendMessage
  <2>1. inbox' \in [Workers -> SUBSET Messages]
    OBVIOUS
  <2>2. pc' \in [Workers -> Phases]
    BY <1>2 DEF SendMessage
  <2>3. SeenBelowLimit'
    BY <1>2 DEF SendMessage
  <2>4. TypeOK'
    BY <1>2, <2>1, <2>2 DEF SendMessage
  <2> QED
    BY <2>3, <2>4
<1>3. CASE CliRun(w)
  BY <1>3 DEF CliRun
<1> QED
  BY <1>1, <1>2, <1>3 DEF Request

\* SetStatus, and the statements that write updated_at beside it, are typed.
LEMMA TickTypes ==
    ASSUME TypeInv, NEW w \in Workers, TickStep(w)
    PROVE  TypeInv'
<1> USE ConstantsAssumption, WorkerFacts
        DEF TypeInv, TypeOK, SeenBelowLimit, Goto, Done, SetStatus, Touch,
            row, host, obs
<1>1. CASE AutoRecover(w)
  BY <1>1 DEF AutoRecover
<1>2. CASE StoreMessage(w)
  BY <1>2 DEF StoreMessage
<1>3. CASE StartTick(w)
  BY <1>3 DEF StartTick
<1>4. CASE Claim(w)
  BY <1>4 DEF Claim
<1>5. CASE ReadPending(w)
  BY <1>5 DEF ReadPending
<1>6. CASE MarkDelivered(w)
  BY <1>6 DEF MarkDelivered, local
<1>16. CASE StartRun(w)
  BY <1>16 DEF StartRun
<1>7. CASE RunReturns(w)
  BY <1>7 DEF RunReturns
<1>8. CASE RunRetries(w)
  BY <1>8 DEF RunRetries
<1>9. CASE RunFails(w)
  BY <1>9 DEF RunFails
<1>10. CASE SetupFails(w)
  BY <1>10 DEF SetupFails
<1>11. CASE Interrupted(w)
  BY <1>11 DEF Interrupted
<1>12. CASE EndTick(w)
  <2>1. pc[w] \in DOMAIN AfterEnd => AfterEnd[pc[w]] \in Closing
    BY DEF AfterEnd
  <2>2. pc' \in [Workers -> Phases]
    BY <1>12, <2>1 DEF EndTick
  <2>3. SeenBelowLimit'
    BY <1>12, <2>1 DEF EndTick
  <2>4. inbox' \in [Workers -> SUBSET Messages]
    BY <1>12 DEF EndTick
  <2>5. attempt' \in [Workers -> 1 .. MaxRetries]
    BY <1>12 DEF EndTick
  <2> QED
    BY <1>12, <2>2, <2>3, <2>4, <2>5 DEF EndTick
<1>13. CASE Account(w)
  BY <1>13 DEF Account
<1>14. CASE SettleBudget(w)
  BY <1>14 DEF SettleBudget
<1>15. CASE MarkOutcome(w)
  <2>1. pc[w] \in DOMAIN Outcome => Outcome[pc[w]] \in Statuses
    BY DEF Outcome
  <2>2. pc' \in [Workers -> Phases]
    BY <1>15 DEF MarkOutcome
  <2>3. SeenBelowLimit'
    BY <1>15 DEF MarkOutcome
  <2> QED
    BY <1>15, <2>1, <2>2, <2>3 DEF MarkOutcome
<1> QED
  BY <1>1, <1>2, <1>3, <1>4, <1>5, <1>6, <1>7, <1>8, <1>9, <1>10, <1>11,
     <1>12, <1>13, <1>14, <1>15, <1>16 DEF TickStep, RunEnds

LEMMA StreamTypes ==
    ASSUME TypeInv, NEW w \in Workers, StreamStep(w)
    PROVE  TypeInv'
<1> USE ConstantsAssumption, WorkerFacts
        DEF TypeInv, TypeOK, SeenBelowLimit, Goto, row, host, obs
<1>1. CASE RefuseStream(w)
  BY <1>1 DEF RefuseStream
<1>2. CASE ReadHistory(w)
  BY <1>2 DEF ReadHistory
<1>3. CASE MarkStreamed(w)
  BY <1>3 DEF MarkStreamed
<1>4. CASE EndStream(w)
  BY <1>4 DEF EndStream
<1> QED
  BY <1>1, <1>2, <1>3, <1>4 DEF StreamStep

\* The scheduler thread between ticks: CountStall needs SeenBelowLimit.
LEMMA SchedTypes ==
    ASSUME TypeInv, SchedStep
    PROVE  TypeInv'
<1> USE ConstantsAssumption, WorkerFacts
        DEF TypeInv, TypeOK, SeenBelowLimit, Goto, SetStatus, Touch,
            row, host, obs
<1>1. CASE Fire
  BY <1>1 DEF Fire
<1>2. CASE MoveNextFire
  BY <1>2 DEF MoveNextFire
<1>3. CASE Reconcile
  BY <1>3 DEF Reconcile
<1>4. CASE ReleaseStalled
  BY <1>4 DEF ReleaseStalled
<1>5. CASE CountStall
  BY <1>5 DEF CountStall
<1>6. CASE GiveUpStalled
  <2>1. seen' \in 0 .. MaxStallRetries
    BY <1>6 DEF GiveUpStalled
  <2>2. pc' \in [Workers -> Phases] /\ SeenBelowLimit'
    BY <1>6 DEF GiveUpStalled
  <2> QED
    BY <1>6, <2>1, <2>2 DEF GiveUpStalled
<1> QED
  BY <1>1, <1>2, <1>3, <1>4, <1>5, <1>6 DEF SchedStep

\* Everything else.
LEMMA OutsideTypes ==
    ASSUME TypeInv,
           \/ \E w \in Workers : ToolCall(w)
           \/ Operator \/ Clock \/ Crash \/ Boot
    PROVE  TypeInv'
<1> USE ConstantsAssumption, WorkerFacts
        DEF TypeInv, TypeOK, SeenBelowLimit, SetStatus, Touch,
            row, host, local, obs
<1>1. CASE \E w \in Workers : ToolCall(w)
  BY <1>1 DEF ToolCall
<1>2. ASSUME NEW s \in Statuses, Operate(s) PROVE TypeInv'
  BY <1>2 DEF Operate
<1>3. ASSUME NEW m \in Messages, Queue(m) PROVE TypeInv'
  BY <1>3 DEF Queue
<1>4. CASE Operator
  BY <1>2, <1>3, <1>4 DEF Operator, Pause, Delete, Resume
<1>5. CASE Clock
  <2>1. CASE Silence
    BY <2>1 DEF Silence
  <2>2. CASE Quiet
    BY <2>2 DEF Quiet
  <2>3. CASE BecomeDue
    BY <2>3 DEF BecomeDue
  <2> QED
    BY <1>5, <2>1, <2>2, <2>3 DEF Clock
<1>6. CASE HostCrash
  <2>1. pc' \in [Workers -> Phases] /\ SeenBelowLimit'
    BY <1>6 DEF HostCrash, Dead, Threads
  <2>2. inbox' \in [Workers -> SUBSET Messages]
    BY <1>6 DEF HostCrash, Dead
  <2>3. attempt' \in [Workers -> 1 .. MaxRetries]
    BY <1>6 DEF HostCrash, Dead
  <2>4. seen' \in 0 .. MaxStallRetries /\ orphan' \in BOOLEAN
    BY <1>6 DEF HostCrash, Dead
  <2> QED
    BY <1>6, <2>1, <2>2, <2>3, <2>4 DEF HostCrash
<1>7. ASSUME NEW w \in Clis, CliCrash(w) PROVE TypeInv'
  BY <1>7 DEF CliCrash, Dead
<1>8. CASE Boot
  BY <1>8 DEF Boot
<1>9. ASSUME NEW w \in Workers, LeaveTick(w) PROVE TypeInv'
  BY <1>9 DEF LeaveTick, Goto, Done
<1> QED
  BY <1>1, <1>4, <1>5, <1>6, <1>7, <1>8, <1>9 DEF Crash

LEMMA NextTypes == TypeInv /\ [Next]_vars => TypeInv'
<1> SUFFICES ASSUME TypeInv, [Next]_vars PROVE TypeInv'
  OBVIOUS
<1>1. ASSUME NEW w \in Workers, Request(w) PROVE TypeInv'
  BY <1>1, RequestTypes
<1>2. ASSUME NEW w \in Workers, TickStep(w) PROVE TypeInv'
  BY <1>2, TickTypes
<1>3. CASE SchedStep
  BY <1>3, SchedTypes
<1>4. CASE \/ \E w \in Workers : ToolCall(w)
           \/ Operator \/ Clock \/ Crash \/ Boot
  BY <1>4, OutsideTypes
<1>5. CASE UNCHANGED vars
  BY <1>5 DEF TypeInv, TypeOK, SeenBelowLimit, vars, row, host, local, obs
<1>6. ASSUME NEW w \in Workers, StreamStep(w) PROVE TypeInv'
  BY <1>6, StreamTypes
<1> QED
  BY <1>1, <1>2, <1>3, <1>4, <1>5, <1>6 DEF Next

\* Every reachable state is well typed; in particular stall_retries never
\* exceeds max_stall_retries (scheduler.py:215-246) and an attempt's number
\* never exceeds _MAX_RETRIES (executor.py:211-248).
THEOREM TypeInvariant == Spec => []TypeInv
<1>1. Init => TypeInv
  BY InitTypes
<1>2. TypeInv /\ [Next]_vars => TypeInv'
  BY NextTypes
<1> QED
  BY <1>1, <1>2, PTL DEF Spec

THEOREM TypeCorrect == Spec => []TypeOK
<1>1. TypeInv => TypeOK
  BY DEF TypeInv
<1> QED
  BY <1>1, TypeInvariant, PTL

-----------------------------------------------------------------------------
(* Ownership of a running row.                                             *)

\* A worker that moves without leaving its tick keeps the row owned.
LEMMA MoveKeepsOwner ==
    ASSUME TypeOK, RunningIsOwned, NEW w \in Workers, NEW phase,
           Goto(w, phase), UNCHANGED <<status, orphan>>,
           pc[w] \in Ticking => phase \in Ticking
    PROVE  RunningIsOwned'
BY DEF TypeOK, RunningIsOwned, Goto

LEMMA OwnedByTick ==
    ASSUME TypeOK, RunningIsOwned, NEW w \in Workers,
           Request(w) \/ TickStep(w) \/ StreamStep(w) \/ ToolCall(w)
    PROVE  RunningIsOwned'
<1> USE DEF row, obs, Done
<1>1. CASE Request(w)
  <2>1. /\ pc[w] = "off" /\ UNCHANGED <<status, orphan>>
        /\ \E phase : Goto(w, phase)
    BY <1>1 DEF Request, PostRun, SendMessage, CliRun
  <2> QED
    BY <2>1, MoveKeepsOwner
<1>2. CASE AutoRecover(w) \/ EndTick(w) \/ MarkOutcome(w)
  <2>1. status' # "running"
    BY <1>2 DEF AutoRecover, EndTick, MarkOutcome, Outcome, SetStatus
  <2> QED
    BY <2>1 DEF RunningIsOwned
<1>3. CASE Claim(w)
  BY <1>3 DEF Claim, Goto, TypeOK, RunningIsOwned
<1>4. CASE StoreMessage(w) \/ StartTick(w) \/ SetupFails(w)
           \/ Account(w) \/ SettleBudget(w)
  <2>1. /\ pc[w] \notin Ticking /\ UNCHANGED <<status, orphan>>
        /\ \E phase : Goto(w, phase)
    BY <1>4 DEF StoreMessage, StartTick, SetupFails, Account, SettleBudget
  <2> QED
    BY <2>1, MoveKeepsOwner
<1>5. CASE ReadPending(w) \/ StartRun(w) \/ RunEnds(w) \/ Interrupted(w)
  <2>1. /\ UNCHANGED <<status, orphan>>
        /\ \E phase \in Ticking : Goto(w, phase)
    BY <1>5 DEF ReadPending, StartRun, RunEnds, RunReturns, RunRetries,
                RunFails, Interrupted
  <2> QED
    BY <2>1, MoveKeepsOwner
<1>6. CASE ToolCall(w) \/ MarkDelivered(w)
  BY <1>6 DEF ToolCall, MarkDelivered, row, local, RunningIsOwned
<1>7. CASE StreamStep(w)
  <2>1. /\ pc[w] \notin Ticking /\ UNCHANGED <<status, orphan>>
        /\ \E phase : Goto(w, phase)
    BY <1>7 DEF StreamStep, RefuseStream, ReadHistory, MarkStreamed, EndStream
  <2> QED
    BY <2>1, MoveKeepsOwner
<1> QED
  BY <1>1, <1>2, <1>3, <1>4, <1>5, <1>6, <1>7 DEF TickStep

LEMMA OwnedBySched ==
    ASSUME TypeOK, RunningIsOwned, SchedStep
    PROVE  RunningIsOwned'
<1> USE WorkerFacts DEF row, obs
<1>1. CASE ReleaseStalled \/ GiveUpStalled
  BY <1>1 DEF ReleaseStalled, GiveUpStalled, SetStatus, RunningIsOwned
<1>2. CASE Fire \/ MoveNextFire \/ Reconcile \/ CountStall
  <2>1. /\ pc[Sched] \notin Ticking /\ UNCHANGED <<status, orphan>>
        /\ \E phase : Goto(Sched, phase)
    BY <1>2 DEF Fire, MoveNextFire, Reconcile, CountStall
  <2> QED
    BY <2>1, MoveKeepsOwner
<1> QED
  BY <1>1, <1>2 DEF SchedStep

LEMMA OwnedOutside ==
    ASSUME TypeOK, RunningIsOwned, Operator \/ Clock \/ Crash \/ Boot
    PROVE  RunningIsOwned'
<1> USE DEF row, local, obs
<1>1. CASE Pause \/ Delete \/ Resume
  BY <1>1 DEF Pause, Delete, Resume, Operate, SetStatus, RunningIsOwned
<1>2. CASE \E m \in Messages : Queue(m)
  BY <1>2 DEF Queue, RunningIsOwned
<1>3. CASE Clock
  BY <1>3 DEF Clock, Silence, Quiet, BecomeDue, RunningIsOwned
<1>4. ASSUME NEW ws \in SUBSET Workers, Dead(ws), UNCHANGED status
      PROVE  RunningIsOwned'
  <2>1. CASE \E w \in ws : pc[w] \in Ticking
    BY <1>4, <2>1 DEF Dead, RunningIsOwned
  <2>2. CASE \A w \in ws : pc[w] \notin Ticking
    BY <1>4, <2>2 DEF Dead, RunningIsOwned, TypeOK
  <2> QED
    BY <2>1, <2>2
<1>5. CASE Crash
  <2>1. ASSUME NEW w \in Workers, LeaveTick(w) PROVE RunningIsOwned'
    BY <2>1 DEF LeaveTick, RunningIsOwned
  <2> QED
    BY <1>4, <1>5, <2>1, WorkerFacts DEF Crash, HostCrash, CliCrash
<1>6. CASE Boot
  BY <1>6 DEF Boot, SetStatus, RunningIsOwned
<1> QED
  BY <1>1, <1>2, <1>3, <1>5, <1>6 DEF Operator

\* No caller takes the tick and returns without releasing it: a row that says
\* running has a worker that will finalize it, unless one died there or left before
\* the try (executor.py:113-209, routes 1646-1694).
THEOREM RunningOwned == Spec => []RunningIsOwned
<1>1. Init => RunningIsOwned
  BY DEF Init, RunningIsOwned
<1>2. TypeOK /\ RunningIsOwned /\ [Next]_vars => RunningIsOwned'
  <2> SUFFICES ASSUME TypeOK, RunningIsOwned, [Next]_vars
               PROVE  RunningIsOwned'
    OBVIOUS
  <2>1. CASE UNCHANGED vars
    BY <2>1 DEF vars, row, local, obs, RunningIsOwned
  <2> QED
    BY <2>1, OwnedByTick, OwnedBySched, OwnedOutside DEF Next
<1> QED
  BY <1>1, <1>2, TypeCorrect, PTL DEF Spec

-----------------------------------------------------------------------------
(* The message queue.  A message moves unsent -> pending -> delivered and   *)
(* only ReadPending takes it, so what a worker holds tells what its status  *)
(* must be.                                                                 *)

Asking == {"recover", "store"}

\* One handler at a time is between its decision and its writes.
AskedInTurn ==
    /\ \A w \in Workers : pc[w] = "recover" => w \in Posts \cup Senders
    /\ \A w \in Workers : pc[w] = "store" => w \in Senders
    /\ \A v, w \in Workers : pc[v] \in Asking /\ pc[w] \in Asking => v = w

HeldMessages ==
    /\ \A i \in Senders : pc[i] \in Asking =>
                                \A m \in inbox[i] : msg[m] = "unsent"
    /\ \A w \in Workers : pc[w] \in {"deliver", "mark"} => inbox[w] \subseteq prompted
    /\ \A w \in Workers : pc[w] \in {"deliver", "history", "mark"} =>
                                \A m \in inbox[w] : msg[m] # "unsent"
    /\ \A w \in Workers : pc[w] \in {"think", "stream"} =>
                                \A m \in inbox[w] : msg[m] = "delivered"

\* The phases in which it matters what a worker holds.
Holding == Asking \cup {"deliver", "think", "history", "mark", "stream"}

AnsweredDelivered == \A m \in answered : msg[m] = "delivered"

MessageInv ==
    AskedInTurn /\ HeldMessages /\ AnsweredDelivered /\ DeliveredWasPrompted

LEMMA MoveKeepsMessages ==
    ASSUME TypeOK, MessageInv, NEW w \in Workers, NEW phase,
           Goto(w, phase), phase \notin Holding,
           UNCHANGED <<msg, inbox, prompted, answered>>
    PROVE  MessageInv'
<1> USE WorkerFacts DEF TypeOK, MessageInv, Goto, Asking, Holding
<1>1. AskedInTurn'
  BY DEF AskedInTurn
<1>2. HeldMessages'
  BY DEF HeldMessages
<1>3. AnsweredDelivered' /\ DeliveredWasPrompted'
  BY DEF AnsweredDelivered, DeliveredWasPrompted
<1> QED
  BY <1>1, <1>2, <1>3

LEMMA SameMessages ==
    ASSUME MessageInv, UNCHANGED <<pc, msg, inbox, prompted, answered>>
    PROVE  MessageInv'
BY DEF MessageInv, AskedInTurn, HeldMessages, AnsweredDelivered,
       DeliveredWasPrompted

LEMMA MessagesRequested ==
    ASSUME TypeOK, MessageInv, NEW w \in Workers, Request(w)
    PROVE  MessageInv'
<1> USE WorkerFacts, WorkersAssumption DEF TypeOK, Asking, Goto, Entering
<1>1. CASE PostRun(w)
  <2>1. AskedInTurn'
    BY <1>1 DEF PostRun, LoopFree, MessageInv, AskedInTurn
  <2>2. HeldMessages'
    BY <1>1 DEF PostRun, MessageInv, HeldMessages
  <2> QED
    BY <1>1, <2>1, <2>2 DEF PostRun, MessageInv, AnsweredDelivered,
                            DeliveredWasPrompted
<1>2. CASE SendMessage(w)
  <2> PICK m \in Unsent : inbox' = [inbox EXCEPT ![w] = {m}]
    BY <1>2 DEF SendMessage
  <2>1. AskedInTurn'
    BY <1>2 DEF SendMessage, LoopFree, MessageInv, AskedInTurn
  <2>2. m \in Messages /\ msg[m] = "unsent"
    BY DEF Unsent
  <2>3. HeldMessages'
    BY <1>2, <2>2 DEF SendMessage, MessageInv, HeldMessages
  <2> QED
    BY <1>2, <2>1, <2>3 DEF SendMessage, MessageInv, AnsweredDelivered,
                            DeliveredWasPrompted
<1>3. CASE CliRun(w)
  BY <1>3, MoveKeepsMessages DEF CliRun, Holding
<1> QED
  BY <1>1, <1>2, <1>3 DEF Request

LEMMA MessagesTicked ==
    ASSUME TypeOK, MessageInv, NEW w \in Workers, TickStep(w) \/ ToolCall(w)
    PROVE  MessageInv'
<1> USE WorkerFacts DEF obs, local, Done, Holding, Asking
<1>1. CASE AutoRecover(w)
  <2>1. CASE w \in Posts
    BY <1>1, <2>1, MoveKeepsMessages DEF AutoRecover
  <2>2. CASE w \notin Posts
    <3>1. pc[w] = "recover" /\ w \in Senders
      BY <1>1, <2>2 DEF AutoRecover, MessageInv, AskedInTurn
    <3>2. AskedInTurn'
      BY <1>1, <2>2, <3>1 DEF AutoRecover, Goto, MessageInv, AskedInTurn,
                              Asking, TypeOK
    <3>3. HeldMessages'
      BY <1>1, <2>2, <3>1 DEF AutoRecover, Goto, MessageInv, HeldMessages,
                              Asking, TypeOK
    <3> QED
      BY <1>1, <3>2, <3>3 DEF AutoRecover, MessageInv, AnsweredDelivered,
                              DeliveredWasPrompted
  <2> QED
    BY <2>1, <2>2
<1>2. CASE StoreMessage(w)
  <2>1. pc[w] = "store" /\ w \in Senders
    BY <1>2 DEF StoreMessage, MessageInv, AskedInTurn
  <2>2. \A m \in Messages : msg[m] = "delivered" <=> msg'[m] = "delivered"
    BY <1>2, <2>1 DEF StoreMessage, MessageInv, HeldMessages, Asking, TypeOK
  <2>3. \A m \in Messages : msg[m] # "unsent" => msg'[m] # "unsent"
    BY <1>2, <2>1 DEF StoreMessage, TypeOK
  <2>4. \A v \in Workers : pc'[v] \in Holding
                            => \/ v # w /\ pc'[v] = pc[v] /\ inbox'[v] = inbox[v]
                               \/ v = w /\ pc'[v] = "history" /\ inbox'[v] = inbox[v]
    BY <1>2 DEF StoreMessage, Goto, TypeOK
  <2>8. \A m \in inbox[w] : msg'[m] = "pending"
    BY <1>2 DEF StoreMessage, TypeOK
  <2>5. AskedInTurn'
    BY <2>4 DEF MessageInv, AskedInTurn, Asking
  <2>6. \A i \in Senders : pc'[i] \notin Asking
    BY <2>1, <2>4 DEF MessageInv, AskedInTurn, Asking
  <2>7. HeldMessages'
    BY <1>2, <2>2, <2>3, <2>4, <2>6, <2>8
       DEF StoreMessage, MessageInv, HeldMessages, TypeOK
  <2> QED
    BY <1>2, <2>2, <2>5, <2>7 DEF StoreMessage, MessageInv, TypeOK,
                              AnsweredDelivered, DeliveredWasPrompted
<1>3. CASE ReadPending(w)
  <2>1. AskedInTurn'
    BY <1>3 DEF ReadPending, Goto, MessageInv, AskedInTurn, Asking, TypeOK
  <2>2. HeldMessages'
    BY <1>3 DEF ReadPending, Goto, MessageInv, HeldMessages, Asking, TypeOK
  <2> QED
    BY <1>3, <2>1, <2>2 DEF ReadPending, MessageInv, AnsweredDelivered,
                            DeliveredWasPrompted
<1>4. CASE MarkDelivered(w)
  <2>1. \A m \in Messages : msg'[m] # msg[m] =>
                              msg[m] # "unsent" /\ msg'[m] = "delivered"
    BY <1>4 DEF MarkDelivered, TypeOK
  <2>2. AskedInTurn'
    BY <1>4 DEF MarkDelivered, MessageInv, AskedInTurn, Asking
  <2>3. HeldMessages'
    BY <1>4, <2>1 DEF MarkDelivered, MessageInv, HeldMessages, TypeOK
  <2>4. DeliveredWasPrompted'
    BY <1>4 DEF MarkDelivered, MessageInv, HeldMessages, DeliveredWasPrompted,
                TypeOK
  <2>5. AnsweredDelivered'
    BY <1>4, <2>1 DEF MarkDelivered, MessageInv, AnsweredDelivered, TypeOK
  <2> QED
    BY <2>2, <2>3, <2>4, <2>5 DEF MessageInv
<1>9. CASE StartRun(w)
  <2>1. AskedInTurn'
    BY <1>9 DEF StartRun, Goto, MessageInv, AskedInTurn, Asking, TypeOK
  <2>2. HeldMessages'
    BY <1>9 DEF StartRun, Goto, MessageInv, HeldMessages, Asking, TypeOK
  <2> QED
    BY <1>9, <2>1, <2>2 DEF StartRun, MessageInv, AnsweredDelivered,
                            DeliveredWasPrompted
<1>5. CASE RunReturns(w)
  <2>1. AskedInTurn'
    BY <1>5 DEF RunReturns, Goto, MessageInv, AskedInTurn, Asking, TypeOK
  <2>2. HeldMessages'
    BY <1>5 DEF RunReturns, Goto, MessageInv, HeldMessages, Asking, TypeOK
  <2>3. AnsweredDelivered'
    BY <1>5 DEF RunReturns, MessageInv, HeldMessages, AnsweredDelivered
  <2> QED
    BY <1>5, <2>1, <2>2, <2>3 DEF RunReturns, MessageInv, DeliveredWasPrompted
<1>6. CASE EndTick(w)
  <2>1. pc'[w] \in {"account", "settle", "markfail", "markescalate"}
    BY <1>6 DEF EndTick, AfterEnd, Goto, TypeOK
  <2>2. \A v \in Workers : pc'[v] \in Holding
                            => pc'[v] = pc[v] /\ inbox'[v] = inbox[v]
    BY <1>6, <2>1 DEF EndTick, Goto, TypeOK
  <2>3. AskedInTurn'
    BY <2>2 DEF MessageInv, AskedInTurn, Asking
  <2>4. HeldMessages'
    BY <1>6, <2>2 DEF EndTick, MessageInv, HeldMessages, Asking
  <2> QED
    BY <1>6, <2>3, <2>4 DEF EndTick, MessageInv, AnsweredDelivered,
                            DeliveredWasPrompted
<1>7. CASE StartTick(w) \/ Claim(w) \/ RunRetries(w) \/ RunFails(w)
           \/ SetupFails(w) \/ Interrupted(w) \/ Account(w)
           \/ SettleBudget(w) \/ MarkOutcome(w)
  <2>1. /\ \E phase : /\ Goto(w, phase)
                      /\ phase \notin Holding
        /\ UNCHANGED <<msg, inbox, prompted, answered>>
    BY <1>7 DEF StartTick, Claim, RunRetries, RunFails, SetupFails,
                Interrupted, Account, SettleBudget, MarkOutcome
  <2> QED
    BY <2>1, MoveKeepsMessages
<1>8. CASE ToolCall(w)
  BY <1>8, SameMessages DEF ToolCall
<1> QED
  BY <1>1, <1>2, <1>3, <1>4, <1>5, <1>6, <1>7, <1>8, <1>9 DEF TickStep, RunEnds

LEMMA MessagesStreamed ==
    ASSUME TypeOK, MessageInv, NEW w \in Workers, StreamStep(w)
    PROVE  MessageInv'
<1> USE WorkerFacts DEF TypeOK, Goto, Asking
<1>1. CASE RefuseStream(w)
  <2>1. AskedInTurn' /\ HeldMessages'
    BY <1>1 DEF RefuseStream, obs, MessageInv, AskedInTurn, HeldMessages
  <2> QED
    BY <1>1, <2>1 DEF RefuseStream, obs, MessageInv, AnsweredDelivered, DeliveredWasPrompted
<1>2. CASE ReadHistory(w)
  <2>1. AskedInTurn'
    BY <1>2 DEF ReadHistory, MessageInv, AskedInTurn
  <2>2. HeldMessages'
    BY <1>2 DEF ReadHistory, MessageInv, HeldMessages
  <2> QED
    BY <1>2, <2>1, <2>2 DEF ReadHistory, MessageInv, AnsweredDelivered, DeliveredWasPrompted
<1>3. CASE MarkStreamed(w)
  <2>1. \A m \in Messages : msg'[m] = IF m \in inbox[w] THEN "delivered" ELSE msg[m]
    BY <1>3 DEF MarkStreamed
  <2>2. AskedInTurn'
    BY <1>3 DEF MarkStreamed, MessageInv, AskedInTurn
  <2>3. \A m \in inbox[w] : msg[m] # "unsent" /\ m \in prompted
    BY <1>3 DEF MarkStreamed, MessageInv, HeldMessages
  <2>4. HeldMessages'
    BY <1>3, <2>1, <2>3 DEF MarkStreamed, obs, MessageInv, HeldMessages
  <2>5. AnsweredDelivered' /\ DeliveredWasPrompted'
    BY <1>3, <2>1, <2>3 DEF MarkStreamed, obs, MessageInv, AnsweredDelivered,
                            DeliveredWasPrompted
  <2> QED
    BY <2>2, <2>4, <2>5 DEF MessageInv
<1>4. CASE EndStream(w)
  <2>1. AskedInTurn' /\ HeldMessages'
    BY <1>4 DEF EndStream, MessageInv, AskedInTurn, HeldMessages
  <2>2. AnsweredDelivered' /\ DeliveredWasPrompted'
    BY <1>4 DEF EndStream, MessageInv, HeldMessages, AnsweredDelivered, DeliveredWasPrompted
  <2> QED
    BY <2>1, <2>2 DEF MessageInv
<1> QED
  BY <1>1, <1>2, <1>3, <1>4 DEF StreamStep

LEMMA MessagesOutside ==
    ASSUME TypeOK, MessageInv,
           SchedStep \/ Operator \/ Clock \/ Crash \/ Boot
    PROVE  MessageInv'
<1> USE WorkerFacts DEF row, obs, local, host, Holding, Asking
<1>1. CASE SchedStep
  <2>1. /\ \E phase : /\ Goto(Sched, phase)
                      /\ phase \notin Holding
        /\ UNCHANGED <<msg, inbox, prompted, answered>>
    BY <1>1 DEF SchedStep, Fire, MoveNextFire, Reconcile, ReleaseStalled,
                CountStall, GiveUpStalled
  <2> QED
    BY <2>1, MoveKeepsMessages
<1>2. ASSUME NEW m \in Messages, Queue(m) PROVE MessageInv'
  <2>1. \A n \in Messages : n # m => msg'[n] = msg[n]
    BY <1>2 DEF Queue, TypeOK
  <2>2. msg[m] = "unsent" /\ msg'[m] = "pending"
    BY <1>2 DEF Queue, Unsent, TypeOK
  <2>3. \A i \in Senders : m \notin inbox[i]
    BY <1>2 DEF Queue, Unsent
  <2>4. AskedInTurn'
    BY <1>2 DEF Queue, MessageInv, AskedInTurn
  <2>5. HeldMessages'
    BY <1>2, <2>1, <2>2, <2>3 DEF Queue, MessageInv, HeldMessages, TypeOK
  <2> QED
    BY <1>2, <2>1, <2>2, <2>4, <2>5 DEF Queue, MessageInv, AnsweredDelivered,
                                    DeliveredWasPrompted, TypeOK
<1>3. CASE Pause \/ Delete \/ Resume \/ Clock
  BY <1>3, SameMessages DEF Pause, Delete, Resume, Operate, Clock, Silence,
                            Quiet, BecomeDue
<1>4. ASSUME NEW ws \in SUBSET Workers, Dead(ws),
             UNCHANGED <<msg, prompted, answered>>
      PROVE  MessageInv'
  <2>1. \A v \in Workers : pc'[v] # "off" => pc'[v] = pc[v] /\ inbox'[v] = inbox[v]
    BY <1>4 DEF Dead
  <2>2. AskedInTurn'
    BY <2>1 DEF MessageInv, AskedInTurn, Asking
  <2>3. HeldMessages'
    BY <1>4, <2>1 DEF MessageInv, HeldMessages, Asking
  <2> QED
    BY <1>4, <2>2, <2>3 DEF MessageInv, AnsweredDelivered, DeliveredWasPrompted
<1>5. CASE Crash
  <2>1. ASSUME NEW w \in Workers, LeaveTick(w) PROVE MessageInv'
    BY <2>1, MoveKeepsMessages DEF LeaveTick, Done
  <2> QED
    BY <1>4, <1>5, <2>1 DEF Crash, HostCrash, CliCrash
<1>6. CASE Boot
  BY <1>6, SameMessages DEF Boot
<1> QED
  BY <1>1, <1>2, <1>3, <1>5, <1>6 DEF Operator

LEMMA MessagesInvariant == Spec => []MessageInv
<1>1. Init => MessageInv
  <2>1. Init => AskedInTurn /\ HeldMessages
    BY WorkerFacts DEF Init, AskedInTurn, HeldMessages, Asking
  <2>2. Init => AnsweredDelivered /\ DeliveredWasPrompted
    BY DEF Init, AnsweredDelivered, DeliveredWasPrompted
  <2> QED
    BY <2>1, <2>2 DEF MessageInv
<1>2. TypeOK /\ MessageInv /\ [Next]_vars => MessageInv'
  <2> SUFFICES ASSUME TypeOK, MessageInv, [Next]_vars PROVE MessageInv'
    OBVIOUS
  <2>1. CASE UNCHANGED vars
    BY <2>1, SameMessages DEF vars, local, obs
  <2> QED
    BY <2>1, MessagesRequested, MessagesTicked, MessagesStreamed, MessagesOutside DEF Next
<1> QED
  BY <1>1, <1>2, TypeCorrect, PTL DEF Spec

\* A message that arrives while a tick marks the queue it read is not marked
\* with it (executor.py:496-511).
THEOREM DeliveredPrompted == Spec => []DeliveredWasPrompted
<1>1. MessageInv => DeliveredWasPrompted
  BY DEF MessageInv
<1> QED
  BY <1>1, MessagesInvariant, PTL

\* A run that returned is not repeated on the same messages, by no worker, no
\* retry, no stream and no boot (manager.py:642-649, executor.py:496-511).
THEOREM AnsweredOnlyOnce == Spec => AnsweredOnce
<1>1. TypeOK /\ MessageInv /\ [Next]_vars
        => [TakesUnanswered]_vars
  <2> SUFFICES ASSUME TypeOK, MessageInv, Next, NEW w \in Workers,
                      inbox'[w] # inbox[w]
               PROVE  inbox'[w] \cap answered = {}
    BY DEF TakesUnanswered
  <2> USE DEF TypeOK, obs, local
  <2>1. ASSUME NEW v \in Workers, SendMessage(v)
        PROVE  inbox'[w] \cap answered = {}
    <3> PICK m \in Unsent : inbox' = [inbox EXCEPT ![v] = {m}]
      BY <2>1 DEF SendMessage
    <3> QED
      BY DEF Unsent, MessageInv, AnsweredDelivered
  <2>2. ASSUME NEW v \in Workers, ReadPending(v)
        PROVE  inbox'[w] \cap answered = {}
    BY <2>2 DEF ReadPending, MessageInv, AnsweredDelivered
  <2>3. ASSUME NEW v \in Workers,
               StoreMessage(v) \/ EndTick(v) \/ RefuseStream(v) \/ EndStream(v)
        PROVE  inbox'[w] = {}
    BY <2>3 DEF StoreMessage, EndTick, RefuseStream, EndStream
  <2>4. ASSUME Crash PROVE inbox'[w] = {}
    BY <2>4 DEF Crash, HostCrash, CliCrash, LeaveTick, Dead
  <2>5. ASSUME NEW v \in Workers,
               \/ PostRun(v) \/ CliRun(v) \/ ToolCall(v) \/ AutoRecover(v)
               \/ StartTick(v) \/ Claim(v) \/ MarkDelivered(v) \/ StartRun(v)
               \/ RunEnds(v) \/ ReadHistory(v) \/ MarkStreamed(v)
               \/ SetupFails(v) \/ Interrupted(v) \/ Account(v)
               \/ SettleBudget(v) \/ MarkOutcome(v)
        PROVE  FALSE
    BY <2>5 DEF PostRun, CliRun, ToolCall, AutoRecover, StartTick, Claim,
                MarkDelivered, StartRun, RunEnds, RunReturns, RunRetries, RunFails,
                SetupFails, Interrupted, Account, SettleBudget, MarkOutcome,
                ReadHistory, MarkStreamed
  <2>6. ASSUME SchedStep \/ Operator \/ Clock \/ Boot PROVE FALSE
    BY <2>6 DEF SchedStep, Fire, MoveNextFire, Reconcile, ReleaseStalled,
                CountStall, GiveUpStalled, Operator, Pause, Delete, Resume,
                Operate, Queue, Clock, Silence, Quiet, BecomeDue, Boot
  <2> QED
    BY <2>1, <2>2, <2>3, <2>4, <2>5, <2>6 DEF Next, Request, TickStep, StreamStep
<1> QED
  BY <1>1, TypeCorrect, MessagesInvariant, PTL DEF Spec, AnsweredOnce

-----------------------------------------------------------------------------
(* Mutual exclusion of ticks.  start_tick reads and writes the row in two   *)
(* statements and _finalize_tick writes its outcome after it has let go, so *)
(* ticks exclude each other only while the handlers of /run are all that    *)
(* asks for them and every tick succeeds within its limits.                 *)

RequestsOnly ==
    /\ Immediates = {} /\ Streams = {} /\ Clis = {} /\ ~Scheduled
    /\ ~StallTimeout /\ Budget = 0
    /\ Env \subseteq {"crash"}

\* Between the read and the write of start_tick.
Taking == {"start", "claim"}

PostPhases == {"off", "start", "claim", "prompt", "deliver", "think", "endok",
               "account", "settle"}

QuietRow ==
    /\ fresh /\ ~registered /\ status \in {"idle", "running"}
    /\ pc[Sched] = "off"
    /\ \A w \in Workers : pc[w] \in PostPhases
    /\ ~up => \A w \in Workers : pc[w] = "off"

\* The worker at "claim" has read a row that is not running, and nobody who
\* could make it running since has left "off".
OneTaker ==
    /\ \A v, w \in Workers : pc[v] \in Taking /\ pc[w] \in Taking => v = w
    /\ \A w \in Workers : pc[w] \in Ticking => status = "running"
    /\ \A v, w \in Workers : pc[v] = "claim" => pc[w] \notin Ticking

ExclusionInv == QuietRow /\ OneTaker /\ TickExclusive

LEMMA ExclusionMoves ==
    ASSUME RequestsOnly, TypeOK, ExclusionInv, NEW w \in Workers,
           Request(w) \/ TickStep(w) \/ StreamStep(w) \/ ToolCall(w)
    PROVE  ExclusionInv'
<1> USE WorkerFacts
        DEF RequestsOnly, Senders, TypeOK, ExclusionInv, QuietRow, OneTaker,
            TickExclusive, Taking, PostPhases, Goto, SetStatus, Touch,
            row, host, obs, local
<1>1. CASE PostRun(w)
  <2>1. w \in Posts /\ w # Sched /\ up /\ pc[w] = "off"
    BY <1>1 DEF PostRun
  <2>2. pc' = [pc EXCEPT ![w] = "start"] /\ UNCHANGED <<row, host>>
    BY <1>1 DEF PostRun, AutoRecovered
  <2>3. \A v \in Workers : pc[v] \notin Taking
    BY <1>1 DEF PostRun, LoopFree, Workers, Threads
  <2>4. QuietRow'
    BY <2>1, <2>2
  <2>5. OneTaker' /\ TickExclusive'
    BY <2>1, <2>2, <2>3
  <2> QED
    BY <2>4, <2>5
<1>2. CASE StartTick(w)
  <2>1. pc[w] = "start" /\ w # Sched
    BY <1>2 DEF StartTick
  <2>2. CASE status = "running"
    BY <1>2, <2>1, <2>2 DEF StartTick, Done
  <2>3. CASE status # "running"
    BY <1>2, <2>1, <2>3 DEF StartTick
  <2> QED
    BY <2>2, <2>3
<1>3. CASE Claim(w)
  <2>1. QuietRow'
    BY <1>3 DEF Claim
  <2>2. OneTaker'
    BY <1>3 DEF Claim
  <2>3. TickExclusive'
    BY <1>3 DEF Claim
  <2> QED
    BY <2>1, <2>2, <2>3
<1>4. CASE ReadPending(w)
  BY <1>4 DEF ReadPending
<1>5. CASE MarkDelivered(w)
  BY <1>5 DEF MarkDelivered
<1>13. CASE StartRun(w)
  BY <1>13 DEF StartRun
<1>6. CASE RunReturns(w)
  BY <1>6 DEF RunReturns
<1>7. CASE EndTick(w)
  <2>1. pc[w] = "endok"
    BY <1>7 DEF EndTick, AfterEnd
  <2>2. pc' = [pc EXCEPT ![w] = "account"]
    BY <1>7, <2>1 DEF EndTick, AfterEnd
  <2> QED
    BY <1>7, <2>1, <2>2 DEF EndTick
<1>8. CASE Account(w)
  BY <1>8 DEF Account
<1>9. CASE SettleBudget(w)
  BY <1>9 DEF SettleBudget, Done
<1>10. CASE ToolCall(w)
  BY <1>10 DEF ToolCall
<1>11. ASSUME \/ SendMessage(w) \/ CliRun(w) \/ AutoRecover(w)
              \/ StoreMessage(w) \/ RunRetries(w) \/ RunFails(w)
              \/ SetupFails(w) \/ Interrupted(w) \/ MarkOutcome(w)
              \/ StreamStep(w)
       PROVE  FALSE
  BY ZenonT(30), <1>11 DEF StreamStep, RefuseStream, ReadHistory, MarkStreamed, EndStream,
               SendMessage, CliRun, AutoRecover, StoreMessage, RunRetries,
               RunFails, SetupFails, Interrupted, MarkOutcome, Outcome
<1> QED
  BY <1>1, <1>2, <1>3, <1>4, <1>5, <1>6, <1>7, <1>8, <1>9, <1>10, <1>11,
     <1>13
     DEF Request, TickStep, RunEnds

LEMMA ExclusionOutside ==
    ASSUME RequestsOnly, TypeOK, ExclusionInv,
           SchedStep \/ Operator \/ Clock \/ Crash \/ Boot
    PROVE  ExclusionInv'
<1> USE WorkerFacts
        DEF RequestsOnly, TypeOK, ExclusionInv, QuietRow, OneTaker,
            TickExclusive, Taking, PostPhases, SetStatus, Touch,
            row, host, obs, local
<1>1. ASSUME SchedStep \/ Pause \/ Delete \/ Resume \/ Silence \/ BecomeDue
             \/ (\E w \in Clis : CliCrash(w)) \/ \E w \in Workers : LeaveTick(w)
      PROVE  FALSE
  BY <1>1 DEF LeaveTick, SchedStep, Fire, MoveNextFire, Reconcile, ReleaseStalled,
              CountStall, GiveUpStalled, Pause, Delete, Resume, Operate,
              Silence, BecomeDue
<1>2. CASE \E m \in Messages : Queue(m)
  BY <1>2 DEF Queue
<1>3. CASE Quiet
  BY <1>3 DEF Quiet
<1>4. CASE HostCrash
  <2>1. \A w \in Workers : pc'[w] = "off"
    BY <1>4 DEF HostCrash, Dead, Workers
  <2> QED
    BY <1>4, <2>1 DEF HostCrash
<1>5. CASE Boot
  <2>1. \A w \in Workers : pc'[w] = "off"
    BY <1>5 DEF Boot
  <2> QED
    BY <1>5, <2>1 DEF Boot
<1> QED
  BY <1>1, <1>2, <1>3, <1>4, <1>5 DEF Operator, Clock, Crash

LEMMA ExclusionInvariant ==
    ASSUME RequestsOnly
    PROVE  Spec => []ExclusionInv
<1>1. Init => ExclusionInv
  BY WorkerFacts DEF RequestsOnly, Init, ExclusionInv, QuietRow, OneTaker,
                     TickExclusive, Taking, PostPhases
<1>2. TypeOK /\ ExclusionInv /\ [Next]_vars => ExclusionInv'
  <2> SUFFICES ASSUME TypeOK, ExclusionInv, [Next]_vars PROVE ExclusionInv'
    OBVIOUS
  <2>1. CASE UNCHANGED vars
    BY <2>1 DEF vars, row, host, local, obs, ExclusionInv, QuietRow, OneTaker,
                TickExclusive
  <2> QED
    BY <2>1, RequestsOnly, ExclusionMoves, ExclusionOutside DEF Next
<1> QED
  BY <1>1, <1>2, TypeCorrect, PTL DEF Spec

\* Any number of concurrent POST /run requests of a manual agent keep their
\* ticks apart, across crashes of the server, as long as ticks succeed and no
\* limit is exceeded: the handler takes the tick before it spawns its thread
\* and no other handler runs in between (routes 1645-1651).
THEOREM RequestsExclude ==
    ASSUME RequestsOnly
    PROVE  Spec => []TickExclusive
<1>1. ExclusionInv => TickExclusive
  BY DEF ExclusionInv
<1> QED
  BY <1>1, ExclusionInvariant, PTL

-----------------------------------------------------------------------------
(* The same requests keep the promise of TickPromise.                       *)

\* A wrecked row still says running, so nobody passes start_tick's check.
WreckedRow ==
    /\ orphan => status = "running" /\ Holder = {}
    /\ \A w \in Workers : pc[w] = "claim" => status # "running"

AskedWereSent == \A m \in prompted : msg[m] # "unsent"

PromiseInv == TypeOK /\ MessageInv /\ ExclusionInv /\ WreckedRow /\ AskedWereSent

LEMMA HolderOnly ==
    ASSUME TickExclusive, NEW w \in Workers, pc[w] \in Ticking
    PROVE  Holder = {w}
BY DEF TickExclusive, Holder

LEMMA SentStays ==
    ASSUME TypeOK, MessageInv, AskedWereSent, [Next]_vars
    PROVE  AskedWereSent'
<1> USE DEF AskedWereSent, TypeOK, row, host, local, obs
<1>1. ASSUME NEW w \in Workers, ReadPending(w) \/ ReadHistory(w)
      PROVE  AskedWereSent'
  BY <1>1 DEF ReadPending, ReadHistory, MessageInv, HeldMessages
<1>2. ASSUME NEW w \in Workers, StoreMessage(w) \/ MarkDelivered(w) \/ MarkStreamed(w)
      PROVE  AskedWereSent'
  BY <1>2 DEF StoreMessage, MarkDelivered, MarkStreamed
<1>3. ASSUME NEW m \in Messages, Queue(m) PROVE AskedWereSent'
  BY <1>3 DEF Queue, Unsent
<1>4. ASSUME NEW w \in Workers,
             \/ Request(w) \/ ToolCall(w) \/ AutoRecover(w) \/ StartTick(w)
             \/ StartRun(w) \/ Claim(w) \/ RunEnds(w) \/ SetupFails(w) \/ Interrupted(w)
             \/ EndTick(w) \/ Account(w) \/ SettleBudget(w) \/ MarkOutcome(w)
             \/ RefuseStream(w) \/ EndStream(w)
      PROVE  UNCHANGED <<msg, prompted>>
  BY <1>4 DEF Request, PostRun, SendMessage, CliRun, ToolCall, AutoRecover,
              StartTick, StartRun, Claim, RunEnds, RunReturns, RunRetries,
              RunFails, SetupFails, Interrupted, EndTick, Account, SettleBudget,
              MarkOutcome, RefuseStream, EndStream
<1>5. ASSUME \/ SchedStep \/ Pause \/ Delete \/ Resume \/ Clock \/ Crash \/ Boot
             \/ UNCHANGED vars
      PROVE  UNCHANGED <<msg, prompted>>
  BY <1>5 DEF SchedStep, Fire, MoveNextFire, Reconcile, ReleaseStalled,
              CountStall, GiveUpStalled, Pause, Delete, Resume, Operate, Clock,
              Silence, Quiet, BecomeDue, Crash, HostCrash, CliCrash, LeaveTick, Boot, vars
<1> QED
  BY <1>1, <1>2, <1>3, <1>4, <1>5 DEF Next, TickStep, StreamStep, Operator

\* One action at a time: what callers see of it.
LEMMA PromiseMoves ==
    ASSUME RequestsOnly, PromiseInv, NEW w \in Workers,
           Request(w) \/ TickStep(w) \/ StreamStep(w) \/ ToolCall(w)
    PROVE  WreckedRow' /\ [Promise!Next]_(Promise!vars)
<1> USE WorkerFacts
        DEF PromiseInv, TypeOK, WreckedRow, Holder, Waiting, Goto, SetStatus,
            Touch, row, host, obs, local, Promise!vars, Promise!queue
<1>1. ASSUME pc[w] \in Ticking PROVE Holder = {w}
  BY <1>1, HolderOnly DEF ExclusionInv
<1>2. CASE PostRun(w)
  <2>1. pc' = [pc EXCEPT ![w] = "start"] /\ pc[w] = "off"
    BY <1>2 DEF PostRun, AutoRecovered, ExclusionInv, QuietRow
  <2> QED
    BY <1>2, <2>1 DEF PostRun
<1>3. CASE StartTick(w)
  <2>1. w # Sched /\ pc[w] = "start" /\ fresh
    BY <1>3 DEF StartTick, ExclusionInv, QuietRow
  <2>2. pc' = [pc EXCEPT ![w] = IF status = "running" THEN "off" ELSE "claim"]
    BY <1>3, <2>1 DEF StartTick, Done
  <2> QED
    BY <1>3, <2>1, <2>2 DEF StartTick
<1>4. CASE Claim(w)
  <2>1. Holder = {} /\ ~orphan
    BY <1>4 DEF Claim, ExclusionInv, OneTaker
  <2>2. pc' = [pc EXCEPT ![w] = "prompt"] /\ orphan' = FALSE
    BY <1>4 DEF Claim
  <2>3. Holder' = {w}
    BY <2>1, <2>2
  <2>4. \A v \in Workers : pc'[v] # "claim"
    BY <1>4, <2>2 DEF Claim, ExclusionInv, OneTaker, Taking
  <2>5. Promise!Take(w)
    BY <1>4, <2>1, <2>2, <2>3 DEF Claim, Promise!Take
  <2> QED
    BY <2>2, <2>4, <2>5 DEF Promise!Next
<1>5. CASE ReadPending(w)
  <2>1. Holder = {w} /\ Holder' = Holder
    BY <1>1, <1>5 DEF ReadPending
  <2>2. Promise!Ask(w)
    BY <1>5, <2>1 DEF ReadPending, Promise!Ask
  <2>3. WreckedRow'
    BY <1>5, <2>1 DEF ReadPending
  <2> QED
    BY <2>2, <2>3 DEF Promise!Next
<1>6. CASE MarkDelivered(w)
  <2>1. Holder = {w} /\ Holder' = Holder
    BY <1>1, <1>6 DEF MarkDelivered
  <2>2. inbox[w] \subseteq prompted
    BY <1>6 DEF MarkDelivered, MessageInv, HeldMessages
  <2>3. PICK m \in inbox[w] : /\ msg[m] = "pending"
                              /\ msg' = [msg EXCEPT ![m] = "delivered"]
    BY <1>6 DEF MarkDelivered
  <2>4. {m} \in SUBSET (Waiting \cap prompted) /\ Waiting' = Waiting \ {m}
    BY <2>2, <2>3
  <2>5. Promise!Deliver(w)
    BY <1>6, <2>1, <2>4 DEF MarkDelivered, Promise!Deliver
  <2>6. WreckedRow'
    BY <1>6, <2>1 DEF MarkDelivered
  <2> QED
    BY <2>5, <2>6 DEF Promise!Next
<1>13. CASE StartRun(w)
  <2>1. Holder' = Holder /\ Holder = {w}
    BY <1>1, <1>13 DEF StartRun
  <2> QED
    BY <1>13, <2>1 DEF StartRun
<1>7. CASE RunReturns(w)
  <2>1. Holder = {w} /\ Holder' = Holder
    BY <1>1, <1>7 DEF RunReturns
  <2>2. inbox[w] \in SUBSET (prompted \ Waiting)
    BY <1>7 DEF RunReturns, MessageInv, HeldMessages, DeliveredWasPrompted
  <2>3. Promise!Answer(w)
    BY <1>7, <2>1, <2>2 DEF RunReturns, Promise!Answer
  <2>4. WreckedRow'
    BY <1>7, <2>1 DEF RunReturns
  <2> QED
    BY <2>3, <2>4 DEF Promise!Next
<1>8. CASE EndTick(w)
  <2>0. pc[w] = "endok"
    BY <1>8 DEF EndTick, AfterEnd, ExclusionInv, QuietRow, PostPhases
  <2>1. pc[w] = "endok" /\ pc' = [pc EXCEPT ![w] = "account"]
    BY <1>8, <2>0 DEF EndTick, AfterEnd
  <2>2. Holder = {w} /\ ~orphan
    BY <1>1, <2>1
  <2>3. Holder' = {}
    BY <2>1, <2>2
  <2>4. Promise!Release(w)
    BY <1>8, <2>2, <2>3 DEF EndTick, Promise!Release
  <2>5. WreckedRow'
    BY <1>8, <2>1 DEF EndTick
  <2> QED
    BY <2>4, <2>5 DEF Promise!Next
<1>9. CASE Account(w)
  BY <1>9 DEF Account
<1>10. CASE SettleBudget(w)
  BY <1>10 DEF SettleBudget, RequestsOnly, Done
<1>11. CASE ToolCall(w)
  BY <1>11 DEF ToolCall
<1>12. ASSUME \/ SendMessage(w) \/ CliRun(w) \/ AutoRecover(w)
              \/ StoreMessage(w) \/ RunRetries(w) \/ RunFails(w)
              \/ SetupFails(w) \/ Interrupted(w) \/ MarkOutcome(w)
              \/ StreamStep(w)
       PROVE  FALSE
  BY ZenonT(30), <1>12 DEF StreamStep, RefuseStream, ReadHistory, MarkStreamed, EndStream, Senders,
               SendMessage, CliRun, AutoRecover, StoreMessage, RunRetries,
               RunFails, SetupFails, Interrupted, MarkOutcome, Outcome,
               RequestsOnly, ExclusionInv, QuietRow, PostPhases
<1> QED
  BY <1>2, <1>3, <1>4, <1>5, <1>6, <1>7, <1>8, <1>9, <1>10, <1>11, <1>12,
     <1>13
     DEF Request, TickStep, RunEnds

LEMMA PromiseOutside ==
    ASSUME RequestsOnly, PromiseInv,
           SchedStep \/ Operator \/ Clock \/ Crash \/ Boot \/ UNCHANGED vars
    PROVE  WreckedRow' /\ [Promise!Next]_(Promise!vars)
<1> USE WorkerFacts
        DEF PromiseInv, TypeOK, WreckedRow, Holder, Waiting, SetStatus,
            Touch, row, host, obs, local, Promise!vars, Promise!queue
<1>1. ASSUME SchedStep \/ Pause \/ Delete \/ Resume \/ Silence \/ BecomeDue
             \/ (\E w \in Clis : CliCrash(w)) \/ \E w \in Workers : LeaveTick(w)
      PROVE  FALSE
  BY <1>1 DEF LeaveTick, SchedStep, Fire, MoveNextFire, Reconcile, ReleaseStalled,
              CountStall, GiveUpStalled, Pause, Delete, Resume, Operate,
              Silence, BecomeDue, RequestsOnly, ExclusionInv, QuietRow
<1>2. ASSUME NEW m \in Messages, Queue(m)
      PROVE  WreckedRow' /\ Promise!Next
  <2>1. msg[m] = "unsent" /\ msg' = [msg EXCEPT ![m] = "pending"]
    BY <1>2 DEF Queue, Unsent
  <2>2. m \notin Waiting \cup prompted
    BY <2>1 DEF AskedWereSent
  <2>3. Waiting' = Waiting \cup {m}
    BY <2>1
  <2>4. Promise!Send(m)
    BY <1>2, <2>2, <2>3 DEF Queue, Promise!Send
  <2> QED
    BY <1>2, <2>4 DEF Queue, Promise!Next
<1>3. CASE Quiet \/ UNCHANGED vars
  BY <1>3 DEF Quiet, vars
<1>4. CASE HostCrash
  <2>1. Workers = Threads
    BY DEF RequestsOnly, Workers
  <2>2. \A w \in Workers : pc'[w] = "off"
    BY <1>4, <2>1 DEF HostCrash, Dead
  <2>3. Holder' = {}
    BY <2>2
  <2>4. orphan' = (orphan \/ Holder # {})
    BY <1>4, <2>1 DEF HostCrash, Dead
  <2>5. Holder # {} => status = "running"
    BY DEF ExclusionInv, OneTaker
  <2>6. WreckedRow'
    BY <1>4, <2>2, <2>3, <2>4, <2>5 DEF HostCrash
  <2>7. CASE Holder = {}
    <3>1. orphan' = orphan
      BY <2>4, <2>7
    <3>2. Holder' = Holder /\ Waiting' = Waiting
      BY <1>4, <2>3, <2>7 DEF HostCrash
    <3> QED
      BY <1>4, <2>6, <3>1, <3>2 DEF HostCrash
  <2>8. CASE Holder # {}
    <3>1. PICK w \in Workers : pc[w] \in Ticking
      BY <2>8
    <3>2. Holder = {w}
      BY <3>1, HolderOnly DEF ExclusionInv
    <3>3. Promise!Die(w)
      BY <1>4, <2>3, <2>4, <3>2 DEF HostCrash, Promise!Die
    <3> QED
      BY <2>6, <3>3 DEF Promise!Next
  <2> QED
    BY <2>7, <2>8
<1>5. CASE Boot
  <2>1. Holder' = Holder /\ Waiting' = Waiting
    BY <1>5 DEF Boot
  <2>2. \A w \in Workers : pc'[w] = "off"
    BY <1>5 DEF Boot, ExclusionInv, QuietRow
  <2>3. CASE Sweeps
    <3>1. orphan' = FALSE
      BY <1>5, <2>3 DEF Boot
    <3>2. orphan => Promise!Sweep
      BY <1>5, <2>1, <3>1 DEF Boot, Promise!Sweep
    <3> QED
      BY <1>5, <2>1, <2>2, <3>1, <3>2 DEF Boot, Promise!Next
  <2>4. CASE ~Sweeps
    BY <1>5, <2>1, <2>2, <2>4 DEF Boot
  <2> QED
    BY <2>3, <2>4
<1> QED
  BY <1>1, <1>2, <1>3, <1>4, <1>5 DEF Operator, Clock, Crash

\* Any number of /run requests whose ticks succeed, with any number of messages
\* and crashes of the server, implement TickPromise: the two statements of
\* start_tick look like one, and the queue gives up only what the owner of the
\* tick has asked.
THEOREM RequestsServe ==
    ASSUME RequestsOnly
    PROVE  Spec => KeepsPromise
<1>1. Init => Promise!Init /\ WreckedRow /\ AskedWereSent
  BY WorkerFacts DEF Init, Promise!Init, WreckedRow, AskedWereSent, Holder, Waiting
<1>2. PromiseInv /\ [Next]_vars
        => WreckedRow' /\ AskedWereSent' /\ [Promise!Next]_(Promise!vars)
  BY SentStays, PromiseMoves, PromiseOutside DEF PromiseInv, Next
<1> QED
  BY <1>1, <1>2, TypeCorrect, MessagesInvariant, ExclusionInvariant, PTL
     DEF Spec, PromiseInv, KeepsPromise, Promise!Spec


-----------------------------------------------------------------------------
(* The budget.  It is checked after the tick, so the last tick may overspend; *)
(* then the status keeps the scheduler from starting another.                 *)

\* The scheduler is alone: nobody else starts a tick, pauses, recovers or kills.
SchedulerOnly ==
    /\ Posts = {} /\ Immediates = {} /\ Streams = {} /\ Clis = {}
    /\ Env \subseteq {"silence", "failure"}

Absent == {"recover", "store", "abort", "release", "count", "giveup"} \cup Streaming

\* What nobody does then; a running row without a tick would be a zombie.
AloneInv ==
    /\ up /\ ~orphan
    /\ pc[Sched] \notin Absent

SpentInv ==
    \/ spent <= Budget /\ pc[Sched] # "overbudget"
    \/ spent = Budget + 1 /\ pc[Sched] \in {"settle", "overbudget"}
    \/ spent = Budget + 1 /\ pc[Sched] \in {"next", "off"} /\ status = "budget_exceeded"

LEMMA AloneStep ==
    ASSUME SchedulerOnly, TypeInv, RunningIsOwned, AloneInv, [Next]_vars
    PROVE  AloneInv'
<1> USE DEF Absent
<1>0. /\ Workers = {Sched} /\ pc \in [Workers -> Phases] /\ TypeOK
  BY DEF SchedulerOnly, Workers, Threads, Senders, TypeInv, TypeOK
<1>1. CASE UNCHANGED vars
  BY <1>1 DEF vars, host, obs, local, AloneInv
<1>2. ASSUME NEW w \in Workers,
             Request(w) \/ TickStep(w) \/ StreamStep(w) \/ ToolCall(w)
      PROVE  AloneInv'
  <2>0. w = Sched
    BY <1>0
  <2>1. /\ ~Request(w) /\ ~AutoRecover(w) /\ ~StoreMessage(w) /\ ~SetupFails(w)
        /\ ~Interrupted(w) /\ ~StreamStep(w)
    BY <2>0 DEF SchedulerOnly, Senders, AloneInv, StreamStep, RefuseStream, ReadHistory,
                MarkStreamed, EndStream, Request, PostRun, SendMessage, CliRun, AutoRecover,
                StoreMessage, SetupFails, Interrupted
  <2>2. (up' <=> up) /\ (orphan' => orphan)
    BY <1>2, <2>1 DEF TickStep, StartTick, Claim, ReadPending, MarkDelivered, StartRun, ToolCall,
       RunEnds, RunReturns, RunRetries, RunFails, EndTick, Account, SettleBudget, MarkOutcome,
       SetStatus, host, obs
  <2>3. pc'[Sched] \notin Absent
    <3>1. CASE StartTick(w) \/ Claim(w) \/ ReadPending(w) \/ MarkDelivered(w) \/ StartRun(w)
                 \/ ToolCall(w) \/ RunEnds(w)
      BY <1>0, <2>0, <3>1 DEF AloneInv, StartTick, Claim, ReadPending, MarkDelivered, StartRun,
         ToolCall, RunEnds, RunReturns, RunRetries, RunFails, Goto, Done, local
    <3>2. CASE EndTick(w)
      BY <1>0, <2>0, <3>2 DEF AloneInv, EndTick, AfterEnd, Goto
    <3>3. CASE Account(w) \/ SettleBudget(w) \/ MarkOutcome(w)
      BY <1>0, <2>0, <3>3 DEF AloneInv, Account, SettleBudget, MarkOutcome, Goto, Done
    <3> QED BY <1>2, <2>1, <3>1, <3>2, <3>3 DEF TickStep
  <2> QED BY <2>2, <2>3 DEF AloneInv
<1>3. CASE SchedStep
  <2>1. ~Reconcile
    BY DEF Reconcile, RunningIsOwned, AloneInv, Ticking, SchedulerOnly, Workers, Threads, Senders
  <2>2. CASE Fire
    BY <1>0, <2>2 DEF Fire, AloneInv, Goto, host, obs
  <2>3. CASE MoveNextFire
    BY <1>0, <2>3 DEF MoveNextFire, AloneInv, Goto, obs
  <2>4. ~ReleaseStalled /\ ~CountStall /\ ~GiveUpStalled
    BY DEF ReleaseStalled, CountStall, GiveUpStalled, AloneInv
  <2> QED BY <1>3, <2>1, <2>2, <2>3, <2>4 DEF SchedStep
<1>4. CASE Operator \/ Clock \/ Crash \/ Boot
  <2>1. ~Crash /\ ~Boot /\ ~Pause /\ ~Delete /\ ~Resume
    BY DEF SchedulerOnly, AloneInv, Crash, HostCrash, CliCrash, LeaveTick, Boot, Pause, Delete,
           Resume, Operate
  <2>2. UNCHANGED <<up, orphan, pc>>
    BY <1>4, <2>1 DEF Operator, Queue, Clock, Silence, Quiet, BecomeDue, host, obs, local
  <2> QED BY <2>2 DEF AloneInv
<1> QED BY <1>1, <1>2, <1>3, <1>4 DEF Next

LEMMA SpentStep ==
    ASSUME SchedulerOnly, Budget > 0, TypeInv, RunningIsOwned, AloneInv, SpentInv, [Next]_vars
    PROVE  SpentInv'
<1> USE DEF Absent
<1>0. /\ Workers = {Sched} /\ pc \in [Workers -> Phases]
      /\ Budget \in Nat /\ spent \in Nat
  BY ConstantsAssumption DEF SchedulerOnly, Workers, Threads, Senders, TypeInv, TypeOK
<1>1. CASE UNCHANGED vars
  BY <1>1 DEF vars, row, local, SpentInv
<1>2. ASSUME NEW w \in Workers, Request(w) \/ StreamStep(w) \/ ToolCall(w)
      PROVE  SpentInv'
  BY <1>0, <1>2 DEF SchedulerOnly, Senders, AloneInv, Request, PostRun, SendMessage, CliRun,
     StreamStep, RefuseStream, ReadHistory, MarkStreamed, EndStream, ToolCall, local, SpentInv
<1>3. ASSUME NEW w \in Workers, TickStep(w)
      PROVE  SpentInv'
  <2>0. w = Sched
    BY <1>0
  <2>1. CASE Account(w)
    BY <1>0, <2>0, <2>1 DEF Account, Goto, SpentInv
  <2>2. CASE SettleBudget(w)
    BY <1>0, <2>0, <2>2 DEF SettleBudget, Goto, Done, row, SpentInv
  <2>3. CASE MarkOutcome(w)
    BY <1>0, <2>0, <2>3 DEF MarkOutcome, Outcome, SetStatus, Goto, Done, SpentInv
  <2>4. CASE \/ AutoRecover(w) \/ StoreMessage(w) \/ StartTick(w) \/ Claim(w)
             \/ ReadPending(w) \/ MarkDelivered(w) \/ StartRun(w) \/ RunEnds(w)
             \/ SetupFails(w) \/ Interrupted(w) \/ EndTick(w)
    <3>1. pc[Sched] \notin {"off", "next", "settle", "overbudget"} /\ spent' = spent
      BY <2>0, <2>4 DEF AutoRecover, StoreMessage, StartTick, Claim, ReadPending, MarkDelivered,
         StartRun, RunEnds, RunReturns, RunRetries, RunFails, SetupFails, Interrupted, EndTick,
         AfterEnd, SetStatus, row
    <3>2. pc'[Sched] # "overbudget"
      BY <1>0, <2>0, <2>4, <3>1 DEF AutoRecover, StoreMessage, StartTick, Claim, ReadPending,
         MarkDelivered, StartRun, RunEnds, RunReturns, RunRetries, RunFails, SetupFails, Interrupted,
         EndTick, AfterEnd, Goto, Done, local
    <3> QED BY <3>1, <3>2 DEF SpentInv
  <2> QED BY <1>3, <2>1, <2>2, <2>3, <2>4 DEF TickStep
<1>4. CASE Fire
  BY <1>0, <1>4 DEF Fire, Skipped, Goto, row, SpentInv
<1>5. CASE MoveNextFire
  BY <1>0, <1>5 DEF MoveNextFire, Goto, row, SpentInv
<1>6. CASE Reconcile \/ ReleaseStalled \/ CountStall \/ GiveUpStalled
  BY <1>0, <1>6 DEF Reconcile, ReleaseStalled, CountStall, GiveUpStalled, RunningIsOwned, AloneInv,
                    Ticking
<1>7. CASE Operator \/ Clock \/ Crash \/ Boot
  <2>1. UNCHANGED <<spent, pc, status>>
    BY <1>0, <1>7 DEF SchedulerOnly, AloneInv, Operator, Pause, Delete, Resume, Operate, Queue, Clock,
       Silence, Quiet, BecomeDue, Crash, HostCrash, CliCrash, LeaveTick, Boot, row, local
  <2> QED BY <2>1 DEF SpentInv
<1> QED BY <1>1, <1>2, <1>3, <1>4, <1>5, <1>6, <1>7 DEF Next, SchedStep

\* A scheduled agent that nobody else runs stops at most one tick above its budget, for
\* any budget and any failures of its ticks (executor.py:681-693, scheduler.py:168).
THEOREM OverspendsOneTick ==
    ASSUME SchedulerOnly
    PROVE  Spec => []OverspendAtMostOneTick
<1> DEFINE IInv == AloneInv /\ (Budget > 0 => SpentInv)
<1>1. Init => IInv
  BY ConstantsAssumption DEF Init, AloneInv, Absent, SpentInv, Workers, Threads
<1>2. TypeInv /\ RunningIsOwned /\ IInv /\ [Next]_vars => IInv'
  BY AloneStep, SpentStep
<1>3. TypeInv /\ IInv => OverspendAtMostOneTick
  BY ConstantsAssumption DEF TypeInv, TypeOK, SpentInv, OverspendAtMostOneTick
<1> QED
  BY <1>1, <1>2, <1>3, TypeInvariant, RunningOwned, PTL DEF Spec
=============================================================================
