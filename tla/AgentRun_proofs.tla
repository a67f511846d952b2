--------------------------- MODULE AgentRun_proofs ---------------------------
(***************************************************************************)
(* Theorems about a run of an agent.  The first part is about its loop       *)
(* (AgentLoop), for every number of overlapping runs, of tools and arguments, *)
(* of turns and of calls in a turn; the second about what the chat request   *)
(* that started it gets to see of it (AgentStream), for every number of      *)
(* requests, workers and events.  The two models share no variable.          *)
(***************************************************************************)
EXTENDS AgentLoop, AgentStream, FiniteSetTheorems, SequenceTheorems,
        WellFoundedInduction, TLAPS

-----------------------------------------------------------------------------
(* The part of the types that the guard rests on.                           *)

CallsTyped ==
    /\ mode \in {"structured", "sequential", "parallel"}
    /\ calls \in [Runs -> Seq(Sigs)]
    /\ work \in [Runs -> [Slots -> Works]]
    /\ \A r \in Runs, i \in Slots :
         work[r][i] # "none" => i \in DOMAIN calls[r] /\ pc[r] = "tools"
    /\ pc \in [Runs -> {"off", "compose", "ask", "more", "tools", "done"}]

GuardTyped ==
    /\ cycle \in [Runs -> [Slots -> Reasons(Nat)]]
    /\ read \in [Runs -> [Slots -> Nat]]
    /\ counts \in [Sigs -> Nat]
    /\ uses \in [Tools -> Nat]
    /\ polls \in Nat
    /\ passed \in [Sigs -> Nat]
    /\ excused \in [DOMAIN excused -> Nat \ {0}]

Typed == CallsTyped /\ GuardTyped

LEMMA InitTyped == Init => Typed
<1> SUFFICES ASSUME Init PROVE Typed
  OBVIOUS
<1>1. CallsTyped
  BY DEF Init, CallsTyped, Works
<1>2. GuardTyped
  BY SMTT(30) DEF Init, GuardTyped, Reasons, NoCycle
<1> QED
  BY <1>1, <1>2 DEF Typed

\* A call in a slot is one of the turn's calls.
LEMMA CallIsSig ==
    ASSUME CallsTyped, NEW r \in Runs, NEW i \in Slots, work[r][i] # "none"
    PROVE  calls[r][i] \in Sigs /\ pc[r] = "tools"
BY DEF CallsTyped

LEMMA ReasonsDiffer ==
    /\ \A t : Identical(t) # NoCycle
    /\ \A t, t1, t2 : Between(t1, t2) # Identical(t)
    /\ \A t, n : OverBudget(n) # Identical(t)
BY DEF Identical, Between, OverBudget, NoCycle

\* What the Rust guard's verdict does to the call and to the guard.
LEMMA JudgeEffect ==
    ASSUME Typed, NEW r \in Runs, NEW i \in Slots, Judge(r, i)
    PROVE  /\ work[r][i] = "wait" /\ calls[r][i] \in Sigs
           /\ cycle' = [cycle EXCEPT ![r][i] = cycle'[r][i]]
           /\ cycle'[r][i] \in Reasons(Nat)
           /\ polls' \in Nat
           /\ \/ /\ counts[calls[r][i]] > 0 /\ counts' = counts
                 /\ cycle'[r][i] = Identical(calls[r][i][1])
              \/ /\ counts[calls[r][i]] = 0 /\ counts' = [counts EXCEPT ![calls[r][i]] = 1]
                 /\ \A t \in Tools : cycle'[r][i] # Identical(t)
           /\ \/ /\ cycle'[r][i] = NoCycle
                 /\ passed' = [passed EXCEPT ![calls[r][i]] = @ + 1]
                 /\ work' = [work EXCEPT ![r][i] = "running"]
              \/ /\ cycle'[r][i] # NoCycle
                 /\ passed' = passed
                 /\ work' = [work EXCEPT ![r][i] = "judged"]
           /\ UNCHANGED <<pc, calls, read, uses, mode, guard, warned, excused>>
<1>1. work[r][i] = "wait"
  BY DEF Judge, MayBegin
<1>2. calls[r][i] \in Sigs
  BY <1>1, CallIsSig DEF Typed
<1>3. PICK reason \in Reasons(0..(polls + 1)) :
        /\ Check(calls[r][i], reason)
        /\ IF reason = NoCycle THEN Allow(r, i) ELSE Object(r, i, reason)
  BY DEF Judge
<1>4. cycle' = [cycle EXCEPT ![r][i] = reason]
  BY <1>3 DEF Allow, Object
<1>5. cycle'[r][i] = reason
  BY <1>4 DEF Typed, GuardTyped
<1>6. reason \in Reasons(Nat)
  <2>1. 0..(polls + 1) \subseteq Nat
    BY DEF Typed, GuardTyped
  <2> QED
    BY <1>3, <2>1 DEF Reasons
<1>7. polls' \in Nat
  BY <1>3 DEF Check, Typed, GuardTyped, tally
<1>8. \/ /\ counts[calls[r][i]] > 0 /\ counts' = counts
         /\ reason = Identical(calls[r][i][1])
      \/ /\ counts[calls[r][i]] = 0 /\ counts' = [counts EXCEPT ![calls[r][i]] = 1]
         /\ \A t \in Tools : reason # Identical(t)
  BY <1>3, ReasonsDiffer DEF Check, tally
<1>9. UNCHANGED <<pc, calls, read, uses, mode, guard, warned, excused>>
  BY <1>3 DEF Judge, Check, tally
<1> QED
  BY <1>1, <1>2, <1>3, <1>4, <1>5, <1>6, <1>7, <1>8, <1>9 DEF Pass, Allow, Object

Checks == {"looked", "counted", "weighed", "used"}

PythonStep(r, i) == Look(r, i) \/ Count(r, i) \/ Weigh(r, i) \/ Use(r, i) \/ Follow(r, i)

Counters ==
    /\ read \in [Runs -> [Slots -> Nat]]
    /\ counts \in [Sigs -> Nat]
    /\ uses \in [Tools -> Nat]
    /\ passed \in [Sigs -> Nat]

\* What a step of the Python guard does.
LEMMA PythonEffect ==
    ASSUME Typed, NEW r \in Runs, NEW i \in Slots, PythonStep(r, i)
    PROVE  /\ calls[r][i] \in Sigs
           /\ work[r][i] \in {"wait"} \cup Checks
           /\ work[r][i] = "wait" => MayBegin(r, i) /\ guard = "python"
           /\ \E b \in Checks \cup {"running", "judged"}, c \in Reasons(Nat) :
                /\ work' = [work EXCEPT ![r][i] = b]
                /\ cycle' = [cycle EXCEPT ![r][i] = c]
           /\ Counters'
           /\ UNCHANGED <<pc, calls, polls, mode, guard, warned, excused>>
<1> DEFINE sig == calls[r][i]
           tool == sig[1]
           Goes(b, c) == /\ work' = [work EXCEPT ![r][i] = b]
                         /\ cycle' = [cycle EXCEPT ![r][i] = c]
<1> USE DEF Checks
<1>1. /\ work[r][i] \in {"wait"} \cup Checks
      /\ work[r][i] = "wait" => MayBegin(r, i) /\ guard = "python"
  BY DEF PythonStep, Look, Count, Weigh, Use, Follow, MayBegin
<1>2. sig \in Sigs /\ tool \in Tools
  BY <1>1, CallIsSig DEF Typed, Sigs
<1>3. UNCHANGED <<pc, calls, polls, mode, guard, warned, excused>>
  BY DEF PythonStep, Look, Count, Weigh, Use, Follow, agent, tally
<1>4. /\ counts[sig] \in Nat /\ uses[tool] \in Nat /\ read[r][i] \in Nat /\ passed[sig] \in Nat
      /\ Counters
      /\ cycle[r][i] \in Reasons(Nat) /\ cycle = [cycle EXCEPT ![r][i] = cycle[r][i]]
  BY <1>2 DEF Typed, GuardTyped, Counters
<1>5. ASSUME Look(r, i) PROVE Goes("looked", cycle[r][i]) /\ Counters'
  <2>1. /\ read' = [read EXCEPT ![r][i] = counts[sig]]
        /\ work' = [work EXCEPT ![r][i] = "looked"]
        /\ UNCHANGED <<cycle, counts, uses, passed>>
    BY <1>5 DEF Look, agent, tally
  <2> QED
    BY <1>4, <2>1 DEF Counters
<1>6. ASSUME Count(r, i) PROVE Goes("counted", cycle[r][i]) /\ Counters'
  <2>1. /\ counts' = [counts EXCEPT ![sig] = read[r][i] + 1]
        /\ read' = [read EXCEPT ![r][i] = 0]
        /\ work' = [work EXCEPT ![r][i] = "counted"]
        /\ UNCHANGED <<cycle, uses, passed>>
    BY <1>6 DEF Count
  <2>2. read[r][i] + 1 \in Nat
    BY <1>4
  <2> QED
    BY <1>4, <2>1, <2>2 DEF Counters
<1>7. ASSUME Weigh(r, i)
      PROVE  /\ \/ Goes("judged", Repeated(tool, counts[sig]))
                \/ Goes("weighed", cycle[r][i])
             /\ Counters'
  <2>1. UNCHANGED <<counts, uses>>
    BY <1>7 DEF Weigh, tally
  <2>2. \/ Goes("judged", Repeated(tool, counts[sig])) /\ UNCHANGED <<passed, read>>
        \/ /\ read' = [read EXCEPT ![r][i] = uses[tool]]
           /\ work' = [work EXCEPT ![r][i] = "weighed"]
           /\ UNCHANGED <<cycle, passed>>
    BY <1>7 DEF Weigh, Object
  <2> QED
    BY <1>4, <2>1, <2>2 DEF Counters
<1>8. ASSUME Use(r, i) PROVE Goes("used", cycle[r][i]) /\ Counters'
  <2>1. /\ read' = [read EXCEPT ![r][i] = 0]
        /\ work' = [work EXCEPT ![r][i] = "used"]
        /\ uses' = [uses EXCEPT ![tool] = read[r][i] + 1]
        /\ UNCHANGED <<cycle, counts, passed>>
    BY <1>8 DEF Use
  <2>2. read[r][i] + 1 \in Nat
    BY <1>4
  <2> QED
    BY <1>4, <2>1, <2>2 DEF Counters
<1>9. ASSUME Follow(r, i)
      PROVE  /\ \/ Goes("judged", OverUsed(tool)) \/ Goes("judged", Pattern)
                \/ Goes("running", NoCycle)
             /\ Counters'
  <2>1. UNCHANGED <<read, counts, uses>>
    BY <1>9 DEF Follow
  <2>2. \/ /\ Goes("judged", OverUsed(tool)) \/ Goes("judged", Pattern)
           /\ passed' = passed
        \/ Goes("running", NoCycle) /\ passed' = [passed EXCEPT ![sig] = @ + 1]
    BY <1>9 DEF Follow, Object, Allow, Pass
  <2> QED
    BY <1>4, <2>1, <2>2 DEF Counters
<1>10. {Repeated(tool, counts[sig]), OverUsed(tool), Pattern, NoCycle} \subseteq Reasons(Nat)
  <2>1. <<tool, counts[sig]>> \in Tools \X Nat
    BY <1>2, <1>4
  <2> QED
    BY <1>2, <2>1 DEF Reasons
<1>11. /\ \E b \in Checks \cup {"running", "judged"}, c \in Reasons(Nat) : Goes(b, c)
       /\ Counters'
  <2> HIDE DEF Goes, sig, tool
  <2> QED
    BY <1>4, <1>5, <1>6, <1>7, <1>8, <1>9, <1>10 DEF PythonStep
<1> QED
  BY <1>1, <1>2, <1>3, <1>11

-----------------------------------------------------------------------------
(* The calls of a sequential turn are taken one after the other.            *)

InOrder ==
    mode = "sequential" =>
        \A r \in Runs, i, j \in Slots :
            i < j /\ work[r][j] \notin {"none", "wait"} => Answered(r, i)

\* A step of the call in slot i of run r, which moves its work from a to b.
Moves(r, i, a, b) ==
    /\ work[r][i] = a
    /\ work' = [work EXCEPT ![r][i] = b]
    /\ UNCHANGED <<pc, calls, mode, guard>>

LEMMA Moved ==
    ASSUME CallsTyped, NEW r \in Runs, NEW i \in Slots, NEW a, NEW b, Moves(r, i, a, b)
    PROVE  \A q \in Runs, j \in Slots :
             work'[q][j] = IF q = r /\ j = i THEN b ELSE work[q][j]
BY DEF CallsTyped, Moves

LEMMA MoveTyped ==
    ASSUME CallsTyped, NEW r \in Runs, NEW i \in Slots, NEW a \in Works \ {"none"},
           NEW b \in Works, Moves(r, i, a, b)
    PROVE  CallsTyped'
<1>1. work' \in [Runs -> [Slots -> Works]]
  BY DEF CallsTyped, Moves
<1>2. \A q \in Runs, j \in Slots :
         work'[q][j] # "none" => j \in DOMAIN calls[q] /\ pc[q] = "tools"
  BY Moved DEF CallsTyped, Moves
<1> QED
  BY <1>1, <1>2 DEF CallsTyped, Moves

\* Before a move no call behind it has begun; it may begin in its turn, or is over.
LEMMA MoveInOrder ==
    ASSUME CallsTyped, InOrder, NEW r \in Runs, NEW i \in Slots, NEW a, NEW b,
           Moves(r, i, a, b), a \notin {"none", "blocked", "answered"},
           a = "wait" => MayBegin(r, i)
    PROVE  InOrder'
<1> SUFFICES ASSUME mode = "sequential", NEW q \in Runs, NEW j \in Slots, NEW k \in Slots,
                    j < k, work'[q][k] \notin {"none", "wait"}
             PROVE  Answered(q, j)'
  BY DEF InOrder, Moves
<1> USE Moved
<1>1. CASE q = r /\ k = i
  <2>1. Answered(q, j)
    <3>1. CASE a = "wait"
      BY <1>1, <3>1 DEF MayBegin, Slots
    <3>2. CASE a # "wait"
      BY <1>1, <3>2 DEF Moves, InOrder
    <3> QED
      BY <3>1, <3>2
  <2> QED
    BY <1>1, <2>1 DEF Answered, Slots
<1>2. CASE ~(q = r /\ k = i)
  <2>1. Answered(q, j)
    BY <1>2 DEF InOrder
  <2> QED
    BY <2>1 DEF Answered, Moves
<1> QED
  BY <1>1, <1>2

\* The actions of a call as moves.
LEMMA CallMoves ==
    ASSUME Typed, NEW r \in Runs, NEW i \in Slots
    PROVE  /\ Unguarded(r, i) => Moves(r, i, "wait", "running") /\ MayBegin(r, i)
           /\ Judge(r, i) => /\ MayBegin(r, i)
                            /\ \/ Moves(r, i, "wait", "running")
                               \/ Moves(r, i, "wait", "judged")
           /\ PythonStep(r, i) =>
                /\ work[r][i] = "wait" => MayBegin(r, i)
                /\ \E a \in {"wait"} \cup Checks, b \in Checks \cup {"running", "judged"} :
                     Moves(r, i, a, b)
           /\ Block(r, i) => Moves(r, i, "judged", "blocked")
           /\ Spare(r, i) => Moves(r, i, "judged", "spared")
           /\ Warn(r, i) => Moves(r, i, "spared", "running")
           /\ Return(r, i) => Moves(r, i, "running", "answered")
<1>1. Unguarded(r, i) => Moves(r, i, "wait", "running") /\ MayBegin(r, i)
  BY DEF Unguarded, Moves, MayBegin
<1>2. Judge(r, i) => /\ MayBegin(r, i)
                     /\ \/ Moves(r, i, "wait", "running")
                        \/ Moves(r, i, "wait", "judged")
  <2> SUFFICES ASSUME Judge(r, i)
               PROVE  /\ MayBegin(r, i)
                      /\ \/ Moves(r, i, "wait", "running")
                         \/ Moves(r, i, "wait", "judged")
    OBVIOUS
  <2>1. MayBegin(r, i)
    BY DEF Judge
  <2> QED
    BY <2>1, JudgeEffect DEF Moves
<1>3. PythonStep(r, i) =>
        /\ work[r][i] = "wait" => MayBegin(r, i)
        /\ \E a \in {"wait"} \cup Checks, b \in Checks \cup {"running", "judged"} :
             Moves(r, i, a, b)
  BY PythonEffect DEF Moves
<1>4. Block(r, i) => Moves(r, i, "judged", "blocked")
  BY DEF Block, Moves, agent
<1>5. Spare(r, i) => Moves(r, i, "judged", "spared")
  BY DEF Spare, Moves, agent
<1>6. Warn(r, i) => Moves(r, i, "spared", "running")
  BY DEF Warn, Moves
<1>7. Return(r, i) => Moves(r, i, "running", "answered")
  BY DEF Return, Moves, agent
<1> QED
  BY <1>1, <1>2, <1>3, <1>4, <1>5, <1>6, <1>7

CallStep(r, i) ==
    Unguarded(r, i) \/ Judge(r, i) \/ PythonStep(r, i) \/ Block(r, i) \/ Spare(r, i) \/ Warn(r, i) \/ Return(r, i)

LEMMA CallStepMoves ==
    ASSUME Typed, NEW r \in Runs, NEW i \in Slots, CallStep(r, i)
    PROVE  \E a \in {"wait", "judged", "spared", "running"} \cup Checks,
              b \in {"judged", "spared", "running", "blocked", "answered"} \cup Checks :
             Moves(r, i, a, b) /\ (a = "wait" => MayBegin(r, i))
<1>1. CASE PythonStep(r, i)
  <2>1. PICK a \in {"wait"} \cup Checks, b \in Checks \cup {"running", "judged"} :
          Moves(r, i, a, b)
    BY <1>1, CallMoves
  <2>2. a = work[r][i]
    BY <2>1 DEF Moves
  <2>3. a = "wait" => MayBegin(r, i)
    BY <1>1, <2>2, CallMoves
  <2> QED
    BY <2>1, <2>3
<1>2. CASE ~PythonStep(r, i)
  BY <1>2, CallMoves DEF CallStep
<1> QED
  BY <1>1, <1>2

\* Without the fallback nobody is at its checks.
OneGuard == guard = "rust" => \A r \in Runs, i \in Slots : work[r][i] \notin Checks

LEMMA CallStepTyped ==
    ASSUME Typed, InOrder, OneGuard, NEW r \in Runs, NEW i \in Slots, CallStep(r, i)
    PROVE  Typed' /\ InOrder' /\ OneGuard'
<1>1. CallsTyped
  BY DEF Typed
<1>2. PICK a \in {"wait", "judged", "spared", "running"} \cup Checks,
           b \in {"judged", "spared", "running", "blocked", "answered"} \cup Checks :
        Moves(r, i, a, b) /\ (a = "wait" => MayBegin(r, i))
  BY CallStepMoves
<1>3. a \in Works \ {"none", "blocked", "answered"} /\ b \in Works
  BY DEF Works, Checks
<1>4. CallsTyped'
  BY <1>1, <1>2, <1>3, MoveTyped
<1>5. InOrder'
  BY <1>1, <1>2, <1>3, MoveInOrder
<1>6. calls[r][i] \in Sigs
  BY <1>1, <1>2, CallIsSig DEF Moves, Checks
<1>7. GuardTyped'
  <2>1. CASE Judge(r, i)
    <3>1. \E c \in Reasons(Nat) : cycle' = [cycle EXCEPT ![r][i] = c]
      BY <2>1, JudgeEffect
    <3>2. cycle' \in [Runs -> [Slots -> Reasons(Nat)]]
      BY <3>1 DEF Typed, GuardTyped
    <3>3. counts' \in [Sigs -> Nat] /\ passed' \in [Sigs -> Nat] /\ polls' \in Nat
      BY <1>6, <2>1, JudgeEffect DEF Typed, GuardTyped
    <3> QED
      BY <2>1, <3>2, <3>3, JudgeEffect DEF Typed, GuardTyped
  <2>2. CASE PythonStep(r, i)
    <3>1. \E c \in Reasons(Nat) : cycle' = [cycle EXCEPT ![r][i] = c]
      BY <2>2, PythonEffect
    <3>2. cycle' \in [Runs -> [Slots -> Reasons(Nat)]]
      BY <3>1 DEF Typed, GuardTyped
    <3> QED
      BY <2>2, <3>2, PythonEffect DEF Typed, GuardTyped, Counters
  <2>3. CASE Warn(r, i)
    <3>1. /\ UNCHANGED <<cycle, read, counts, uses, polls>>
          /\ passed' = [passed EXCEPT ![calls[r][i]] = @ + 1]
          /\ Excuse(cycle[r][i])
      BY <2>3 DEF Warn, Pass, tally
    <3>2. excused' \in [DOMAIN excused' -> Nat \ {0}]
      BY <3>1 DEF Excuse, Typed, GuardTyped
    <3> QED
      BY <1>6, <3>1, <3>2 DEF Typed, GuardTyped
  <2>4. CASE Unguarded(r, i)
    BY <1>6, <2>4 DEF Unguarded, Pass, Typed, GuardTyped, tally
  <2>5. CASE Block(r, i) \/ Spare(r, i) \/ Return(r, i)
    BY <2>5 DEF Block, Spare, Return, Typed, GuardTyped, agent, tally
  <2> QED
    BY <2>1, <2>2, <2>3, <2>4, <2>5 DEF CallStep
<1>8. OneGuard'
  <2> SUFFICES ASSUME guard' = "rust", NEW q \in Runs, NEW j \in Slots
               PROVE  work'[q][j] \notin Checks
    BY DEF OneGuard
  <2>1. guard = "rust" /\ work[q][j] \notin Checks /\ work[r][i] \notin Checks
    BY <1>2 DEF Moves, OneGuard
  <2>2. ~PythonStep(r, i)
    BY <2>1, PythonEffect DEF Checks
  <2>3. work'[r][i] \notin Checks
    <3>1. \E c \in {"judged", "spared", "running", "blocked", "answered"}, d \in Works :
            Moves(r, i, d, c)
      BY <2>2, CallMoves DEF CallStep, Works
    <3> QED
      BY <1>1, <3>1, Moved DEF Checks
  <2> QED
    BY <1>1, <1>2, <2>1, <2>3, Moved
<1> QED
  BY <1>4, <1>5, <1>7, <1>8 DEF Typed

\* The other steps of a run.
RunStep(r) ==
    \/ Start(r) \/ Compose(r) \/ MaxTurnsExceeded(r) \/ FinalAnswer(r) \/ Continue(r)
    \/ EndTurn(r) \/ \E cs \in CallLists : CallTools(r, cs)

LEMMA Steps ==
    Next <=> \E r \in Runs : RunStep(r) \/ \E i \in Slots : CallStep(r, i)
BY DEF Next, RunStep, CallStep, PythonStep, Loop, ModelReplies, ToolReturns

LEMMA CallListTyped ==
    ASSUME NEW cs \in CallLists PROVE cs \in Seq(Sigs) /\ Len(cs) \in Slots
<1>1. PICK k \in 1..MaxCalls : cs \in [1..k -> Sigs]
  BY DEF CallLists
<1>2. k \in Nat /\ k \in Slots
  BY LoopAssumption DEF Slots
<1> QED
  BY <1>1, <1>2

\* No call of the run is judged, spared or running before or after such a step, and
\* the other runs do not notice it.
LEMMA RunStepEffect ==
    ASSUME Typed, NEW r \in Runs, RunStep(r)
    PROVE  /\ UNCHANGED agent
           /\ CallsTyped' /\ cycle' \in [Runs -> [Slots -> Reasons(Nat)]]
           /\ read' = read
           /\ \A q \in Runs, i \in Slots :
                \/ q # r /\ work'[q][i] = work[q][i] /\ calls'[q] = calls[q]
                         /\ cycle'[q] = cycle[q]
                \/ q = r /\ work'[q][i] \in {"none", "wait"}
                         /\ work[q][i] \in {"none", "blocked", "answered"}
<1>1. CASE Start(r) \/ Compose(r) \/ MaxTurnsExceeded(r) \/ FinalAnswer(r) \/ Continue(r)
  <2>1. pc[r] # "tools" /\ UNCHANGED <<agent, calls, work, cycle, read>>
    BY <1>1 DEF Start, Compose, MaxTurnsExceeded, FinalAnswer, Continue
  <2>2. pc' \in [Runs -> {"off", "compose", "ask", "more", "tools", "done"}]
        /\ \A q \in Runs : q # r => pc'[q] = pc[q]
    BY <1>1 DEF Start, Compose, MaxTurnsExceeded, FinalAnswer, Continue, Typed, CallsTyped
  <2>3. \A i \in Slots : work[r][i] = "none"
    BY <2>1 DEF Typed, CallsTyped
  <2> QED
    BY <2>1, <2>2, <2>3 DEF Typed, CallsTyped, GuardTyped, agent
<1>2. CASE EndTurn(r)
  <2>1. /\ UNCHANGED <<agent, calls, cycle, read>>
        /\ work' = [work EXCEPT ![r] = [i \in Slots |-> "none"]]
        /\ pc' = [pc EXCEPT ![r] = "compose"]
    BY <1>2 DEF EndTurn
  <2>2. \A i \in Slots : work[r][i] \in {"none", "blocked", "answered"}
    BY <1>2 DEF EndTurn, Answered, Typed, CallsTyped
  <2>3. CallsTyped'
    BY <2>1 DEF Typed, CallsTyped, agent, Works
  <2>4. cycle' \in [Runs -> [Slots -> Reasons(Nat)]]
    BY <2>1 DEF Typed, GuardTyped
  <2> QED
    BY <2>1, <2>2, <2>3, <2>4 DEF Typed, CallsTyped
<1>3. ASSUME NEW cs \in CallLists, CallTools(r, cs)
      PROVE  /\ UNCHANGED agent
             /\ CallsTyped' /\ cycle' \in [Runs -> [Slots -> Reasons(Nat)]]
             /\ read' = read
             /\ \A q \in Runs, i \in Slots :
                  \/ q # r /\ work'[q][i] = work[q][i] /\ calls'[q] = calls[q]
                           /\ cycle'[q] = cycle[q]
                  \/ q = r /\ work'[q][i] \in {"none", "wait"}
                           /\ work[q][i] \in {"none", "blocked", "answered"}
  <2>1. /\ UNCHANGED <<agent, read>> /\ pc[r] = "ask"
        /\ calls' = [calls EXCEPT ![r] = cs]
        /\ work' = [work EXCEPT ![r] =
                      [i \in Slots |-> IF i <= Len(cs) THEN "wait" ELSE "none"]]
        /\ cycle' = [cycle EXCEPT ![r] = [i \in Slots |-> NoCycle]]
        /\ pc' = [pc EXCEPT ![r] = "tools"]
    BY <1>3 DEF CallTools
  <2>2. \A i \in Slots : work[r][i] = "none"
    BY <2>1 DEF Typed, CallsTyped
  <2>3. cs \in Seq(Sigs) /\ Len(cs) \in Nat /\ DOMAIN cs = 1..Len(cs)
    BY CallListTyped
  <2>4. CallsTyped'
    BY <2>1, <2>3 DEF Typed, CallsTyped, agent, Works, Slots
  <2>5. cycle' \in [Runs -> [Slots -> Reasons(Nat)]]
    BY <2>1 DEF Typed, GuardTyped, Reasons
  <2> QED
    BY <2>1, <2>2, <2>4, <2>5 DEF Typed, CallsTyped, GuardTyped
<1> QED
  BY <1>1, <1>2, <1>3 DEF RunStep

LEMMA RunStepTyped ==
    ASSUME Typed, InOrder, OneGuard, NEW r \in Runs, RunStep(r)
    PROVE  Typed' /\ InOrder' /\ OneGuard'
<1>1. Typed'
  BY RunStepEffect DEF Typed, GuardTyped, agent, tally
<1>2. InOrder'
  <2> SUFFICES ASSUME mode = "sequential", NEW q \in Runs, NEW i \in Slots, NEW j \in Slots,
                      i < j, work'[q][j] \notin {"none", "wait"}
               PROVE  Answered(q, i)'
    BY RunStepEffect DEF InOrder, agent
  <2>1. q # r /\ work'[q][i] = work[q][i] /\ work'[q][j] = work[q][j]
    BY RunStepEffect
  <2> QED
    BY <2>1 DEF InOrder, Answered
<1>3. OneGuard'
  BY RunStepEffect DEF OneGuard, agent, Checks
<1> QED
  BY <1>1, <1>2, <1>3

-----------------------------------------------------------------------------
(* The bound.  SparedWith are the calls that found no warning of their       *)
(* reason; Fresh are those that the Rust guard gave another reason than that *)
(* of a repetition.                                                          *)

Calls == Runs \X Slots
Stands(p, s) == calls[p[1]][p[2]] = s
Work(p) == work[p[1]][p[2]]
Key(s) == Identical(s[1])

SparedWith(c) == {p \in Calls : Work(p) = "spared" /\ cycle[p[1]][p[2]] = c}
Fresh(s) == {p \in Calls : /\ Work(p) \in {"judged", "spared"}
                           /\ Stands(p, s) /\ cycle[p[1]][p[2]] # Key(s)}

Untouched(s) == \A p \in Calls : Stands(p, s) => Work(p) \notin {"judged", "spared"}

Times(c) == IF c \in DOMAIN excused THEN excused[c] ELSE 0

\* What is still to be let through with a reason has its place in the bound.
KeyBounded(c) ==
    /\ c \notin warned => Times(c) = 0
    /\ c \in warned => Times(c) + Cardinality(SparedWith(c)) <= Room

\* With the Rust guard a call passes without its repetition's reason only the first time.
SigBounded(s) ==
    /\ counts[s] = 0 => passed[s] = 0 /\ Untouched(s)
    /\ passed[s] + Cardinality(Fresh(s)) <= 1 + Times(Key(s))

PassBounded ==
    mode # "structured" =>
        /\ \A c : KeyBounded(c)
        /\ guard = "rust" => \A s \in Sigs : SigBounded(s)

LEMMA CallsFinite ==
    /\ IsFiniteSet(Calls) /\ IsFiniteSet(Runs) /\ Cardinality(Runs) \in Nat
    /\ Cardinality(Calls) = Cardinality(Runs) * MaxCalls
    /\ \A c : IsFiniteSet(SparedWith(c)) /\ IsFiniteSet(Fresh(c))
<1>1. IsFiniteSet(Slots) /\ Cardinality(Slots) = MaxCalls /\ MaxCalls \in Nat
  BY SMTT(30), LoopAssumption, FS_Interval DEF Slots
<1>2. IsFiniteSet(Runs) /\ Cardinality(Runs) \in Nat
  BY LoopAssumption, FS_CardinalityType
<1>3. IsFiniteSet(Calls) /\ Cardinality(Calls) = Cardinality(Runs) * MaxCalls
  BY <1>1, <1>2, FS_Product DEF Calls
<1>4. \A c : SparedWith(c) \subseteq Calls /\ Fresh(c) \subseteq Calls
  BY DEF SparedWith, Fresh
<1> QED
  BY <1>2, <1>3, <1>4, FS_Subset

LEMMA RoomType == CallsTyped => Room \in Nat
BY CallsFinite, LoopAssumption DEF Room, Width

\* At most one call per thread is being let through.
LEMMA SparedFits ==
    ASSUME CallsTyped, InOrder, mode # "structured", NEW c
    PROVE  Cardinality(SparedWith(c)) <= Room
<1>1. CASE mode = "parallel"
  <2>1. SparedWith(c) \in SUBSET Calls
    BY DEF SparedWith
  <2> QED
    BY <1>1, <2>1, CallsFinite, FS_Subset DEF Room, Width
<1>2. CASE mode = "sequential"
  <2> DEFINE f == [p \in SparedWith(c) |-> p[1]]
  <2>1. \A p, q \in SparedWith(c) : p[1] = q[1] => p = q
    <3> SUFFICES ASSUME NEW p \in SparedWith(c), NEW q \in SparedWith(c), p[1] = q[1]
                 PROVE  p = q
      OBVIOUS
    <3>1. /\ p = <<p[1], p[2]>> /\ q = <<q[1], q[2]>> /\ p[1] \in Runs
          /\ p[2] \in Slots /\ q[2] \in Slots
          /\ work[p[1]][p[2]] = "spared" /\ work[p[1]][q[2]] = "spared"
      BY DEF SparedWith, Calls, Work
    <3>2. ~(p[2] < q[2]) /\ ~(q[2] < p[2])
      BY <1>2, <3>1 DEF InOrder, Answered
    <3>3. p[2] = q[2]
      BY <3>1, <3>2 DEF Slots
    <3> QED
      BY <3>1, <3>3
  <2>2. f \in Injection(SparedWith(c), Runs)
    <3>1. f \in [SparedWith(c) -> Runs]
      BY DEF SparedWith, Calls
    <3>2. IsInjective(f)
      BY <2>1 DEF IsInjective
    <3> QED
      BY <3>1, <3>2 DEF Injection
  <2>3. Cardinality(SparedWith(c)) <= Cardinality(Runs)
    BY <2>2, CallsFinite, FS_Injection
  <2>4. Room = Cardinality(Runs)
    BY <1>2, CallsFinite DEF Room, Width
  <2> QED
    BY <2>3, <2>4
<1> QED
  BY <1>1, <1>2 DEF CallsTyped

LEMMA CountWith ==
    ASSUME NEW S, IsFiniteSet(S), NEW p
    PROVE  /\ Cardinality(S) \in Nat /\ Cardinality(S \ {p}) \in Nat
           /\ Cardinality(S) = Cardinality(S \ {p}) + (IF p \in S THEN 1 ELSE 0)
<1>1. /\ IsFiniteSet(S \ {p})
      /\ Cardinality(S \ {p}) = IF p \in S THEN Cardinality(S) - 1 ELSE Cardinality(S)
  BY FS_RemoveElement
<1>2. Cardinality(S) \in Nat /\ Cardinality(S \ {p}) \in Nat
  BY <1>1, FS_CardinalityType
<1> QED
  BY <1>1, <1>2

LEMMA SameButOne ==
    ASSUME NEW S, IsFiniteSet(S), NEW T, IsFiniteSet(T), NEW p, T \ {p} = S \ {p}
    PROVE  /\ Cardinality(S) \in Nat /\ Cardinality(T) \in Nat
           /\ Cardinality(T) = Cardinality(S) - (IF p \in S THEN 1 ELSE 0)
                                             + (IF p \in T THEN 1 ELSE 0)
<1> DEFINE m == Cardinality(S \ {p})
           n == Cardinality(T \ {p})
<1>1. Cardinality(S) \in Nat /\ m \in Nat /\ Cardinality(S) = m + (IF p \in S THEN 1 ELSE 0)
  BY CountWith
<1>2. Cardinality(T) \in Nat /\ Cardinality(T) = n + (IF p \in T THEN 1 ELSE 0)
  BY CountWith
<1>3. m = n
  OBVIOUS
<1> HIDE DEF m, n
<1> QED
  BY <1>1, <1>2, <1>3

\* A step of the loop touches no call that is judged or spared.
LEMMA RunStepBounded ==
    ASSUME Typed, PassBounded, NEW r \in Runs, RunStep(r) PROVE PassBounded'
<1>1. UNCHANGED <<mode, guard, warned, excused, counts, passed>>
  BY RunStepEffect DEF agent, tally
<1>2. ASSUME NEW c, NEW s
      PROVE  /\ SparedWith(c)' = SparedWith(c) /\ Fresh(s)' = Fresh(s)
             /\ Untouched(s) => Untouched(s)'
  <2>1. \A p \in Calls : \/ /\ Work(p)' = Work(p) /\ Stands(p, s)' = Stands(p, s)
                             /\ cycle'[p[1]][p[2]] = cycle[p[1]][p[2]]
                          \/ /\ Work(p)' \notin {"judged", "spared"}
                             /\ Work(p) \notin {"judged", "spared"}
    BY RunStepEffect DEF Calls, Work, Stands
  <2>2. Fresh(s)' = Fresh(s)
    BY <2>1 DEF Fresh, Calls, Key
  <2>3. SparedWith(c)' = SparedWith(c)
    BY <2>1 DEF SparedWith, Calls
  <2> QED
    BY <2>1, <2>2, <2>3 DEF Untouched, Calls
<1> QED
  BY <1>1, <1>2 DEF PassBounded, KeyBounded, SigBounded, Times, Room, Width, Key

\* A step of one call leaves the other calls' work and reasons alone.
LEMMA CallStepElsewhere ==
    ASSUME Typed, NEW r \in Runs, NEW i \in Slots, CallStep(r, i)
    PROVE  /\ UNCHANGED <<mode, guard, calls>>
           /\ \A p \in Calls : p = <<r, i>> \/ /\ Work(p)' = Work(p)
                                               /\ cycle'[p[1]][p[2]] = cycle[p[1]][p[2]]
<1>1. PICK a, b : Moves(r, i, a, b)
  BY CallStepMoves
<1>2. \A q \in Runs, j \in Slots : ~(q = r /\ j = i) => work'[q][j] = work[q][j]
  BY <1>1, Moved DEF Typed
<1>3. \A q \in Runs, j \in Slots : ~(q = r /\ j = i) => cycle'[q][j] = cycle[q][j]
  <2>1. CASE Judge(r, i)
    BY <2>1, JudgeEffect DEF Typed, GuardTyped
  <2>2. CASE PythonStep(r, i)
    BY <2>2, PythonEffect DEF Typed, GuardTyped
  <2>3. CASE ~Judge(r, i) /\ ~PythonStep(r, i)
    BY <2>3 DEF CallStep, Unguarded, Block, Spare, Warn, Return
  <2> QED
    BY <2>1, <2>2, <2>3
<1> QED
  BY <1>1, <1>2, <1>3 DEF Moves, Calls, Work

\* The sets of calls when the call in slot i of run r takes a step.
LEMMA CountsMove ==
    ASSUME Typed, NEW r \in Runs, NEW i \in Slots, CallStep(r, i), NEW c, NEW s \in Sigs
    PROVE  /\ Cardinality(SparedWith(c)) \in Nat /\ Cardinality(SparedWith(c))' \in Nat
           /\ Cardinality(Fresh(s)) \in Nat /\ Cardinality(Fresh(s))' \in Nat
           /\ Cardinality(SparedWith(c))' = Cardinality(SparedWith(c))
                - (IF work[r][i] = "spared" /\ cycle[r][i] = c THEN 1 ELSE 0)
                + (IF work'[r][i] = "spared" /\ cycle'[r][i] = c THEN 1 ELSE 0)
           /\ calls[r][i] # s => Fresh(s)' = Fresh(s)
           /\ calls[r][i] = s =>
                Cardinality(Fresh(s))' = Cardinality(Fresh(s))
                  - (IF work[r][i] \in {"judged", "spared"} /\ cycle[r][i] # Key(s) THEN 1 ELSE 0)
                  + (IF work'[r][i] \in {"judged", "spared"} /\ cycle'[r][i] # Key(s)
                     THEN 1 ELSE 0)
           /\ /\ Untouched(s)
              /\ calls[r][i] = s => work'[r][i] \notin {"judged", "spared"}
              => Untouched(s)'
<1> DEFINE p == <<r, i>>
<1>1. /\ p \in Calls /\ Work(p) = work[r][i] /\ Work(p)' = work'[r][i]
      /\ p[1] = r /\ p[2] = i
      /\ \A t : Stands(p, t) <=> calls[r][i] = t
  BY DEF Calls, Work, Stands
<1>2. /\ calls' = calls /\ Key(s)' = Key(s)
      /\ \A q \in Calls : q = p \/ /\ Work(q)' = Work(q) /\ Stands(q, s)' = Stands(q, s)
                                   /\ cycle'[q[1]][q[2]] = cycle[q[1]][q[2]]
  BY CallStepElsewhere DEF Stands, Key
<1> HIDE DEF p
<1>3. /\ SparedWith(c)' \ {p} = SparedWith(c) \ {p}
      /\ Fresh(s)' \ {p} = Fresh(s) \ {p}
      /\ calls[r][i] # s => Fresh(s)' = Fresh(s)
  BY <1>1, <1>2 DEF SparedWith, Fresh, Calls, Stands
<1>4. /\ p \in SparedWith(c) <=> work[r][i] = "spared" /\ cycle[r][i] = c
      /\ p \in SparedWith(c)' <=> work'[r][i] = "spared" /\ cycle'[r][i] = c
  BY <1>1 DEF SparedWith, Calls
<1>5. calls[r][i] = s =>
        /\ p \in Fresh(s) <=> work[r][i] \in {"judged", "spared"} /\ cycle[r][i] # Key(s)
        /\ p \in Fresh(s)' <=> work'[r][i] \in {"judged", "spared"} /\ cycle'[r][i] # Key(s)
  BY <1>1, <1>2 DEF Fresh, Calls, Stands
<1>6. /\ IsFiniteSet(SparedWith(c)) /\ IsFiniteSet(SparedWith(c)')
      /\ IsFiniteSet(Fresh(s)) /\ IsFiniteSet(Fresh(s)')
  <2>1. SparedWith(c)' \subseteq Calls /\ Fresh(s)' \subseteq Calls
    BY DEF SparedWith, Fresh, Calls
  <2> QED
    BY <2>1, CallsFinite, FS_Subset
<1>7. /\ Cardinality(SparedWith(c)) \in Nat /\ Cardinality(SparedWith(c)') \in Nat
      /\ Cardinality(SparedWith(c)') = Cardinality(SparedWith(c))
           - (IF p \in SparedWith(c) THEN 1 ELSE 0) + (IF p \in SparedWith(c)' THEN 1 ELSE 0)
  BY <1>3, <1>6, SameButOne
<1>8. /\ Cardinality(Fresh(s)) \in Nat /\ Cardinality(Fresh(s)') \in Nat
      /\ Cardinality(Fresh(s)') = Cardinality(Fresh(s))
           - (IF p \in Fresh(s) THEN 1 ELSE 0) + (IF p \in Fresh(s)' THEN 1 ELSE 0)
  BY <1>3, <1>6, SameButOne
<1>9. ASSUME Untouched(s), calls[r][i] = s => work'[r][i] \notin {"judged", "spared"}
      PROVE  Untouched(s)'
  BY <1>1, <1>2, <1>9 DEF Untouched, Calls, Stands
<1> QED
  BY <1>3, <1>4, <1>5, <1>7, <1>8, <1>9

\* What happens to a reason.
LEMMA CallStepKey ==
    ASSUME Typed, InOrder, mode # "structured", NEW c, KeyBounded(c),
           NEW r \in Runs, NEW i \in Slots, CallStep(r, i)
    PROVE  KeyBounded(c)'
<1> DEFINE n == Cardinality(SparedWith(c))
<1>1. /\ n \in Nat /\ n' \in Nat
      /\ n' = n - (IF work[r][i] = "spared" /\ cycle[r][i] = c THEN 1 ELSE 0)
                + (IF work'[r][i] = "spared" /\ cycle'[r][i] = c THEN 1 ELSE 0)
  <2>1. PICK s \in Sigs : TRUE
    <3>1. work[r][i] # "none"
      BY CallStepMoves DEF Moves, Checks
    <3> QED
      BY <3>1, CallIsSig DEF Typed
  <2> QED
    BY <2>1, CountsMove
<1>2. Times(c) \in Nat /\ Room \in Nat /\ Room' = Room /\ n <= Room
  BY RoomType, SparedFits, CallStepElsewhere DEF Times, Typed, GuardTyped, Room, Width
<1> HIDE DEF n
<1>3. (c \notin warned => Times(c) = 0) /\ (c \in warned => Times(c) + n <= Room)
  BY DEF KeyBounded, n
<1> SUFFICES (c \notin warned' => Times(c)' = 0) /\ (c \in warned' => Times(c)' + n' <= Room)
  BY <1>2 DEF KeyBounded, n
<1>4. CASE Warn(r, i)
  <2>1. /\ work[r][i] = "spared" /\ work'[r][i] = "running"
        /\ warned' = warned \cup {cycle[r][i]} /\ Excuse(cycle[r][i])
    BY <1>4 DEF Warn, Typed, CallsTyped
  <2>2. Times(c)' = Times(c) + (IF cycle[r][i] = c THEN 1 ELSE 0)
    BY <2>1 DEF Excuse, Times, Typed, GuardTyped
  <2> QED
    BY <1>1, <1>2, <1>3, <2>1, <2>2
<1>5. CASE Spare(r, i)
  <2>1. /\ work[r][i] = "judged" /\ work'[r][i] = "spared" /\ cycle[r][i] \notin warned
        /\ UNCHANGED <<cycle, warned, excused>>
    BY <1>5 DEF Spare, agent, Typed, CallsTyped
  <2>2. Times(c)' = Times(c)
    BY <2>1 DEF Times
  <2> QED
    BY <1>1, <1>2, <1>3, <2>1, <2>2
<1>6. CASE ~Warn(r, i) /\ ~Spare(r, i)
  <2>1. work'[r][i] # "spared" /\ UNCHANGED <<warned, excused>>
    <3>1. CASE Judge(r, i)
      BY <3>1, JudgeEffect DEF Typed, CallsTyped
    <3>2. CASE PythonStep(r, i)
      BY <3>2, PythonEffect DEF Typed, CallsTyped, Checks
    <3>3. CASE ~Judge(r, i) /\ ~PythonStep(r, i)
      BY <1>6, <3>3 DEF CallStep, Unguarded, Block, Return, agent, Typed, CallsTyped
    <3> QED
      BY <3>1, <3>2, <3>3
  <2>2. Times(c)' = Times(c)
    BY <2>1 DEF Times
  <2> QED
    BY <1>1, <1>2, <1>3, <2>1, <2>2
<1> QED
  BY <1>4, <1>5, <1>6

\* What happens to a signature.
LEMMA CallStepSig ==
    ASSUME Typed, OneGuard, mode # "structured", guard = "rust", NEW s \in Sigs, SigBounded(s),
           NEW r \in Runs, NEW i \in Slots, CallStep(r, i)
    PROVE  SigBounded(s)'
<1> DEFINE F == Cardinality(Fresh(s))
           T == Times(Key(s))
<1>1. /\ F \in Nat /\ F' \in Nat
      /\ calls[r][i] # s => F' = F
      /\ calls[r][i] = s =>
           F' = F - (IF work[r][i] \in {"judged", "spared"} /\ cycle[r][i] # Key(s) THEN 1 ELSE 0)
                  + (IF work'[r][i] \in {"judged", "spared"} /\ cycle'[r][i] # Key(s)
                     THEN 1 ELSE 0)
      /\ Untouched(s) /\ (calls[r][i] = s => work'[r][i] \notin {"judged", "spared"})
           => Untouched(s)'
  BY CountsMove
<1>2. Untouched(s) => F = 0
  <2>1. Untouched(s) => Fresh(s) = {}
    BY DEF Untouched, Fresh
  <2> QED
    BY <2>1, FS_EmptySet
<1>3. T \in Nat /\ passed[s] \in Nat /\ counts[s] \in Nat
  BY DEF Times, Typed, GuardTyped
<1>4. (counts[s] = 0 => passed[s] = 0 /\ Untouched(s)) /\ passed[s] + F <= 1 + T
  BY DEF SigBounded
<1>5. Key(s)' = Key(s) /\ Key(s) = Identical(s[1]) /\ s[1] \in Tools
  BY DEF Key, Sigs
<1>6. calls[r][i] = s /\ work[r][i] \in {"judged", "spared"} => counts[s] # 0
  <2>1. <<r, i>> \in Calls /\ Work(<<r, i>>) = work[r][i]
        /\ (Stands(<<r, i>>, s) <=> calls[r][i] = s)
    BY DEF Stands, Work, Calls
  <2> QED
    BY <1>4, <2>1 DEF Untouched
<1>7. calls[r][i] \in Sigs /\ ~PythonStep(r, i)
  <2>1. work[r][i] # "none" /\ work[r][i] \notin Checks
    BY CallStepMoves DEF Moves, Checks, OneGuard
  <2> QED
    BY <2>1, CallIsSig, PythonEffect DEF Typed
<1> HIDE DEF F
<1> SUFFICES (counts'[s] = 0 => passed'[s] = 0 /\ Untouched(s)') /\ passed'[s] + F' <= 1 + T'
  BY DEF SigBounded, F
<1>8. CASE Judge(r, i)
  <2>1. T' = T
    BY <1>8, JudgeEffect DEF Times, Key
  <2>2. CASE calls[r][i] # s
    <3>1. passed'[s] = passed[s] /\ counts'[s] = counts[s]
      BY <1>7, <1>8, <2>2, JudgeEffect DEF Typed, GuardTyped
    <3> QED
      BY <1>1, <1>4, <2>1, <2>2, <3>1
  <2>3. CASE calls[r][i] = s
    <3>1. work[r][i] = "wait" /\ work'[r][i] = IF cycle'[r][i] = NoCycle THEN "running" ELSE "judged"
      BY <1>8, JudgeEffect DEF Typed, CallsTyped
    <3>2. CASE counts[s] > 0
      <4>1. cycle'[r][i] = Key(s) /\ counts' = counts /\ Key(s) # NoCycle
        BY <1>5, <1>8, <2>3, <3>2, JudgeEffect, ReasonsDiffer
      <4>2. passed' = passed
        BY <1>8, <4>1, JudgeEffect
      <4> QED
        BY <1>1, <1>4, <2>1, <2>3, <3>1, <3>2, <4>1, <4>2
    <3>3. CASE counts[s] = 0
      <4>1. counts'[s] = 1 /\ cycle'[r][i] # Key(s)
        BY <1>5, <1>8, <2>3, <3>3, JudgeEffect DEF Typed, GuardTyped
      <4>2. passed'[s] = IF cycle'[r][i] = NoCycle THEN 1 ELSE 0
        BY <1>4, <1>8, <2>3, <3>3, JudgeEffect DEF Typed, GuardTyped
      <4> QED
        BY <1>1, <1>2, <1>3, <1>4, <2>1, <2>3, <3>1, <3>3, <4>1, <4>2
    <3> QED
      BY <1>3, <3>2, <3>3
  <2> QED
    BY <2>2, <2>3
<1>9. CASE Warn(r, i)
  <2>1. /\ work[r][i] = "spared" /\ work'[r][i] = "running" /\ UNCHANGED <<cycle, counts>>
        /\ passed'[s] = passed[s] + (IF calls[r][i] = s THEN 1 ELSE 0)
        /\ Excuse(cycle[r][i])
    BY <1>7, <1>9 DEF Warn, Pass, tally, Typed, CallsTyped, GuardTyped
  <2>2. T' = T + (IF cycle[r][i] = Key(s) THEN 1 ELSE 0)
    BY <1>5, <2>1 DEF Excuse, Times, Typed, GuardTyped
  <2> QED
    BY <1>1, <1>3, <1>4, <1>6, <2>1, <2>2
<1>10. CASE Spare(r, i) \/ Block(r, i) \/ Return(r, i)
  <2>1. /\ UNCHANGED <<cycle, counts, passed, excused>>
        /\ \/ work[r][i] = "judged" /\ work'[r][i] \in {"spared", "blocked"}
           \/ work[r][i] = "running" /\ work'[r][i] = "answered"
    BY <1>10 DEF Spare, Block, Return, agent, tally, Typed, CallsTyped
  <2>2. T' = T
    BY <2>1 DEF Times, Key
  <2> QED
    BY <1>1, <1>3, <1>4, <1>6, <2>1, <2>2
<1> QED
  BY <1>7, <1>8, <1>9, <1>10 DEF CallStep, Unguarded

LEMMA CallStepBounded ==
    ASSUME Typed, InOrder, OneGuard, PassBounded, NEW r \in Runs, NEW i \in Slots, CallStep(r, i)
    PROVE  PassBounded'
<1>1. mode' = mode /\ guard' = guard
  BY CallStepElsewhere
<1> QED
  BY <1>1, CallStepKey, CallStepSig DEF PassBounded

-----------------------------------------------------------------------------
Invariant == Typed /\ InOrder /\ OneGuard /\ PassBounded

LEMMA InitInvariant == Init => Invariant
<1> SUFFICES ASSUME Init PROVE Invariant
  OBVIOUS
<1>1. InOrder /\ OneGuard
  BY DEF Init, InOrder, OneGuard, Checks
<1>2. \A c : Times(c) = 0 /\ c \notin warned
  BY DEF Init, Times
<1>3. ASSUME NEW s \in Sigs PROVE SigBounded(s)
  <2>1. Fresh(s) = {} /\ Untouched(s)
    BY DEF Init, Fresh, Untouched, Calls, Work
  <2>2. Cardinality(Fresh(s)) = 0
    BY <2>1, FS_EmptySet
  <2>3. passed[s] = 0
    BY DEF Init
  <2> QED
    BY <1>2, <2>1, <2>2, <2>3 DEF SigBounded
<1> QED
  BY <1>1, <1>2, <1>3, InitTyped DEF Invariant, PassBounded, KeyBounded

LEMMA StepInvariant == Invariant /\ [Next]_vars => Invariant'
<1> SUFFICES ASSUME Invariant, [Next]_vars PROVE Invariant'
  OBVIOUS
<1>1. ASSUME NEW r \in Runs, RunStep(r) PROVE Invariant'
  BY <1>1, RunStepTyped, RunStepBounded DEF Invariant
<1>2. ASSUME NEW r \in Runs, NEW i \in Slots, CallStep(r, i) PROVE Invariant'
  BY <1>2, CallStepTyped, CallStepBounded DEF Invariant
<1>3. CASE UNCHANGED vars
  <2>1. Typed' /\ InOrder' /\ OneGuard'
    BY <1>3 DEF vars, agent, tally, run, Invariant, Typed, CallsTyped, GuardTyped, InOrder,
                Answered, OneGuard
  <2>2. ASSUME NEW c, NEW s
        PROVE  /\ SparedWith(c)' = SparedWith(c) /\ Fresh(s)' = Fresh(s)
               /\ Untouched(s)' = Untouched(s) /\ Times(c)' = Times(c)
    BY <1>3 DEF vars, agent, run, SparedWith, Fresh, Untouched, Times, Stands, Work, Key, Calls
  <2>3. PassBounded'
    BY <1>3, <2>2 DEF vars, agent, tally, Invariant, PassBounded, KeyBounded, SigBounded, Key, Room,
                      Width
  <2> QED
    BY <2>1, <2>3 DEF Invariant
<1> QED
  BY <1>1, <1>2, <1>3, Steps

\* However many runs share the agent's guard and however their calls interleave, a
\* reason of either guard is only warned of once per thread that can ask at the same
\* time (loop_guard.py:86-92): the check of _warned_cycles and the write to it are two
\* steps, and only who is between them slips by.  With the Rust guard this bounds how
\* often a call passes; with the Python one it does not, each repetition having a
\* reason of its own.
THEOREM RepetitionBounded == Spec => []IdenticalBounded
<1>1. Invariant => IdenticalBounded
  <2> SUFFICES ASSUME Invariant, mode # "structured"
               PROVE  /\ \A c \in DOMAIN excused : excused[c] <= Room
                      /\ guard = "rust" => \A s \in Sigs : passed[s] <= 1 + Room
    BY DEF IdenticalBounded
  <2>1. ASSUME NEW c PROVE Times(c) \in Nat /\ Times(c) <= Room /\ Room \in Nat
    <3>1. KeyBounded(c) /\ Room \in Nat /\ Times(c) \in Nat
      BY RoomType DEF Invariant, PassBounded, Typed, GuardTyped, Times
    <3>2. Cardinality(SparedWith(c)) \in Nat
      BY CallsFinite, FS_CardinalityType
    <3> QED
      BY <3>1, <3>2 DEF KeyBounded
  <2>2. ASSUME guard = "rust", NEW s \in Sigs PROVE passed[s] <= 1 + Room
    <3>1. SigBounded(s) /\ passed[s] \in Nat
      BY <2>2 DEF Invariant, PassBounded, Typed, GuardTyped
    <3>2. Cardinality(Fresh(s)) \in Nat
      BY CallsFinite, FS_CardinalityType
    <3> QED
      BY <2>1, <3>1, <3>2 DEF SigBounded
  <2> QED
    BY <2>1, <2>2 DEF Times
<1> QED
  BY <1>1, InitInvariant, StepInvariant, PTL DEF Spec

-----------------------------------------------------------------------------
(* Induction, and the filter of compress_context.                          *)

Below == {p \in Nat \X Nat : p[1] < p[2]}

LEMMA Least ==
    ASSUME NEW T, T \subseteq Nat, T # {}
    PROVE  \E m \in T : \A n \in T : m <= n
<1>1. OpToRel(<, Nat) = Below
  BY DEF OpToRel, Below
<1>2. IsWellFoundedOn(Below, Nat)
  BY <1>1, NatLessThanWellFounded
<1>3. PICK m \in T : \A n \in T : <<n, m>> \notin Below
  BY <1>2, WFMin
<1>4. ASSUME NEW n \in T PROVE m <= n
  <2>1. n \in Nat /\ m \in Nat
    OBVIOUS
  <2>2. <<n, m>> \in Nat \X Nat /\ <<n, m>>[1] = n /\ <<n, m>>[2] = m
    BY <2>1
  <2>3. ~(n < m)
    BY <1>3, <2>2 DEF Below
  <2> QED
    BY <2>1, <2>3
<1> QED
  BY <1>4

\* A set of numbers that holds 0, and the successor of each of its members, holds
\* them all.
LEMMA Induction ==
    ASSUME NEW S, 0 \in S, \A n \in Nat : n \in S => n + 1 \in S
    PROVE  Nat \subseteq S
<1> DEFINE T == Nat \ S
<1> SUFFICES ASSUME T # {} PROVE FALSE
  OBVIOUS
<1>1. PICK m \in T : \A n \in T : m <= n
  <2>1. T \subseteq Nat
    OBVIOUS
  <2> HIDE DEF T
  <2> QED
    BY <2>1, Least
<1>2. m - 1 \in Nat /\ m - 1 \notin T
  BY <1>1
<1>3. (m - 1) + 1 = m /\ m - 1 \in S
  BY <1>2
<1> QED
  BY <1>2, <1>3

KeptNext(s, roles, f, i) ==
    IF i = 0 THEN <<>>
    ELSE IF s[i].role \in roles THEN Append(f[i - 1], s[i]) ELSE f[i - 1]

\* The function that WithRole evaluates at the end of the sequence.
Kept(s, roles) ==
    LET kept[i \in 0..Len(s)] ==
          IF i = 0 THEN <<>>
          ELSE IF s[i].role \in roles THEN Append(kept[i - 1], s[i]) ELSE kept[i - 1]
    IN  kept

LEMMA WithRoleIsKept == \A s, roles : WithRole(s, roles) = Kept(s, roles)[Len(s)]
BY DEF WithRole, Kept

LEMMA KeptExists ==
    ASSUME NEW s, NEW roles
    PROVE  \A n \in Nat : \E f : f = [i \in 0..n |-> KeptNext(s, roles, f, i)]
<1> DEFINE S == {n \in Nat : \E h : h = [i \in 0..n |-> KeptNext(s, roles, h, i)]}
<1>1. 0 \in S
  <2> DEFINE g == [i \in 0..0 |-> <<>>]
  <2>1. g = [i \in 0..0 |-> KeptNext(s, roles, g, i)]
    BY DEF KeptNext
  <2> QED
    BY <2>1
<1>2. ASSUME NEW n \in Nat, n \in S PROVE n + 1 \in S
  <2>1. PICK f : f = [i \in 0..n |-> KeptNext(s, roles, f, i)]
    BY <1>2
  <2> DEFINE g == [i \in 0..(n + 1) |-> IF i <= n THEN f[i] ELSE KeptNext(s, roles, f, i)]
  <2>2. ASSUME NEW i \in 0..(n + 1) PROVE g[i] = KeptNext(s, roles, g, i)
    <3>1. i = 0 \/ (i - 1 \in 0..n /\ g[i - 1] = f[i - 1])
      OBVIOUS
    <3>2. KeptNext(s, roles, g, i) = KeptNext(s, roles, f, i)
      BY <3>1 DEF KeptNext
    <3>3. i \in 0..n => f[i] = KeptNext(s, roles, f, i)
      BY <2>1
    <3> QED
      BY <3>2, <3>3
  <2>3. g = [i \in 0..(n + 1) |-> KeptNext(s, roles, g, i)]
    BY <2>2
  <2> HIDE DEF g
  <2>4. \E h : h = [i \in 0..(n + 1) |-> KeptNext(s, roles, h, i)]
    BY <2>3
  <2> QED
    BY <2>4
<1> HIDE DEF S
<1>3. Nat \subseteq S
  BY <1>1, <1>2, Induction
<1> QED
  BY <1>3 DEF S

LEMMA KeptDef ==
    ASSUME NEW s, NEW roles, Len(s) \in Nat
    PROVE  Kept(s, roles) = [i \in 0..Len(s) |-> KeptNext(s, roles, Kept(s, roles), i)]
<1>1. \E f : f = [i \in 0..Len(s) |-> KeptNext(s, roles, f, i)]
  BY KeptExists
<1>2. Kept(s, roles) = CHOOSE f : f = [i \in 0..Len(s) |-> KeptNext(s, roles, f, i)]
  BY DEF Kept, KeptNext
<1> HIDE DEF Kept
<1> QED
  BY <1>1, <1>2

\* When the messages with these roles come first, they are what is kept; when they
\* come last, too.
LEMMA WithRoleSplit ==
    ASSUME NEW s \in Seq(Messages), NEW roles, NEW k \in 0..Len(s)
    PROVE  /\ (\A i \in 1..Len(s) : s[i].role \in roles <=> i <= k)
                => WithRole(s, roles) = SubSeq(s, 1, k)
           /\ (\A i \in 1..Len(s) : s[i].role \in roles <=> i > k)
                => WithRole(s, roles) = SubSeq(s, k + 1, Len(s))
<1> DEFINE f == Kept(s, roles)
<1>1. Len(s) \in Nat /\ \A i \in 1..Len(s) : s[i] \in Messages
  OBVIOUS
<1>2. \A i \in 0..Len(s) : f[i] = KeptNext(s, roles, f, i)
  BY <1>1, KeptDef
<1> HIDE DEF f
<1>3. f[0] = <<>> /\ \A n \in Nat : n + 1 <= Len(s) =>
         f[n + 1] = IF s[n + 1].role \in roles THEN Append(f[n], s[n + 1]) ELSE f[n]
  <2>1. f[0] = <<>>
    BY <1>1, <1>2 DEF KeptNext
  <2>2. ASSUME NEW n \in Nat, n + 1 <= Len(s)
        PROVE f[n + 1] = IF s[n + 1].role \in roles THEN Append(f[n], s[n + 1]) ELSE f[n]
    <3>1. n + 1 \in 0..Len(s) /\ n + 1 # 0 /\ (n + 1) - 1 = n
      BY <1>1, <2>2
    <3> QED
      BY <1>2, <3>1 DEF KeptNext
  <2> QED
    BY <2>1, <2>2
<1>4. ASSUME NEW a \in 1..(Len(s) + 1), NEW n \in Nat, a <= n + 1, n + 1 <= Len(s)
      PROVE  SubSeq(s, a, n + 1) = Append(SubSeq(s, a, n), s[n + 1])
  <2>1. a \in 1..Len(s) /\ n + 1 \in a..Len(s) /\ (n + 1) - 1 = n
    BY <1>1, <1>4
  <2>2. SubSeq(s, a, n + 1) = SubSeq(s, a, n) \o <<s[n + 1]>>
    BY <2>1, SubSeqRecursiveSecond
  <2>3. SubSeq(s, a, n) \in Seq(Messages) /\ s[n + 1] \in Messages
    BY <1>1, <1>4
  <2> QED
    BY <2>2, <2>3, AppendIsConcat
<1>5. ASSUME \A i \in 1..Len(s) : s[i].role \in roles <=> i <= k
      PROVE  f[Len(s)] = SubSeq(s, 1, k)
  <2> DEFINE S == {n \in Nat : n <= Len(s) =>
                     f[n] = SubSeq(s, 1, IF n <= k THEN n ELSE k)}
  <2>1. 0 \in S
    <3>1. f[0] = <<>> /\ SubSeq(s, 1, 0) = <<>> /\ 0 <= k
      BY <1>1, <1>3, SubSeqEmpty
    <3> QED
      BY <3>1
  <2>2. ASSUME NEW n \in Nat, n \in S PROVE n + 1 \in S
    <3> SUFFICES ASSUME n + 1 <= Len(s)
                 PROVE  f[n + 1] = SubSeq(s, 1, IF n + 1 <= k THEN n + 1 ELSE k)
      OBVIOUS
    <3>1. f[n] = SubSeq(s, 1, IF n <= k THEN n ELSE k)
      BY <1>1, <2>2
    <3>2. n + 1 \in 1..Len(s)
      BY <1>1
    <3>3. CASE n + 1 <= k
      <4>1. f[n] = SubSeq(s, 1, n) /\ s[n + 1].role \in roles
        BY <1>5, <3>1, <3>2, <3>3
      <4>2. f[n + 1] = Append(f[n], s[n + 1])
        BY <1>3, <4>1
      <4>3. SubSeq(s, 1, n + 1) = Append(SubSeq(s, 1, n), s[n + 1])
        BY <1>4, <1>1
      <4> QED
        BY <3>3, <4>1, <4>2, <4>3
    <3>4. CASE n + 1 > k
      <4>1. f[n] = SubSeq(s, 1, k) /\ s[n + 1].role \notin roles
        BY <1>5, <3>1, <3>2, <3>4
      <4>2. f[n + 1] = f[n]
        BY <1>3, <4>1
      <4> QED
        BY <3>4, <4>1, <4>2
    <3> QED
      BY <1>1, <3>3, <3>4
  <2> HIDE DEF S
  <2>3. Nat \subseteq S
    BY <2>1, <2>2, Induction
  <2>4. Len(s) \in S
    BY <1>1, <2>3
  <2> QED
    BY <1>1, <2>4 DEF S
<1>6. ASSUME \A i \in 1..Len(s) : s[i].role \in roles <=> i > k
      PROVE  f[Len(s)] = SubSeq(s, k + 1, Len(s))
  <2> DEFINE S == {n \in Nat : n <= Len(s) => f[n] = SubSeq(s, k + 1, n)}
  <2>1. 0 \in S
    <3>1. f[0] = <<>> /\ SubSeq(s, k + 1, 0) = <<>> /\ 0 <= k
      BY <1>1, <1>3, SubSeqEmpty
    <3> QED
      BY <3>1
  <2>2. ASSUME NEW n \in Nat, n \in S PROVE n + 1 \in S
    <3> SUFFICES ASSUME n + 1 <= Len(s) PROVE f[n + 1] = SubSeq(s, k + 1, n + 1)
      OBVIOUS
    <3>1. f[n] = SubSeq(s, k + 1, n)
      BY <1>1, <2>2
    <3>2. n + 1 \in 1..Len(s)
      BY <1>1
    <3>3. CASE n + 1 > k
      <4>1. f[n + 1] = Append(f[n], s[n + 1])
        BY <1>3, <1>6, <3>2, <3>3
      <4>2. SubSeq(s, k + 1, n + 1) = Append(SubSeq(s, k + 1, n), s[n + 1])
        BY <1>1, <1>4, <3>2, <3>3
      <4> QED
        BY <3>1, <4>1, <4>2
    <3>4. CASE n + 1 <= k
      <4>1. SubSeq(s, k + 1, n) = <<>> /\ SubSeq(s, k + 1, n + 1) = <<>>
        BY <1>1, <3>4, SubSeqEmpty
      <4> QED
        BY <1>3, <1>6, <3>1, <3>2, <3>4, <4>1
    <3> QED
      BY <1>1, <3>3, <3>4
  <2> HIDE DEF S
  <2>3. Nat \subseteq S
    BY <2>1, <2>2, Induction
  <2>4. Len(s) \in S
    BY <1>1, <2>3
  <2> QED
    BY <1>1, <2>4 DEF S
<1> QED
  BY <1>5, <1>6, WithRoleIsKept DEF f

-----------------------------------------------------------------------------
(* What a run sends to the model.                                           *)

\* The call of message i, if it is one, has its results directly behind it.
AnsweredAt(s, i) ==
    s[i].role = "assistant" =>
        \A k \in 1..s[i].n :
            /\ i + k \in 1..Len(s)
            /\ s[i + k].role = "tool" /\ s[i + k].turn = s[i].turn /\ s[i + k].n = k

SystemUpTo(s, k) ==
    /\ k <= Len(s)
    /\ \A i \in 1..Len(s) : s[i].role = "system" <=> i <= k

SystemFirst(s) == \E k \in 0..MaxSystem : SystemUpTo(s, k)

\* The call of turn t and its n results close the messages.
Ends(s, t, n) ==
    /\ n < Len(s)
    /\ s[Len(s) - n] = Msg("assistant", t, n)
    /\ \A k \in 1..n : s[Len(s) - n + k] = Msg("tool", t, k)

Fits(n) == 2 * n <= MaxContext /\ n + 1 <= MaxContext - MaxSystem

\* Where message i of the compressed messages comes from.
From(s, k, i) == IF i <= k THEN i ELSE i + (Len(s) - MaxContext)

LEMMA MessageRoles == \A m \in Messages : m.role \in Roles
BY DEF Messages

LEMMA TruncatedKeeps ==
    ASSUME NEW s \in Seq(Messages)
    PROVE  /\ Truncated(s) \in Seq(Messages) /\ Len(Truncated(s)) = Len(s)
           /\ \A i \in 1..Len(s) :
                /\ Truncated(s)[i].role = s[i].role /\ Truncated(s)[i].turn = s[i].turn
                /\ Truncated(s)[i].n = s[i].n
                /\ 2 * i > Len(s) => Truncated(s)[i] = s[i]
<1>1. ASSUME NEW i \in 1..Len(s)
      PROVE  /\ Truncated(s)[i] \in Messages
             /\ Truncated(s)[i].role = s[i].role /\ Truncated(s)[i].turn = s[i].turn
             /\ Truncated(s)[i].n = s[i].n
             /\ 2 * i > Len(s) => Truncated(s)[i] = s[i]
  <2>1. s[i] \in Messages
    OBVIOUS
  <2>2. [s[i] EXCEPT !.cut = TRUE] \in Messages
    BY <2>1 DEF Messages
  <2>3. Truncated(s)[i] = IF i <= Len(s) \div 2 /\ s[i].role = "tool"
                          THEN [s[i] EXCEPT !.cut = TRUE] ELSE s[i]
    <3>1. i \in DOMAIN s
      OBVIOUS
    <3> QED
      BY <3>1, Zenon DEF Truncated
  <2>4. 2 * i > Len(s) => ~(i <= Len(s) \div 2)
    OBVIOUS
  <2> QED
    BY <2>1, <2>2, <2>3, <2>4 DEF Messages
<1>2. Truncated(s) \in [1..Len(s) -> Messages]
  <2>1. DOMAIN s = 1..Len(s)
    OBVIOUS
  <2>2. Truncated(s) = [i \in 1..Len(s) |-> Truncated(s)[i]]
    BY <2>1, Zenon DEF Truncated
  <2> QED
    BY <1>1, <2>2, Zenon
<1>3. Truncated(s) \in Seq(Messages) /\ Len(Truncated(s)) = Len(s)
  BY <1>2
<1> QED
  BY <1>1, <1>3

\* Compressed messages: the system messages and the latest others, so many that the
\* context is just full.
LEMMA Compressed ==
    ASSUME LoopAssumption, NEW s \in Seq(Messages), NEW k \in 0..MaxSystem,
           SystemUpTo(s, k), Len(s) > MaxContext
    PROVE  /\ Compress(s) \in Seq(Messages) /\ Len(Compress(s)) = MaxContext
           /\ \A i \in 1..MaxContext :
                /\ From(s, k, i) \in 1..Len(s)
                /\ Compress(s)[i] = Truncated(s)[From(s, k, i)]
<1> DEFINE t == Truncated(s)
           window == MaxContext - k
           other == SubSeq(t, k + 1, Len(s))
<1>1. /\ t \in Seq(Messages) /\ Len(t) = Len(s)
      /\ \A i \in 1..Len(s) : t[i].role = s[i].role /\ t[i].role \in Roles
  BY TruncatedKeeps, MessageRoles
<1> HIDE DEF t
<1>2. /\ MaxContext \in Nat /\ MaxSystem \in Nat /\ MaxSystem < MaxContext
      /\ Len(s) \in Nat /\ k \in 0..Len(s) /\ k < MaxContext
  BY DEF LoopAssumption, SystemUpTo
<1>3. WithRole(t, {"system"}) = SubSeq(t, 1, k)
  <2>1. \A i \in 1..Len(t) : t[i].role \in {"system"} <=> i <= k
    BY <1>1 DEF SystemUpTo
  <2> QED
    BY <1>1, <1>2, <2>1, WithRoleSplit
<1>4. WithRole(t, Roles \ {"system"}) = other
  <2>1. \A i \in 1..Len(t) : t[i].role \in Roles \ {"system"} <=> i > k
    BY <1>1, <1>2 DEF SystemUpTo
  <2> QED
    BY ZenonT(30), <1>1, <1>2, <2>1, WithRoleSplit
<1>5. /\ SubSeq(t, 1, k) \in Seq(Messages) /\ Len(SubSeq(t, 1, k)) = k
      /\ \A i \in 1..k : SubSeq(t, 1, k)[i] = t[i]
  BY <1>1, <1>2, SubSeqProperties
<1>6. /\ other \in Seq(Messages) /\ Len(other) = Len(s) - k
      /\ \A i \in 1..(Len(s) - k) : other[i] = t[k + i]
  <2> DEFINE m == k + 1
             n == Len(s)
  <2>1. m \in Int /\ n \in Int /\ \A i \in m..n : t[i] \in Messages
    BY <1>1, <1>2
  <2>3. (m <= n => n - m + 1 = n - k) /\ (~(m <= n) => n - k = 0) /\ n - m + 1 = n - k
    BY <1>2
  <2>4. \A i \in 1..(n - k) : m + i - 1 = k + i
    BY <1>2
  <2> HIDE DEF m, n
  <2>5. /\ SubSeq(t, m, n) \in Seq(Messages)
        /\ Len(SubSeq(t, m, n)) = IF m <= n THEN n - m + 1 ELSE 0
        /\ \A i \in 1..(n - m + 1) : SubSeq(t, m, n)[i] = t[m + i - 1]
    BY <2>1, SubSeqProperties
  <2>6. Len(SubSeq(t, m, n)) = n - k
    BY <2>3, <2>5
  <2>7. \A i \in 1..(n - k) : SubSeq(t, m, n)[i] = t[k + i]
    BY <2>3, <2>4, <2>5
  <2> QED
    BY <2>5, <2>6, <2>7 DEF m, n
<1> HIDE DEF other
<1> DEFINE from == Len(other) - window + 1
           last == SubSeq(other, from, Len(other))
<1>7. Last(other, window) = last
  <2>1. ~(window >= Len(other))
    BY <1>2, <1>6
  <2> QED
    BY <2>1 DEF Last
<1>8. /\ last \in Seq(Messages) /\ Len(last) = window
      /\ \A i \in 1..window : last[i] = t[i + k + (Len(s) - MaxContext)]
  <2>1. from \in Int /\ Len(other) \in Int /\ from = Len(s) - MaxContext + 1 /\ from >= 1
    BY <1>2, <1>6
  <2>2. \A i \in from..Len(other) : other[i] \in Messages
    BY SMTT(30), <1>6, <2>1
  <2> HIDE DEF from
  <2>3. /\ last \in Seq(Messages)
        /\ Len(last) = IF from <= Len(other) THEN Len(other) - from + 1 ELSE 0
        /\ \A i \in 1..(Len(other) - from + 1) : last[i] = other[from + i - 1]
    BY SMTT(30), <2>1, <2>2, SubSeqProperties
  <2>4. ASSUME NEW i \in 1..window PROVE last[i] = t[i + k + (Len(s) - MaxContext)]
    <3>1. from + i - 1 \in 1..(Len(s) - k) /\ i \in 1..(Len(other) - from + 1)
      BY <1>2, <1>6, <2>1
    <3>2. k + (from + i - 1) = i + k + (Len(s) - MaxContext)
      BY <1>2, <2>1
    <3> QED
      BY <1>6, <2>3, <3>1, <3>2
  <2> QED
    BY SMTT(30), <1>2, <1>6, <2>1, <2>3, <2>4
<1> HIDE DEF last, from
<1>9. Compress(s) = SubSeq(t, 1, k) \o last
  <2>1. Compress(s) = WithRole(t, {"system"})
                        \o Last(WithRole(t, Roles \ {"system"}),
                                MaxContext - Len(WithRole(t, {"system"})))
    <3>1. ~(Len(s) <= MaxContext)
      BY <1>2
    <3> QED
      BY <3>1, Zenon DEF Compress, t
  <2> QED
    BY <1>3, <1>4, <1>5, <1>7, <2>1
<1>10. /\ Compress(s) \in Seq(Messages) /\ Len(Compress(s)) = MaxContext
       /\ \A i \in 1..MaxContext :
            Compress(s)[i] = IF i <= k THEN SubSeq(t, 1, k)[i] ELSE last[i - k]
  BY <1>2, <1>5, <1>8, <1>9, ConcatProperties
<1>11. ASSUME NEW i \in 1..MaxContext
       PROVE  From(s, k, i) \in 1..Len(s) /\ Compress(s)[i] = t[From(s, k, i)]
  <2>1. CASE i <= k
    BY <1>2, <1>5, <1>10, <2>1 DEF From
  <2>2. CASE i > k
    <3>1. i - k \in 1..window /\ (i - k) + k + (Len(s) - MaxContext) = i + (Len(s) - MaxContext)
      BY <1>2, <2>2
    <3>2. From(s, k, i) = i + (Len(s) - MaxContext) /\ From(s, k, i) \in 1..Len(s)
      BY <1>2, <2>2 DEF From
    <3>3. last[i - k] = t[i + (Len(s) - MaxContext)]
      BY <1>8, <3>1
    <3> QED
      BY <1>2, <1>10, <2>2, <3>2, <3>3
  <2> QED
    BY <2>1, <2>2
<1> QED
  BY <1>10, <1>11 DEF t

\* Compression keeps the answers with their calls, the system messages in front and
\* the last turn whole.
LEMMA CompressKeeps ==
    ASSUME LoopAssumption, NEW s \in Seq(Messages), SystemFirst(s),
           \A i \in 1..Len(s) : AnsweredAt(s, i)
    PROVE  /\ Compress(s) \in Seq(Messages) /\ Len(Compress(s)) <= MaxContext
           /\ SystemFirst(Compress(s))
           /\ \A i \in 1..Len(Compress(s)) : AnsweredAt(Compress(s), i)
           /\ \A t \in Nat, n \in Nat : Ends(s, t, n) /\ Fits(n) => Ends(Compress(s), t, n)
<1>1. /\ MaxContext \in Nat /\ MaxSystem \in Nat /\ MaxSystem < MaxContext /\ Len(s) \in Nat
  BY DEF LoopAssumption
<1>2. CASE Len(s) <= MaxContext
  BY <1>2 DEF Compress
<1>3. CASE Len(s) > MaxContext
  <2> DEFINE c == Compress(s)
             D == Len(s) - MaxContext
  <2>1. PICK k \in 0..MaxSystem : SystemUpTo(s, k)
    BY DEF SystemFirst
  <2>2. /\ c \in Seq(Messages) /\ Len(c) = MaxContext
        /\ \A i \in 1..MaxContext :
             From(s, k, i) \in 1..Len(s) /\ c[i] = Truncated(s)[From(s, k, i)]
    BY <1>3, <2>1, Compressed
  <2> HIDE DEF c
  <2>3. k \in Nat /\ k < MaxContext /\ D \in Nat /\ D > 0
    BY <1>1, <1>3
  <2>4. ASSUME NEW i \in 1..MaxContext
        PROVE  /\ i <= k => c[i].role = "system"
               /\ i > k => /\ i + D \in 1..Len(s) /\ i + D > k
                           /\ c[i].role = s[i + D].role /\ c[i].turn = s[i + D].turn
                           /\ c[i].n = s[i + D].n /\ c[i].role # "system"
                           /\ 2 * (i + D) > Len(s) => c[i] = s[i + D]
    <3>1. CASE i <= k
      BY SMTT(30), <2>1, <2>2, <2>3, <3>1, TruncatedKeeps DEF From, SystemUpTo
    <3>2. CASE i > k
      <4>1. From(s, k, i) = i + D /\ i + D > k /\ i + D \in 1..Len(s)
        BY <2>2, <2>3, <3>2 DEF From
      <4> HIDE DEF D
      <4>2. s[i + D].role # "system"
        BY <2>1, <2>3, <4>1 DEF SystemUpTo
      <4> QED
        BY <2>2, <2>3, <3>2, <4>1, <4>2, TruncatedKeeps
    <3> QED
      BY <2>3, <3>1, <3>2
  <2>5. SystemFirst(c)
    <3>1. SystemUpTo(c, k)
      BY <2>2, <2>3, <2>4 DEF SystemUpTo
    <3> QED
      BY <3>1 DEF SystemFirst
  <2>6. ASSUME NEW i \in 1..Len(c) PROVE AnsweredAt(c, i)
    <3> SUFFICES ASSUME c[i].role = "assistant", NEW m \in 1..c[i].n
                 PROVE  /\ i + m \in 1..Len(c)
                        /\ c[i + m].role = "tool" /\ c[i + m].turn = c[i].turn
                        /\ c[i + m].n = m
      BY DEF AnsweredAt
    <3>1. i > k /\ i \in 1..MaxContext
      BY <2>2, <2>3, <2>4
    <3>2. /\ i + D \in 1..Len(s) /\ s[i + D].role = "assistant"
          /\ m \in 1..s[i + D].n /\ s[i + D].turn = c[i].turn
      BY <2>4, <3>1
    <3>3. /\ (i + D) + m \in 1..Len(s)
          /\ s[(i + D) + m].role = "tool" /\ s[(i + D) + m].turn = c[i].turn
          /\ s[(i + D) + m].n = m
      <4> DEFINE j == i + D
      <4>1. j \in 1..Len(s) /\ AnsweredAt(s, j)
        BY <3>2
      <4>2. j \in 1..Len(s) /\ s[j].role = "assistant" /\ m \in 1..s[j].n /\ s[j].turn = c[i].turn
        BY <3>2
      <4> HIDE DEF j
      <4>3. j + m \in 1..Len(s) /\ s[j + m].role = "tool" /\ s[j + m].turn = s[j].turn
            /\ s[j + m].n = m
        BY <4>1, <4>2 DEF AnsweredAt
      <4> QED
        BY <4>2, <4>3 DEF j
    <3>4. m \in Nat /\ m > 0
      <4>1. s[i + D] \in Messages
        BY <3>2
      <4>2. s[i + D].n \in Nat
        BY <4>1 DEF Messages
      <4> QED
        BY SMTT(30), <3>2, <4>2
    <3>5. i + m \in 1..MaxContext /\ i + m > k /\ (i + m) + D = (i + D) + m
      <4>1. i \in Int /\ k \in Int /\ D \in Int /\ Len(s) \in Int /\ m \in Int
        BY <1>1, <2>3, <3>1, <3>4
      <4>2. i + D + m <= Len(s) /\ MaxContext + D = Len(s) /\ i >= 1 /\ i > k /\ m > 0
        BY <1>1, <2>3, <3>1, <3>3, <3>4
      <4> HIDE DEF D
      <4> QED
        BY <1>1, <4>1, <4>2
    <3> QED
      BY SMTT(30), <2>2, <2>4, <3>3, <3>5
  <2>7. ASSUME NEW t \in Nat, NEW n \in Nat, Ends(s, t, n), Fits(n) PROVE Ends(c, t, n)
    <3>1. n < MaxContext /\ 2 * n < Len(s) /\ MaxContext - n > k
      BY <1>1, <1>3, <2>3, <2>7 DEF Fits
    <3>2. ASSUME NEW j \in 0..n
          PROVE  /\ j > 0 => c[MaxContext - n + j] = s[Len(s) - n + j]
                 /\ c[MaxContext - n + j].role = s[Len(s) - n + j].role
      <4>1. /\ MaxContext - n + j \in 1..MaxContext /\ MaxContext - n + j > k
            /\ (MaxContext - n + j) + D = Len(s) - n + j
            /\ 2 * (Len(s) - n + j) > Len(s)
        BY <1>1, <1>3, <2>3, <3>1
      <4> QED
        BY <2>4, <4>1
    <3>3. c[MaxContext - n] = s[Len(s) - n]
      <4>1. /\ MaxContext - n \in 1..MaxContext /\ MaxContext - n > k
            /\ (MaxContext - n) + D = Len(s) - n
            /\ 2 * (Len(s) - n) > Len(s)
        BY <1>1, <1>3, <2>3, <3>1
      <4> QED
        BY <2>4, <4>1
    <3>4. n < Len(c) /\ c[Len(c) - n] = Msg("assistant", t, n)
      BY <1>1, <2>2, <2>7, <3>1, <3>3 DEF Ends
    <3>5. ASSUME NEW j \in 1..n PROVE c[Len(c) - n + j] = Msg("tool", t, j)
      <4>1. j \in 0..n /\ j > 0
        OBVIOUS
      <4>2. c[MaxContext - n + j] = s[Len(s) - n + j]
        BY <3>2, <4>1
      <4> QED
        BY <2>2, <2>7, <4>2 DEF Ends
    <3> QED
      BY <3>4, <3>5 DEF Ends
  <2> QED
    BY <1>1, <2>2, <2>5, <2>6, <2>7 DEF c
<1> QED
  BY <1>1, <1>2, <1>3

-----------------------------------------------------------------------------
RunTyped ==
    /\ turn \in [Runs -> 0..MaxTurns]
    /\ msgs \in [Runs -> Seq(Messages)]
    /\ asked \in [Runs -> 0..MaxContinuations]
    /\ \A r \in Runs : Len(calls[r]) <= MaxCalls

\* The messages of a run at each point of its turn: between the turns every call is
\* answered, and the last turn closes them; while tools run, its call closes them.
Telling(m, p, t, s, n) ==
    /\ SystemFirst(s)
    /\ p = "off" => t = 0
    /\ p \in {"compose", "ask", "more"} => \A i \in 1..Len(s) : AnsweredAt(s, i)
    /\ p = "tools" =>
         /\ s # <<>>
         /\ s[Len(s)] = Msg("assistant", t, IF m = "structured" THEN 0 ELSE n)
         /\ \A i \in 1..(Len(s) - 1) : AnsweredAt(s, i)
    /\ p = "compose" /\ t > 0 /\ m # "structured" => Ends(s, t, n)
    /\ p = "ask" =>
         /\ Len(s) <= MaxContext
         /\ t > 1 /\ m # "structured" /\ Fits(n) => Ends(s, t - 1, n)

Talk(r) == Telling(mode, pc[r], turn[r], msgs[r], Len(calls[r]))

TalkInv == RunTyped /\ \A r \in Runs : Talk(r)

LEMMA Constants ==
    /\ MaxTurns \in Nat /\ MaxCalls \in Nat /\ MaxCalls > 0 /\ MaxContinuations \in Nat
    /\ MaxSystem \in Nat /\ MaxContext \in Nat /\ MaxHistory \in Nat /\ Window \in Nat
BY LoopAssumption

LEMMA WindowType == MaxRecent \in Nat
<1>1. Window \in Nat
  BY LoopAssumption
<1>2. MaxPingPong \in Nat
  BY <1>1 DEF MaxPingPong
<1> QED
  BY <1>1, <1>2 DEF MaxRecent

LEMMA MsgTyped ==
    \A role \in Roles, t \in 0..MaxTurns, n \in 0..MaxCalls :
        /\ Msg(role, t, n) \in Messages
        /\ Msg(role, t, n).role = role /\ Msg(role, t, n).turn = t /\ Msg(role, t, n).n = n
BY DEF Msg, Messages

\* More messages at the end take no answer away and leave the system messages first.
LEMMA Longer ==
    ASSUME NEW s \in Seq(Messages), NEW t \in Seq(Messages)
    PROVE  /\ s \o t \in Seq(Messages) /\ Len(s \o t) = Len(s) + Len(t)
           /\ \A i \in 1..Len(s) : (s \o t)[i] = s[i]
           /\ \A i \in 1..Len(t) : (s \o t)[Len(s) + i] = t[i]
           /\ SystemFirst(s) /\ (\A i \in 1..Len(t) : t[i].role # "system")
                => SystemFirst(s \o t)
           /\ \A i \in 1..Len(s) : AnsweredAt(s, i) => AnsweredAt(s \o t, i)
<1> DEFINE u == s \o t
<1>1. /\ u \in Seq(Messages) /\ Len(u) = Len(s) + Len(t)
      /\ \A i \in 1..(Len(s) + Len(t)) : u[i] = IF i <= Len(s) THEN s[i] ELSE t[i - Len(s)]
  BY ConcatProperties
<1>2. Len(s) \in Nat /\ Len(t) \in Nat
  OBVIOUS
<1> HIDE DEF u
<1>3. \A i \in 1..Len(s) : u[i] = s[i]
  BY <1>1, <1>2
<1>4. ASSUME NEW i \in 1..Len(t) PROVE u[Len(s) + i] = t[i]
  <2>1. Len(s) + i \in 1..(Len(s) + Len(t)) /\ ~(Len(s) + i <= Len(s)) /\ (Len(s) + i) - Len(s) = i
    BY <1>2
  <2> QED
    BY <1>1, <2>1
<1>5. ASSUME SystemFirst(s), \A i \in 1..Len(t) : t[i].role # "system"
      PROVE  SystemFirst(u)
  <2>1. PICK k \in 0..MaxSystem : SystemUpTo(s, k)
    BY <1>5 DEF SystemFirst
  <2>2. ASSUME NEW i \in 1..Len(u) PROVE u[i].role = "system" <=> i <= k
    <3>1. CASE i <= Len(s)
      <4>1. i \in 1..Len(s)
        BY <1>1, <1>2, <3>1
      <4> QED
        BY <1>3, <2>1, <4>1 DEF SystemUpTo
    <3>2. CASE i > Len(s)
      <4>1. i - Len(s) \in 1..Len(t) /\ u[i] = t[i - Len(s)] /\ k <= Len(s)
        BY <1>1, <1>2, <2>1, <3>2 DEF SystemUpTo
      <4>2. ~(i <= k)
        BY <1>2, <3>2, <4>1, Constants
      <4> QED
        BY <1>5, <4>1, <4>2
    <3> QED
      BY <1>2, <3>1, <3>2
  <2>3. SystemUpTo(u, k)
    BY <1>1, <1>2, <2>1, <2>2, Constants DEF SystemUpTo
  <2> QED
    BY <2>3 DEF SystemFirst
<1>6. ASSUME NEW i \in 1..Len(s), AnsweredAt(s, i) PROVE AnsweredAt(u, i)
  <2>1. u[i] = s[i] /\ 1..Len(s) \subseteq 1..Len(u)
    BY <1>1, <1>2, <1>3
  <2> QED
    BY <1>3, <1>6, <2>1 DEF AnsweredAt
<1> QED
  BY <1>1, <1>3, <1>4, <1>5, <1>6 DEF u

\* What a step leaves alone, the messages of that run keep.
LEMMA SameTalk ==
    ASSUME NEW r \in Runs, Talk(r), mode' = mode, pc'[r] = pc[r], turn'[r] = turn[r],
           msgs'[r] = msgs[r], calls'[r] = calls[r]
    PROVE  Talk(r)'
BY DEF Talk

\* A step of run r alone.
Only(r) ==
    \A q \in Runs \ {r} : /\ pc'[q] = pc[q] /\ turn'[q] = turn[q] /\ msgs'[q] = msgs[q]
                           /\ calls'[q] = calls[q]

LEMMA RunStepOnly ==
    ASSUME CallsTyped, RunTyped, NEW r \in Runs, RunStep(r)
    PROVE  Only(r) /\ mode' = mode
<1>1. CASE \E cs \in CallLists : CallTools(r, cs)
  BY <1>1 DEF CallTools, Only, agent, CallsTyped, RunTyped
<1>2. CASE ~\E cs \in CallLists : CallTools(r, cs)
  BY <1>2 DEF RunStep, Start, Compose, MaxTurnsExceeded, FinalAnswer, Continue, EndTurn, Only,
              agent, CallsTyped, RunTyped
<1> QED
  BY <1>1, <1>2

LEMMA StartTalk ==
    ASSUME CallsTyped, TalkInv, NEW r \in Runs, Start(r) PROVE RunTyped' /\ Talk(r)'
<1>1. PICK k \in 0..MaxSystem, h \in 0..MaxHistory :
        msgs' = [msgs EXCEPT ![r] = Copies(Msg("system", 0, 0), k)
                                      \o Copies(Msg("user", 0, 0), h + 1)]
  BY DEF Start
<1> DEFINE s == Copies(Msg("system", 0, 0), k)
           t == Copies(Msg("user", 0, 0), h + 1)
<1>2. /\ pc[r] = "off" /\ pc' = [pc EXCEPT ![r] = "compose"]
      /\ UNCHANGED <<agent, turn, calls, work, cycle, asked>>
  BY DEF Start
<1>3. /\ s \in Seq(Messages) /\ Len(s) = k /\ \A i \in 1..k : s[i] = Msg("system", 0, 0)
      /\ t \in Seq(Messages) /\ Len(t) = h + 1
      /\ \A i \in 1..(h + 1) : t[i] = Msg("user", 0, 0)
  <2>1. Msg("system", 0, 0) \in Messages /\ Msg("user", 0, 0) \in Messages
    BY Constants, MsgTyped DEF Roles
  <2>2. k \in Nat /\ h + 1 \in Nat
    BY Constants
  <2> QED
    BY <2>1, <2>2 DEF Copies
<1>4. Msg("system", 0, 0).role = "system" /\ Msg("user", 0, 0).role = "user"
  BY DEF Msg
<1> HIDE DEF s, t
<1>5. SystemFirst(s) /\ \A i \in 1..Len(t) : t[i].role # "system"
  <2>1. SystemUpTo(s, k)
    BY <1>3, <1>4, Constants DEF SystemUpTo
  <2> QED
    BY <1>3, <1>4, <2>1 DEF SystemFirst
<1>6. /\ s \o t \in Seq(Messages) /\ SystemFirst(s \o t)
      /\ Len(s \o t) = k + (h + 1)
      /\ \A i \in 1..k : (s \o t)[i] = s[i]
      /\ \A i \in 1..(h + 1) : (s \o t)[k + i] = t[i]
  <2>1. /\ s \o t \in Seq(Messages) /\ SystemFirst(s \o t)
        /\ Len(s \o t) = Len(s) + Len(t)
        /\ \A i \in 1..Len(s) : (s \o t)[i] = s[i]
        /\ \A i \in 1..Len(t) : (s \o t)[Len(s) + i] = t[i]
    BY <1>3, <1>5, Longer
  <2> QED
    BY <1>3, <2>1
<1>7. ASSUME NEW i \in 1..Len(s \o t) PROVE AnsweredAt(s \o t, i)
  <2>1. CASE i <= k
    BY <1>3, <1>4, <1>6, <2>1, Constants DEF AnsweredAt
  <2>2. CASE i > k
    <3>1. i - k \in 1..(h + 1) /\ k + (i - k) = i
      BY <1>6, <2>2, Constants
    <3>2. (s \o t)[i] = t[i - k]
      BY <1>6, <3>1
    <3> QED
      BY <1>3, <1>4, <3>1, <3>2 DEF AnsweredAt
  <2> QED
    BY <2>1, <2>2, Constants
<1>8. msgs'[r] = s \o t /\ turn'[r] = 0 /\ pc'[r] = "compose"
  <2>1. turn[r] = 0
    BY <1>2 DEF TalkInv, Talk, Telling
  <2> QED
    BY <1>1, <1>2, <2>1 DEF s, t, TalkInv, RunTyped, CallsTyped
<1>9. RunTyped'
  BY <1>1, <1>2, <1>6 DEF TalkInv, RunTyped, s, t
<1>10. Talk(r)'
  <2>1. Telling(mode', "compose", 0, s \o t, Len(calls'[r]))
    BY <1>6, <1>7 DEF Telling
  <2> QED
    BY <1>8, <2>1 DEF Talk
<1> QED
  BY <1>9, <1>10

LEMMA ComposeTalk ==
    ASSUME CallsTyped, TalkInv, NEW r \in Runs, Compose(r) PROVE RunTyped' /\ Talk(r)'
<1> DEFINE s == msgs[r]
           n == Len(calls[r])
<1>1. /\ pc[r] = "compose" /\ turn[r] < MaxTurns
      /\ turn' = [turn EXCEPT ![r] = @ + 1]
      /\ msgs' = [msgs EXCEPT ![r] = Compress(s)]
      /\ pc' = [pc EXCEPT ![r] = "ask"]
      /\ UNCHANGED <<mode, calls, asked>>
  BY DEF Compose, agent
<1>2. /\ s \in Seq(Messages) /\ SystemFirst(s) /\ \A i \in 1..Len(s) : AnsweredAt(s, i)
      /\ turn[r] \in 0..MaxTurns /\ n \in Nat
      /\ turn[r] > 0 /\ mode # "structured" => Ends(s, turn[r], n)
  BY <1>1 DEF TalkInv, RunTyped, Talk, Telling, CallsTyped
<1>3. /\ turn'[r] = turn[r] + 1 /\ pc'[r] = "ask" /\ msgs'[r] = Compress(s)
      /\ calls'[r] = calls[r]
  BY <1>1 DEF TalkInv, RunTyped, CallsTyped
<1> HIDE DEF s, n
<1>4. /\ Compress(s) \in Seq(Messages) /\ Len(Compress(s)) <= MaxContext
      /\ SystemFirst(Compress(s))
      /\ \A i \in 1..Len(Compress(s)) : AnsweredAt(Compress(s), i)
      /\ Ends(s, turn[r], n) /\ Fits(n) => Ends(Compress(s), turn[r], n)
  <2>1. turn[r] \in Nat
    BY <1>2, Constants
  <2> QED
    BY <1>2, <2>1, CompressKeeps, LoopAssumption
<1>5. RunTyped'
  BY <1>1, <1>2, <1>4, Constants DEF TalkInv, RunTyped
<1>6. Telling(mode', "ask", turn[r] + 1, Compress(s), n)
  <2>1. (turn[r] + 1) - 1 = turn[r] /\ (turn[r] + 1 > 1 => turn[r] > 0)
    BY <1>2, Constants
  <2> QED
    BY <1>1, <1>2, <1>4, <2>1 DEF Telling
<1> QED
  BY <1>3, <1>5, <1>6 DEF Talk, n

\* The run ends, by its turns or by an answer.
LEMMA DoneTalk ==
    ASSUME CallsTyped, TalkInv, NEW r \in Runs, MaxTurnsExceeded(r) \/ FinalAnswer(r)
    PROVE  RunTyped' /\ Talk(r)'
<1>1. pc' = [pc EXCEPT ![r] = "done"] /\ UNCHANGED <<mode, turn, msgs, calls, asked>>
  BY DEF MaxTurnsExceeded, FinalAnswer, agent
<1>2. pc'[r] = "done"
  BY <1>1 DEF CallsTyped
<1>3. RunTyped'
  BY <1>1 DEF TalkInv, RunTyped
<1>4. Telling(mode, "done", turn[r], msgs[r], Len(calls[r]))
  BY DEF TalkInv, Talk, Telling
<1> QED
  BY <1>1, <1>2, <1>3, <1>4 DEF Talk

LEMMA ContinueTalk ==
    ASSUME CallsTyped, TalkInv, NEW r \in Runs, Continue(r) PROVE RunTyped' /\ Talk(r)'
<1> DEFINE s == msgs[r]
           t == <<Msg("assistant", turn[r], 0), Msg("user", turn[r], 0)>>
<1>1. /\ pc[r] \in {"ask", "more"} /\ asked[r] < MaxContinuations
      /\ asked' = [asked EXCEPT ![r] = @ + 1]
      /\ msgs' = [msgs EXCEPT ![r] = s \o t]
      /\ pc' = [pc EXCEPT ![r] = "more"]
      /\ UNCHANGED <<mode, turn, calls>>
  BY DEF Continue, agent
<1>2. /\ s \in Seq(Messages) /\ SystemFirst(s) /\ \A i \in 1..Len(s) : AnsweredAt(s, i)
      /\ turn[r] \in 0..MaxTurns /\ asked[r] \in 0..MaxContinuations
  BY <1>1 DEF TalkInv, RunTyped, Talk, Telling
<1>3. /\ t \in Seq(Messages) /\ Len(t) = 2
      /\ \A i \in 1..2 : t[i].role # "system" /\ t[i].n = 0
  <2>1. /\ Msg("assistant", turn[r], 0) \in Messages /\ Msg("user", turn[r], 0) \in Messages
        /\ Msg("assistant", turn[r], 0).role = "assistant" /\ Msg("user", turn[r], 0).role = "user"
        /\ Msg("assistant", turn[r], 0).n = 0 /\ Msg("user", turn[r], 0).n = 0
    BY <1>2, Constants, MsgTyped DEF Roles
  <2> QED
    BY <2>1
<1>4. msgs'[r] = s \o t /\ pc'[r] = "more"
  BY <1>1 DEF TalkInv, RunTyped, CallsTyped
<1> HIDE DEF s, t
<1>5. /\ s \o t \in Seq(Messages) /\ SystemFirst(s \o t) /\ Len(s \o t) = Len(s) + Len(t)
      /\ \A i \in 1..Len(t) : (s \o t)[Len(s) + i] = t[i]
      /\ \A i \in 1..Len(s) : AnsweredAt(s \o t, i)
  BY <1>2, <1>3, Longer
<1>6. ASSUME NEW i \in 1..Len(s \o t) PROVE AnsweredAt(s \o t, i)
  <2>1. CASE i <= Len(s)
    BY <1>2, <1>5, <2>1
  <2>2. CASE i > Len(s)
    <3>1. i - Len(s) \in 1..2 /\ Len(s) + (i - Len(s)) = i
      BY <1>2, <1>3, <1>5, <2>2
    <3>2. (s \o t)[i].n = 0
      BY <1>3, <1>5, <3>1
    <3> QED
      BY <3>2 DEF AnsweredAt
  <2> QED
    BY <1>2, <2>1, <2>2
<1>7. RunTyped'
  BY <1>1, <1>2, <1>5, Constants DEF TalkInv, RunTyped
<1>8. Telling(mode', "more", turn'[r], s \o t, Len(calls'[r]))
  BY <1>5, <1>6 DEF Telling
<1> QED
  BY <1>4, <1>7, <1>8 DEF Talk

LEMMA CallToolsTalk ==
    ASSUME CallsTyped, TalkInv, NEW r \in Runs, NEW cs \in CallLists, CallTools(r, cs)
    PROVE  RunTyped' /\ Talk(r)'
<1> DEFINE s == msgs[r]
           n == IF mode = "structured" THEN 0 ELSE Len(cs)
           m == Msg("assistant", turn[r], n)
<1>1. /\ pc[r] = "ask"
      /\ pc' = [pc EXCEPT ![r] = "tools"]
      /\ calls' = [calls EXCEPT ![r] = cs]
      /\ msgs' = [msgs EXCEPT ![r] = Append(s, m)]
      /\ UNCHANGED <<mode, turn, asked>>
  BY DEF CallTools, agent
<1>2. /\ s \in Seq(Messages) /\ SystemFirst(s) /\ \A i \in 1..Len(s) : AnsweredAt(s, i)
      /\ turn[r] \in 0..MaxTurns
  BY <1>1 DEF TalkInv, RunTyped, Talk, Telling
<1>3. cs \in Seq(Sigs) /\ Len(cs) \in 1..MaxCalls
  BY CallListTyped DEF Slots
<1>4. m \in Messages /\ m.role = "assistant"
  <2>1. n \in 0..MaxCalls
    BY <1>3, Constants
  <2> HIDE DEF n
  <2> QED
    BY <1>2, <2>1, MsgTyped DEF Roles
<1>5. msgs'[r] = Append(s, m) /\ pc'[r] = "tools" /\ calls'[r] = cs
  BY <1>1 DEF TalkInv, RunTyped, CallsTyped
<1> HIDE DEF s
<1>6. /\ s \o <<m>> \in Seq(Messages) /\ SystemFirst(s \o <<m>>)
      /\ Len(s \o <<m>>) = Len(s) + 1
      /\ (s \o <<m>>)[Len(s) + 1] = m
      /\ \A i \in 1..Len(s) : AnsweredAt(s \o <<m>>, i)
  <2> HIDE DEF m
  <2>1. <<m>> \in Seq(Messages) /\ Len(<<m>>) = 1 /\ <<m>>[1] = m
    BY <1>4
  <2>2. \A i \in 1..Len(<<m>>) : <<m>>[i].role # "system"
    BY <1>4, <2>1
  <2>3. 1 \in 1..Len(<<m>>)
    BY <2>1
  <2> QED
    BY <1>2, <2>1, <2>2, <2>3, Longer
<1>7. Append(s, m) = s \o <<m>>
  <2> HIDE DEF m
  <2> QED
    BY <1>2, <1>4, AppendIsConcat
<1>8. RunTyped'
  <2> HIDE DEF m
  <2>1. \A q \in Runs : Len(calls'[q]) <= MaxCalls
    BY <1>1, <1>3 DEF TalkInv, RunTyped, CallsTyped
  <2> QED
    BY <1>1, <1>6, <1>7, <2>1 DEF TalkInv, RunTyped
<1>9. Telling(mode, "tools", turn[r], s \o <<m>>, Len(cs))
  <2>1. Len(s) \in Nat
    BY <1>2
  <2>2. /\ s \o <<m>> # <<>> /\ (s \o <<m>>)[Len(s \o <<m>>)] = m
        /\ Len(s \o <<m>>) - 1 = Len(s)
    <3> HIDE DEF m
    <3> QED
      BY <1>6, <2>1
  <2> QED
    BY <1>6, <2>2 DEF Telling
<1> QED
  BY <1>1, <1>5, <1>7, <1>8, <1>9 DEF Talk

LEMMA EndTurnTalk ==
    ASSUME CallsTyped, TalkInv, NEW r \in Runs, EndTurn(r) PROVE RunTyped' /\ Talk(r)'
<1> DEFINE s == msgs[r]
           n == Len(calls[r])
           t == IF mode = "structured" THEN <<Msg("user", turn[r], 0)>>
                ELSE [i \in DOMAIN calls[r] |-> Msg("tool", turn[r], i)]
<1>1. /\ pc[r] = "tools"
      /\ msgs' = [msgs EXCEPT ![r] = s \o t]
      /\ pc' = [pc EXCEPT ![r] = "compose"]
      /\ UNCHANGED <<mode, turn, calls, asked>>
  BY DEF EndTurn, agent
<1>2. /\ s \in Seq(Messages) /\ SystemFirst(s) /\ s # <<>>
      /\ s[Len(s)] = Msg("assistant", turn[r], IF mode = "structured" THEN 0 ELSE n)
      /\ \A i \in 1..(Len(s) - 1) : AnsweredAt(s, i)
      /\ turn[r] \in 0..MaxTurns /\ n \in 0..MaxCalls /\ DOMAIN calls[r] = 1..n
  BY <1>1 DEF TalkInv, RunTyped, Talk, Telling, CallsTyped
<1>3. /\ t \in Seq(Messages) /\ Len(t) = IF mode = "structured" THEN 1 ELSE n
      /\ \A i \in 1..Len(t) :
           t[i] = IF mode = "structured" THEN Msg("user", turn[r], 0) ELSE Msg("tool", turn[r], i)
  <2>1. Msg("user", turn[r], 0) \in Messages
    BY <1>2, Constants, MsgTyped DEF Roles
  <2>2. ASSUME NEW i \in 1..n PROVE Msg("tool", turn[r], i) \in Messages
    <3>1. i \in 0..MaxCalls
      BY <1>2, Constants
    <3> QED
      BY <1>2, <3>1, MsgTyped DEF Roles
  <2>3. CASE mode = "structured"
    <3>1. t = <<Msg("user", turn[r], 0)>>
      BY <2>3
    <3> QED
      BY <2>1, <2>3, <3>1
  <2>4. CASE mode # "structured"
    <3>1. t = [i \in 1..n |-> Msg("tool", turn[r], i)]
      BY <1>2, <2>4
    <3> HIDE DEF t
    <3> QED
      BY <1>2, <2>2, <2>4, <3>1
  <2> QED
    BY <2>3, <2>4
<1>4. msgs'[r] = s \o t /\ pc'[r] = "compose"
  BY <1>1 DEF TalkInv, RunTyped, CallsTyped
<1>5. \A i \in 1..Len(t) : t[i].role \in {"user", "tool"}
  BY <1>3 DEF Msg
<1> HIDE DEF s, t, n
<1>6. /\ s \o t \in Seq(Messages) /\ SystemFirst(s \o t) /\ Len(s \o t) = Len(s) + Len(t)
      /\ \A i \in 1..Len(s) : (s \o t)[i] = s[i]
      /\ \A i \in 1..Len(t) : (s \o t)[Len(s) + i] = t[i]
      /\ \A i \in 1..Len(s) : AnsweredAt(s, i) => AnsweredAt(s \o t, i)
  BY <1>2, <1>3, <1>5, Longer
<1>7. Len(s) \in Nat \ {0} /\ Len(t) \in Nat
  BY <1>2, <1>3
<1>8. ASSUME NEW i \in 1..Len(s \o t) PROVE AnsweredAt(s \o t, i)
  <2>1. CASE i < Len(s)
    BY <1>2, <1>6, <1>7, <2>1
  <2>2. CASE i = Len(s)
    <3>1. (s \o t)[i] = s[Len(s)]
      BY <1>6, <1>7, <2>2
    <3>2. CASE mode = "structured"
      BY <1>2, <3>1, <3>2 DEF AnsweredAt, Msg
    <3>3. CASE mode # "structured"
      <4>1. /\ (s \o t)[i].n = n /\ (s \o t)[i].turn = turn[r] /\ Len(t) = n
        BY <1>2, <1>3, <3>1, <3>3 DEF Msg
      <4>2. ASSUME NEW k \in 1..n
            PROVE  i + k \in 1..Len(s \o t) /\ (s \o t)[i + k] = Msg("tool", turn[r], k)
        BY <1>3, <1>6, <1>7, <2>2, <3>3, <4>1
      <4>3. ASSUME NEW k \in 1..n
            PROVE  /\ (s \o t)[i + k].role = "tool" /\ (s \o t)[i + k].turn = turn[r]
                   /\ (s \o t)[i + k].n = k
          <5>1. (s \o t)[i + k] = Msg("tool", turn[r], k)
            BY <4>2
          <5>2. /\ Msg("tool", turn[r], k).role = "tool" /\ Msg("tool", turn[r], k).n = k
                /\ Msg("tool", turn[r], k).turn = turn[r]
            BY DEF Msg
          <5> QED
            BY <5>1, <5>2
      <4> QED
        BY <4>1, <4>2, <4>3 DEF AnsweredAt
    <3> QED
      BY <3>2, <3>3
  <2>3. CASE i > Len(s)
    <3>1. i - Len(s) \in 1..Len(t) /\ Len(s) + (i - Len(s)) = i
      BY <1>6, <1>7, <2>3
    <3>2. (s \o t)[i].role # "assistant"
      BY <1>5, <1>6, <3>1
    <3> QED
      BY <3>2 DEF AnsweredAt
  <2> QED
    BY <1>7, <2>1, <2>2, <2>3
<1>9. ASSUME mode # "structured" PROVE Ends(s \o t, turn[r], n)
  <2>1. Len(t) = n /\ n \in Nat /\ Len(s) \in 1..Len(s)
    BY <1>3, <1>7, <1>9
  <2>2. n < Len(s \o t) /\ Len(s \o t) - n = Len(s)
    BY <1>6, <1>7, <2>1
  <2>3. (s \o t)[Len(s)] = Msg("assistant", turn[r], n)
    BY <1>2, <1>6, <1>9, <2>1
  <2>4. \A k \in 1..n : (s \o t)[Len(s) + k] = Msg("tool", turn[r], k)
    BY <1>3, <1>6, <1>9, <2>1
  <2> QED
    BY <2>2, <2>3, <2>4 DEF Ends
<1>10. RunTyped'
  BY <1>1, <1>6 DEF TalkInv, RunTyped
<1>11. Telling(mode, "compose", turn[r], s \o t, n)
  BY <1>6, <1>8, <1>9 DEF Telling
<1> QED
  BY <1>1, <1>4, <1>10, <1>11 DEF Talk, n

LEMMA RunStepTalk ==
    ASSUME CallsTyped, TalkInv, NEW r \in Runs, RunStep(r) PROVE TalkInv'
<1>1. RunTyped' /\ Talk(r)'
  <2>1. CASE \E cs \in CallLists : CallTools(r, cs)
    BY <2>1, CallToolsTalk
  <2>2. CASE ~\E cs \in CallLists : CallTools(r, cs)
    BY <2>2, StartTalk, ComposeTalk, DoneTalk, ContinueTalk, EndTurnTalk DEF RunStep
  <2> QED
    BY <2>1, <2>2
<1>2. Only(r) /\ mode' = mode
  BY RunStepOnly DEF TalkInv
<1>3. ASSUME NEW q \in Runs, q # r PROVE Talk(q)'
  BY <1>2, <1>3, SameTalk DEF Only, TalkInv
<1> QED
  BY <1>1, <1>3 DEF TalkInv

LEMMA CallStepTalk ==
    ASSUME Typed, TalkInv, NEW r \in Runs, NEW i \in Slots, CallStep(r, i) PROVE TalkInv'
<1>1. UNCHANGED <<mode, pc, turn, msgs, calls, asked>>
  BY DEF CallStep, PythonStep, Unguarded, Judge, Look, Count, Weigh, Use, Follow, Block, Spare, Warn,
         Return, agent
<1>2. \A q \in Runs : Talk(q)'
  BY <1>1, SameTalk DEF TalkInv
<1> QED
  BY <1>1, <1>2 DEF TalkInv, RunTyped

-----------------------------------------------------------------------------
(* The types.                                                               *)

\* The guard's memory.
MemoryTyped ==
    /\ guard \in Guards
    /\ recent \in Seq(Tools) /\ Len(recent) <= MaxRecent
    /\ warned \subseteq Reasons(Nat)
    /\ DOMAIN excused \subseteq Reasons(Nat)

LEMMA PushedTyped ==
    ASSUME recent \in Seq(Tools), NEW tool \in Tools
    PROVE  Pushed(tool) \in Seq(Tools) /\ Len(Pushed(tool)) <= MaxRecent
<1> DEFINE s == Append(recent, tool)
           k == MaxRecent
<1>1. s \in Seq(Tools) /\ Len(s) \in Nat /\ k \in Nat
  BY WindowType
<1> HIDE DEF s, k
<1>2. CASE k >= Len(s)
  BY <1>1, <1>2 DEF Pushed, Last, s, k
<1>3. CASE k < Len(s)
  <2>1. Pushed(tool) = SubSeq(s, Len(s) - k + 1, Len(s))
    <3>1. ~(k >= Len(s))
      BY <1>1, <1>3
    <3> QED
      BY <3>1, Zenon DEF Pushed, Last, s, k
  <2>2. \A i \in (Len(s) - k + 1)..Len(s) : s[i] \in Tools
    BY <1>1, <1>3
  <2>3. Len(s) - k + 1 \in Int /\ Len(s) \in Int
    BY <1>1
  <2>4. /\ Pushed(tool) \in Seq(Tools)
        /\ Len(Pushed(tool)) = IF Len(s) - k + 1 <= Len(s)
                               THEN Len(s) - (Len(s) - k + 1) + 1 ELSE 0
    BY <2>1, <2>2, <2>3, SubSeqProperties
  <2> QED
    BY <1>1, <2>4 DEF k
<1> QED
  BY <1>1, <1>2, <1>3

LEMMA CallStepMemory ==
    ASSUME Typed, MemoryTyped, NEW r \in Runs, NEW i \in Slots, CallStep(r, i)
    PROVE  MemoryTyped'
<1>1. guard' = guard /\ MaxRecent' = MaxRecent
  BY CallStepElsewhere DEF MaxRecent
<1>2. calls[r][i][1] \in Tools
  <2>1. work[r][i] # "none"
    BY CallStepMoves DEF Moves, Checks
  <2> QED
    BY <2>1, CallIsSig DEF Typed, Sigs
<1>3. recent' \in {recent, Pushed(calls[r][i][1])}
  <2>1. CASE Judge(r, i)
    BY <2>1 DEF Judge, Check, tally
  <2>2. CASE PythonStep(r, i)
    BY <2>2 DEF PythonStep, Look, Count, Weigh, Use, Follow, agent, tally
  <2>3. CASE ~Judge(r, i) /\ ~PythonStep(r, i)
    BY <2>3 DEF CallStep, Unguarded, Block, Spare, Warn, Return, agent, tally
  <2> QED
    BY <2>1, <2>2, <2>3
<1>4. recent' \in Seq(Tools) /\ Len(recent') <= MaxRecent
  BY <1>2, <1>3, PushedTyped DEF MemoryTyped
<1>5. CASE Warn(r, i)
  <2>1. warned' = warned \cup {cycle[r][i]} /\ DOMAIN excused' = DOMAIN excused \cup {cycle[r][i]}
    BY <1>5 DEF Warn, Excuse
  <2>2. cycle[r][i] \in Reasons(Nat)
    BY DEF Typed, GuardTyped
  <2> QED
    BY <1>1, <1>4, <2>1, <2>2 DEF MemoryTyped
<1>6. CASE ~Warn(r, i)
  <2>1. UNCHANGED <<warned, excused>>
    <3>1. CASE PythonStep(r, i)
      BY <3>1, PythonEffect
    <3>2. CASE ~PythonStep(r, i)
      BY <1>6, <3>2 DEF CallStep, Unguarded, Judge, Block, Spare, Return, agent
    <3> QED
      BY <3>1, <3>2
  <2> QED
    BY <1>1, <1>4, <2>1 DEF MemoryTyped
<1> QED
  BY <1>5, <1>6

LEMMA RunStepMemory ==
    ASSUME Typed, MemoryTyped, NEW r \in Runs, RunStep(r) PROVE MemoryTyped'
BY RunStepEffect DEF MemoryTyped, MaxRecent, agent, tally

-----------------------------------------------------------------------------
Dialogue == Invariant /\ TalkInv /\ MemoryTyped

LEMMA InitDialogue == Init => Dialogue
<1> SUFFICES ASSUME Init PROVE Dialogue
  OBVIOUS
<1>1. RunTyped
  BY Constants DEF Init, RunTyped
<1>2. ASSUME NEW r \in Runs PROVE Talk(r)
  <2>1. pc[r] = "off" /\ turn[r] = 0 /\ msgs[r] = <<>>
    BY <1>2 DEF Init
  <2>2. SystemUpTo(<<>>, 0) /\ 0 \in 0..MaxSystem
    BY Constants DEF SystemUpTo
  <2>3. SystemFirst(<<>>)
    BY <2>2 DEF SystemFirst
  <2> QED
    BY <2>1, <2>3 DEF Talk, Telling
<1>3. MemoryTyped
  BY WindowType DEF Init, MemoryTyped
<1> QED
  BY <1>1, <1>2, <1>3, InitInvariant DEF Dialogue, TalkInv

LEMMA StepDialogue == Dialogue /\ [Next]_vars => Dialogue'
<1> SUFFICES ASSUME Dialogue, [Next]_vars PROVE Dialogue'
  OBVIOUS
<1>1. Invariant' /\ Typed /\ CallsTyped
  BY StepInvariant DEF Dialogue, Invariant, Typed
<1>2. ASSUME NEW r \in Runs, RunStep(r) PROVE Dialogue'
  BY <1>1, <1>2, RunStepTalk, RunStepMemory DEF Dialogue
<1>3. ASSUME NEW r \in Runs, NEW i \in Slots, CallStep(r, i) PROVE Dialogue'
  BY <1>1, <1>3, CallStepTalk, CallStepMemory DEF Dialogue
<1>4. CASE UNCHANGED vars
  <2>1. \A r \in Runs : Talk(r)'
    BY <1>4, SameTalk DEF Dialogue, TalkInv, vars, agent, run
  <2> QED
    BY <1>1, <1>4, <2>1 DEF Dialogue, TalkInv, RunTyped, MemoryTyped, MaxRecent, vars, agent,
                               tally, run
<1> QED
  BY <1>2, <1>3, <1>4, Steps

LEMMA DialogueHolds == Spec => []Dialogue
BY InitDialogue, StepDialogue, PTL DEF Spec

\* The whole state of the loop and of the guard stays in its types; recent_calls never
\* outgrows its window (loop_guard.rs:42-45, loop_guard.py:51), whoever shares the guard.
THEOREM TypeCorrect == Spec => []TypeOK
<1>1. Dialogue => TypeOK
  BY DEF Dialogue, Invariant, Typed, CallsTyped, GuardTyped, TalkInv, RunTyped, MemoryTyped, TypeOK
<1> QED
  BY <1>1, DialogueHolds, PTL

\* What the model is sent (orchestrator.py) is well formed in every turn of every run:
\* each call it made has its results directly behind it in the order of the calls,
\* whatever the guard blocked, whatever thread came back first, and however often the
\* context was compressed.
THEOREM EveryCallAnswered == Spec => []CallsAnswered
<1>1. Dialogue => CallsAnswered
  <2> SUFFICES ASSUME Dialogue, NEW r \in Runs, pc[r] \in {"ask", "more"},
                      NEW i \in DOMAIN msgs[r], msgs[r][i].role = "assistant",
                      NEW k \in 1..msgs[r][i].n
               PROVE  /\ i + k \in DOMAIN msgs[r]
                      /\ msgs[r][i + k].role = "tool"
                      /\ msgs[r][i + k].turn = msgs[r][i].turn
                      /\ msgs[r][i + k].n = k
    BY DEF CallsAnswered
  <2>1. DOMAIN msgs[r] = 1..Len(msgs[r])
    BY DEF Dialogue, TalkInv, RunTyped
  <2>2. AnsweredAt(msgs[r], i)
    BY <2>1 DEF Dialogue, TalkInv, Talk, Telling
  <2> QED
    BY <2>1, <2>2 DEF AnsweredAt
<1> QED
  BY <1>1, DialogueHolds, PTL

\* compress_context (loop_guard.py:147-193) never cuts into what the model has just
\* asked for, for every size of the context: half of it, and what the system messages
\* leave, is room enough for the last turn, and truncation stops at the half.
THEOREM LastTurnKept == Spec => []LastTurnWhole
<1>1. Dialogue => LastTurnWhole
  <2> SUFFICES ASSUME Dialogue, NEW r \in Runs, pc[r] = "ask"
               PROVE  /\ Len(msgs[r]) <= MaxContext
                      /\ /\ turn[r] > 1 /\ mode # "structured" /\ 2 * Len(calls[r]) <= MaxContext
                         /\ Len(calls[r]) + 1 <= MaxContext - MaxSystem
                         => LET n == Len(calls[r])
                                tail == Last(msgs[r], n + 1)
                            IN  /\ tail[1] = Msg("assistant", turn[r] - 1, n)
                                /\ \A k \in 1..n : tail[k + 1] = Msg("tool", turn[r] - 1, k)
    BY DEF LastTurnWhole
  <2> DEFINE s == msgs[r]
             n == Len(calls[r])
             tail == Last(s, n + 1)
  <2>1. s \in Seq(Messages) /\ Len(s) \in Nat /\ n \in Nat
    BY DEF Dialogue, Invariant, Typed, CallsTyped, TalkInv, RunTyped
  <2>2. Len(s) <= MaxContext
    BY DEF Dialogue, TalkInv, Talk, Telling
  <2>3. ASSUME turn[r] > 1, mode # "structured", 2 * n <= MaxContext,
               n + 1 <= MaxContext - MaxSystem
        PROVE  /\ tail[1] = Msg("assistant", turn[r] - 1, n)
               /\ \A k \in 1..n : tail[k + 1] = Msg("tool", turn[r] - 1, k)
    <3>1. Ends(s, turn[r] - 1, n)
      BY <2>3 DEF Dialogue, TalkInv, Talk, Telling, Fits
    <3>2. \A k \in 0..n : tail[k + 1] = s[Len(s) - n + k]
      <4> HIDE DEF s, n
      <4>1. CASE n + 1 >= Len(s)
        <5>1. tail = s /\ Len(s) = n + 1
          BY <2>1, <3>1, <4>1 DEF Last, Ends
        <5>2. \A k \in 0..n : k + 1 = Len(s) - n + k
          BY <2>1, <5>1
        <5> QED
          BY <5>1, <5>2
      <4>2. CASE n + 1 < Len(s)
        <5>1. tail = SubSeq(s, Len(s) - n, Len(s))
          <6>1. Len(s) - (n + 1) + 1 = Len(s) - n
            BY <2>1
          <6> QED
            BY <2>1, <4>2, <6>1 DEF Last
        <5>2. Len(s) - n \in Int /\ Len(s) \in Int
              /\ \A j \in (Len(s) - n)..Len(s) : s[j] \in Messages
          BY <2>1, <4>2
        <5> HIDE DEF tail
        <5>3. \A j \in 1..(Len(s) - (Len(s) - n) + 1) : tail[j] = s[(Len(s) - n) + j - 1]
          BY <5>1, <5>2, SubSeqProperties
        <5>4. ASSUME NEW k \in 0..n PROVE tail[k + 1] = s[Len(s) - n + k]
          <6>1. /\ k + 1 \in 1..(Len(s) - (Len(s) - n) + 1)
                /\ (Len(s) - n) + (k + 1) - 1 = Len(s) - n + k
            BY <2>1
          <6> QED
            BY <5>3, <6>1
        <5> QED
          BY <5>4
      <4> QED
        BY <2>1, <4>1, <4>2
    <3> HIDE DEF tail, s, n
    <3>3. tail[1] = s[Len(s) - n]
      <4>1. 0 \in 0..n /\ 0 + 1 = 1 /\ Len(s) - n + 0 = Len(s) - n
        BY <2>1
      <4> QED
        BY <3>2, <4>1
    <3>4. \A k \in 1..n : tail[k + 1] = s[Len(s) - n + k]
      BY <2>1, <3>2
    <3> QED
      BY <3>1, <3>3, <3>4 DEF Ends
  <2> QED
    BY <2>2, <2>3
<1> QED
  BY <1>1, DialogueHolds, PTL

-----------------------------------------------------------------------------
(* The stream's state: types, and the worker threads.                       *)

Models == (Asked \ {NoModel}) \cup {Default}

BridgeTyped ==
    /\ gen \in [Requests -> {"off", "open", "answer", "closed", "gone", "left"}]
    /\ thread \in [Requests -> {"off", "queued", "save", "override", "run", "ended"}]
    /\ sent \in [Requests -> Nat]
    /\ pub \in [Requests -> [Threads -> [event : Nat, calls : Seq(Streams)]]]
    /\ subs \in Seq(Streams)
    /\ ready \in Seq(Callbacks)
    /\ queue \in [Streams -> Seq(Events \cup {Done})]
    /\ shown \in [Streams -> Seq(Events)]

ModelTyped ==
    /\ wants \in [Requests -> Asked \cup {NoModel}]
    /\ saved \in [Requests -> Asked \cup {Default, NoModel}]
    /\ model \in Models
    /\ \A r \in Requests : thread[r] \in {"override", "run"} => saved[r] \in Models

\* At most one plain request holds the loop, and no more runs have a thread than the
\* executor has workers.
Crew ==
    /\ blocked = {} \/ \E r \in Requests \ Streams : blocked = {r}
    /\ IsFiniteSet(Running)
    /\ Cardinality(Running) <= Workers

LEMMA StreamConstants ==
    /\ Streams \subseteq Requests /\ Default # NoModel /\ Workers \in Nat \ {0}
BY StreamAssumption

LEMMA WithoutTyped ==
    ASSUME NEW S, NEW s \in Seq(S), NEW i \in 1..Len(s)
    PROVE  /\ Without(s, i) \in Seq(S) /\ Len(Without(s, i)) = Len(s) - 1
           /\ \A k \in 1..(Len(s) - 1) : Without(s, i)[k] = s[IF k < i THEN k ELSE k + 1]
<1>1. Len(s) - 1 \in Nat
  OBVIOUS
<1>2. ASSUME NEW k \in 1..(Len(s) - 1) PROVE (IF k < i THEN k ELSE k + 1) \in 1..Len(s)
  OBVIOUS
<1>3. \A k \in 1..(Len(s) - 1) : s[IF k < i THEN k ELSE k + 1] \in S
  BY <1>2
<1>4. Without(s, i) \in [1..(Len(s) - 1) -> S]
  BY <1>3 DEF Without
<1> QED
  BY <1>1, <1>4 DEF Without

\* A listener is removed wherever it is.
LEMMA UnsubscribedIsWithout ==
    ASSUME subs \in Seq(Streams), NEW r, \E i \in DOMAIN subs : subs[i] = r
    PROVE  \E i \in 1..Len(subs) : subs[i] = r /\ Unsubscribed(r) = Without(subs, i)
<1> DEFINE places == {i \in DOMAIN subs : subs[i] = r}
           first == CHOOSE i \in places : \A j \in places : i <= j
<1>1. places \subseteq Nat /\ places \subseteq 1..Len(subs) /\ places # {}
  OBVIOUS
<1>2. \E i \in places : \A j \in places : i <= j
  <2> HIDE DEF places
  <2> QED
    BY <1>1, Least
<1>3. first \in places
  <2> HIDE DEF places
  <2> QED
    BY <1>2
<1>4. Unsubscribed(r) = Without(subs, first)
  BY <1>1, Zenon DEF Unsubscribed
<1> HIDE DEF first
<1> QED
  BY <1>1, <1>3, <1>4

LEMMA UnsubscribedTyped ==
    ASSUME subs \in Seq(Streams), NEW r PROVE Unsubscribed(r) \in Seq(Streams)
<1>1. CASE \E i \in DOMAIN subs : subs[i] = r
  BY <1>1, UnsubscribedIsWithout, WithoutTyped
<1>2. CASE ~\E i \in DOMAIN subs : subs[i] = r
  BY <1>2 DEF Unsubscribed
<1> QED
  BY <1>1, <1>2

LEMMA PutTyped ==
    ASSUME NEW r \in Streams, NEW x \in Events \cup {Done}
    PROVE  Put(r, x) \in Callbacks /\ Put(r, x).of = r /\ Put(r, x).do = "put" /\ Put(r, x).item = x
BY DEF Put, Callbacks

LEMMA HopTyped ==
    ASSUME NEW r \in Streams, NEW d \in {"settle", "done"}
    PROVE  Hop(d, r) \in Callbacks /\ Hop(d, r).of = r /\ Hop(d, r).do = d
BY DEF Hop, Callbacks

\* A plain request arrives or a stream opens.
LEMMA ArriveTyped ==
    ASSUME BridgeTyped, NEW r \in Requests, Arrive(r) PROVE BridgeTyped'
<1>1. CASE \E m \in Asked : OpenStream(r, m)
  <2>1. /\ r \in Streams /\ subs' = Append(subs, r)
        /\ gen' = [gen EXCEPT ![r] = "open"] /\ thread' = [thread EXCEPT ![r] = "queued"]
        /\ UNCHANGED <<sent, pub, ready, queue, shown>>
    BY <1>1 DEF OpenStream, loop
  <2>2. subs' \in Seq(Streams)
    BY <2>1, AppendProperties DEF BridgeTyped
  <2> QED
    BY <2>1, <2>2 DEF BridgeTyped
<1>2. CASE \E m \in Asked : HandleAgent(r, m)
  <2>1. /\ gen' = [gen EXCEPT ![r] = "open"] /\ thread' = [thread EXCEPT ![r] = "save"]
        /\ UNCHANGED <<sent, pub, subs, ready, queue, shown>>
    BY <1>2 DEF HandleAgent, bus
  <2> QED
    BY <2>1 DEF BridgeTyped
<1> QED
  BY <1>1, <1>2 DEF Arrive

LEMMA ThreadTyped ==
    ASSUME BridgeTyped, NEW r \in Requests,
           TakeWorker(r) \/ SaveModel(r) \/ OverrideModel(r) \/ EndHandled(r)
    PROVE  BridgeTyped'
BY DEF TakeWorker, SaveModel, OverrideModel, EndHandled, BridgeTyped, override, bus, loop

LEMMA EndRunTyped ==
    ASSUME BridgeTyped, NEW r \in Requests, EndRun(r) PROVE BridgeTyped'
<1>1. Hop("settle", r) \in Callbacks
  BY HopTyped DEF EndRun
<1> QED
  BY <1>1, AppendProperties DEF EndRun, BridgeTyped, bus

LEMMA PublishTyped ==
    ASSUME BridgeTyped, NEW r \in Requests, NEW t \in Threads, Publish(r, t) PROVE BridgeTyped'
<1>1. /\ sent' = [sent EXCEPT ![r] = @ + 1]
      /\ pub' = [pub EXCEPT ![r][t] =
                   IF subs = <<>> THEN Idle ELSE [event |-> sent[r] + 1, calls |-> subs]]
      /\ UNCHANGED <<gen, thread, subs, ready, queue, shown>>
  BY DEF Publish, loop
<1>2. (IF subs = <<>> THEN Idle ELSE [event |-> sent[r] + 1, calls |-> subs])
        \in [event : Nat, calls : Seq(Streams)]
  BY DEF BridgeTyped, Idle
<1> QED
  BY <1>1, <1>2 DEF BridgeTyped

\* What a publishing thread does with its next listener.
LEMMA CallEffect ==
    ASSUME BridgeTyped, NEW r \in Requests, NEW t \in Threads, CallListener(r, t),
           pub[r][t].event > 0
    PROVE  LET list == pub[r][t].calls
               x == <<r, t, pub[r][t].event>>
           IN  /\ list \in Seq(Streams) /\ list # <<>> /\ Head(list) \in Streams
               /\ x \in Events
               /\ ready' = Append(ready, Put(Head(list), x))
               /\ pub'[r][t].calls = Tail(list)
               /\ Tail(list) # <<>> => pub'[r][t].event = pub[r][t].event
               /\ \A q \in Requests, u \in Threads : ~(q = r /\ u = t) => pub'[q][u] = pub[q][u]
               /\ pub' \in [Requests -> [Threads -> [event : Nat, calls : Seq(Streams)]]]
               /\ UNCHANGED <<gen, thread, sent, subs, queue, shown>>
<1> DEFINE p == pub[r][t]
<1>1. /\ p.calls # <<>>
      /\ ready' = Append(ready, Put(Head(p.calls), <<r, t, p.event>>))
      /\ pub' = [pub EXCEPT ![r][t] =
                   IF Len(p.calls) = 1 THEN Idle
                   ELSE [event |-> p.event, calls |-> Tail(p.calls)]]
      /\ UNCHANGED <<gen, thread, sent, subs, queue, shown>>
  BY DEF CallListener
<1>2. p \in [event : Nat, calls : Seq(Streams)]
  BY DEF BridgeTyped
<1> HIDE DEF p
<1> DEFINE n == IF Len(p.calls) = 1 THEN Idle
                   ELSE [event |-> p.event, calls |-> Tail(p.calls)]
<1>3. /\ p.calls \in Seq(Streams) /\ Head(p.calls) \in Streams
      /\ Tail(p.calls) \in Seq(Streams) /\ (Len(p.calls) = 1 <=> Tail(p.calls) = <<>>)
  <2>1. p.calls \in Seq(Streams) /\ p.calls # <<>>
    BY <1>1, <1>2
  <2>2. /\ Head(p.calls) \in Streams /\ Tail(p.calls) \in Seq(Streams)
        /\ Len(Tail(p.calls)) = Len(p.calls) - 1
    BY <2>1, HeadTailProperties
  <2>3. Tail(p.calls) = <<>> <=> Len(Tail(p.calls)) = 0
    BY <2>2, EmptySeq
  <2> QED
    BY <2>1, <2>2, <2>3
<1>4. /\ n \in [event : Nat, calls : Seq(Streams)]
      /\ n.calls = Tail(p.calls)
      /\ Tail(p.calls) # <<>> => n.event = p.event
  BY <1>2, <1>3 DEF Idle
<1>5. pub' = [pub EXCEPT ![r][t] = n]
  BY <1>1
<1> HIDE DEF n
<1>6. /\ pub'[r][t] = n
      /\ \A q \in Requests, u \in Threads : ~(q = r /\ u = t) => pub'[q][u] = pub[q][u]
      /\ pub' \in [Requests -> [Threads -> [event : Nat, calls : Seq(Streams)]]]
  BY <1>4, <1>5 DEF BridgeTyped
<1>7. <<r, t, p.event>> \in Events
  BY <1>2 DEF Events, p
<1> QED
  BY <1>1, <1>3, <1>4, <1>6, <1>7 DEF p

LEMMA CallTyped ==
    ASSUME BridgeTyped, NEW r \in Requests, NEW t \in Threads, CallListener(r, t),
           pub[r][t].event > 0
    PROVE  BridgeTyped'
<1> DEFINE step == Put(Head(pub[r][t].calls), <<r, t, pub[r][t].event>>)
<1>1. /\ Head(pub[r][t].calls) \in Streams
      /\ <<r, t, pub[r][t].event>> \in Events
      /\ ready' = Append(ready, step)
      /\ pub' \in [Requests -> [Threads -> [event : Nat, calls : Seq(Streams)]]]
      /\ UNCHANGED <<gen, thread, sent, subs, queue, shown>>
  BY CallEffect
<1>2. step \in Callbacks
  BY <1>1, PutTyped
<1> HIDE DEF step
<1> QED
  BY <1>1, <1>2, AppendProperties DEF BridgeTyped

LEMMA GeneratorTyped ==
    ASSUME BridgeTyped, NEW r \in Streams, Generator(r) \/ Disconnect(r) PROVE BridgeTyped'
<1>1. CASE Disconnect(r)
  BY <1>1, StreamConstants DEF Disconnect, BridgeTyped, override, bus, loop
<1>2. CASE Answer(r) \/ Finalize(r)
  <2>1. /\ subs' = Unsubscribed(r) /\ gen' \in {[gen EXCEPT ![r] = "closed"], [gen EXCEPT ![r] = "left"]}
        /\ queue' = [queue EXCEPT ![r] = <<>>] /\ shown' = [shown EXCEPT ![r] = <<>>]
        /\ UNCHANGED <<thread, sent, pub, ready>>
    BY <1>2 DEF Answer, Finalize, Forget, override
  <2>2. subs' \in Seq(Streams)
    BY <2>1, UnsubscribedTyped DEF BridgeTyped
  <2>3. <<>> \in Seq(Events \cup {Done}) /\ <<>> \in Seq(Events)
    OBVIOUS
  <2>4. gen' \in [Requests -> {"off", "open", "answer", "closed", "gone", "left"}]
    BY <2>1, StreamConstants DEF BridgeTyped
  <2> QED
    BY <2>1, <2>2, <2>3, <2>4 DEF BridgeTyped
<1>3. CASE Take(r)
  <2>1. /\ gen[r] = "open" /\ queue[r] # <<>>
        /\ queue' = [queue EXCEPT ![r] = Tail(@)]
        /\ gen' = [gen EXCEPT ![r] = "answer"] \/ gen' = gen
        /\ \/ shown' = shown
           \/ /\ Head(queue[r]) # Done
              /\ shown' = [shown EXCEPT ![r] = Append(@, Head(queue[r]))]
        /\ UNCHANGED <<thread, sent, pub, subs, ready>>
    BY <1>3 DEF Take, bus
  <2>2. queue[r] \in Seq(Events \cup {Done}) /\ shown[r] \in Seq(Events)
    BY DEF BridgeTyped
  <2>3. Head(queue[r]) \in Events \cup {Done} /\ Tail(queue[r]) \in Seq(Events \cup {Done})
    BY <2>1, <2>2, HeadTailProperties
  <2>4. Head(queue[r]) # Done => Append(shown[r], Head(queue[r])) \in Seq(Events)
    BY <2>2, <2>3, AppendProperties
  <2> QED
    BY <2>1, <2>3, <2>4, StreamConstants DEF BridgeTyped
<1> QED
  BY <1>1, <1>2, <1>3 DEF Generator

LEMMA HandleTyped ==
    ASSUME BridgeTyped, Handle PROVE BridgeTyped'
<1> DEFINE h == Head(ready)
<1>1. ready # <<>> /\ h \in Callbacks /\ Tail(ready) \in Seq(Callbacks)
  BY HeadTailProperties DEF Handle, BridgeTyped
<1>2. h.of \in Streams /\ h.item \in Events \cup {Done}
  BY <1>1 DEF Callbacks
<1>3. \/ /\ queue' = queue \/ queue' = [queue EXCEPT ![h.of] = Append(@, h.item)]
         /\ ready' = Tail(ready)
      \/ /\ ready' = Append(Tail(ready), Hop("done", h.of)) \/ ready' = Append(Tail(ready), Put(h.of, Done))
         /\ UNCHANGED queue
  BY DEF Handle
<1>4. UNCHANGED <<gen, thread, sent, pub, subs, shown>>
  BY DEF Handle, bus
<1> HIDE DEF h
<1>5. Hop("done", h.of) \in Callbacks /\ Put(h.of, Done) \in Callbacks
  BY <1>2, HopTyped, PutTyped
<1>6. ready' \in Seq(Callbacks)
  BY <1>1, <1>3, <1>5, AppendProperties
<1>7. queue' \in [Streams -> Seq(Events \cup {Done})]
  <2>1. Append(queue[h.of], h.item) \in Seq(Events \cup {Done})
    BY <1>2, AppendProperties DEF BridgeTyped
  <2> QED
    BY <1>2, <1>3, <2>1 DEF BridgeTyped
<1> QED
  BY <1>4, <1>6, <1>7 DEF BridgeTyped

-----------------------------------------------------------------------------
(* Who listens, and to whom a thread has still to call.                     *)

Listens(s, r) == \E i \in DOMAIN s : s[i] = r
Distinct(s) == \A i, j \in DOMAIN s : s[i] = s[j] => i = j
Registered == {"open", "answer", "gone"}

SubsInv ==
    /\ Distinct(subs)
    /\ \A r \in Streams : gen[r] \in Registered <=> Listens(subs, r)

\* Only a running run publishes, the events it has counted; it calls a listener once.
PubInv ==
    \A r \in Requests, t \in Threads :
        /\ Distinct(pub[r][t].calls)
        /\ pub[r][t].calls # <<>> => thread[r] = "run" /\ pub[r][t].event \in 1..sent[r]
        /\ \A q \in Streams : Listens(pub[r][t].calls, q) => gen[q] # "off"

\* Before a request there is nothing of it; before its run it has published nothing.
QuietInv ==
    /\ \A r \in Requests :
         /\ thread[r] = "off" <=> gen[r] = "off"
         /\ thread[r] \in {"off", "queued", "save", "override"} => sent[r] = 0
    /\ \A r \in Streams :
         /\ gen[r] = "off" => queue[r] = <<>> /\ shown[r] = <<>>
         /\ \A i \in 1..Len(shown[r]) : shown[r][i][1] = r
    /\ \A i \in 1..Len(ready) : gen[ready[i].of] # "off"

BusInv == SubsInv /\ PubInv /\ QuietInv

LEMMA AppendIndex ==
    ASSUME NEW S, NEW s \in Seq(S), NEW x \in S
    PROVE  /\ Append(s, x) \in Seq(S) /\ Len(Append(s, x)) = Len(s) + 1
           /\ \A i \in 1..Len(s) : Append(s, x)[i] = s[i]
           /\ Append(s, x)[Len(s) + 1] = x
           /\ DOMAIN Append(s, x) = 1..(Len(s) + 1) /\ DOMAIN s = 1..Len(s)
OBVIOUS

LEMMA TailIndex ==
    ASSUME NEW S, NEW s \in Seq(S), s # <<>>
    PROVE  /\ Tail(s) \in Seq(S) /\ Len(Tail(s)) = Len(s) - 1
           /\ Len(s) \in Nat \ {0} /\ Head(s) = s[1] /\ s[1] \in S
           /\ \A i \in 1..(Len(s) - 1) : Tail(s)[i] = s[i + 1]
           /\ DOMAIN Tail(s) = 1..(Len(s) - 1) /\ DOMAIN s = 1..Len(s)
OBVIOUS

LEMMA AppendListens ==
    ASSUME NEW S, NEW s \in Seq(S), NEW x \in S
    PROVE  /\ \A q : Listens(Append(s, x), q) <=> Listens(s, q) \/ q = x
           /\ Distinct(s) /\ ~Listens(s, x) => Distinct(Append(s, x))
<1> DEFINE u == Append(s, x)
<1>1. /\ \A i \in 1..Len(s) : u[i] = s[i]
      /\ u[Len(s) + 1] = x /\ DOMAIN u = 1..(Len(s) + 1) /\ DOMAIN s = 1..Len(s)
      /\ Len(s) \in Nat
  BY AppendIndex
<1> HIDE DEF u
<1>2. \A i \in 1..(Len(s) + 1) : i \in 1..Len(s) \/ i = Len(s) + 1
  BY <1>1
<1>3. ASSUME NEW q PROVE Listens(u, q) <=> Listens(s, q) \/ q = x
  BY <1>1, <1>2 DEF Listens
<1>4. ASSUME Distinct(s), ~Listens(s, x) PROVE Distinct(u)
  BY <1>1, <1>2, <1>4 DEF Distinct, Listens
<1> QED
  BY <1>3, <1>4 DEF u

\* The head of a list without repetitions is not in its tail.
LEMMA TailListens ==
    ASSUME NEW S, NEW s \in Seq(S), s # <<>>, Distinct(s)
    PROVE  /\ Distinct(Tail(s))
           /\ \A q : Listens(Tail(s), q) <=> Listens(s, q) /\ q # Head(s)
<1> DEFINE u == Tail(s)
<1>1. /\ Len(s) \in Nat \ {0} /\ Head(s) = s[1]
      /\ \A i \in 1..(Len(s) - 1) : u[i] = s[i + 1]
      /\ DOMAIN u = 1..(Len(s) - 1) /\ DOMAIN s = 1..Len(s)
  BY TailIndex
<1> HIDE DEF u
<1>2. \A i \in 1..(Len(s) - 1) : i + 1 \in 1..Len(s) /\ i + 1 # 1
  BY <1>1
<1>3. \A i \in 1..Len(s) : i = 1 \/ (i - 1 \in 1..(Len(s) - 1) /\ (i - 1) + 1 = i)
  BY <1>1
<1>4. Distinct(u)
  BY <1>1, <1>2 DEF Distinct
<1>5. ASSUME NEW q PROVE Listens(u, q) <=> Listens(s, q) /\ q # s[1]
  <2>1. ASSUME Listens(u, q) PROVE Listens(s, q) /\ q # s[1]
    <3>1. PICK i \in 1..(Len(s) - 1) : s[i + 1] = q
      BY <1>1, <2>1 DEF Listens
    <3>2. 1 \in 1..Len(s)
      BY <1>1
    <3> QED
      BY <1>1, <1>2, <3>1, <3>2 DEF Distinct, Listens
  <2>2. ASSUME Listens(s, q), q # s[1] PROVE Listens(u, q)
    <3>1. PICK i \in 1..Len(s) : s[i] = q /\ i # 1
      BY <1>1, <2>2 DEF Listens
    <3>2. i - 1 \in 1..(Len(s) - 1) /\ u[i - 1] = q
      BY <1>1, <1>3, <3>1
    <3> QED
      BY <1>1, <3>2 DEF Listens
  <2> QED
    BY <2>1, <2>2
<1> QED
  BY <1>1, <1>4, <1>5 DEF u

LEMMA WithoutListens ==
    ASSUME NEW S, NEW s \in Seq(S), NEW k \in 1..Len(s), Distinct(s)
    PROVE  /\ Distinct(Without(s, k))
           /\ \A q : Listens(Without(s, k), q) <=> Listens(s, q) /\ q # s[k]
<1> DEFINE u == Without(s, k)
           from(i) == IF i < k THEN i ELSE i + 1
<1>1. /\ u \in Seq(S) /\ Len(u) = Len(s) - 1 /\ Len(s) \in Nat
      /\ \A i \in 1..(Len(s) - 1) : u[i] = s[from(i)]
      /\ DOMAIN u = 1..(Len(s) - 1) /\ DOMAIN s = 1..Len(s)
  <2>1. u \in Seq(S) /\ Len(u) = Len(s) - 1
    BY WithoutTyped
  <2> QED
    BY <2>1, WithoutTyped
<1> HIDE DEF u
<1>2. \A i \in 1..(Len(s) - 1) : from(i) \in 1..Len(s) /\ from(i) # k
  BY <1>1
<1>3. \A i, j \in 1..(Len(s) - 1) : from(i) = from(j) => i = j
  BY <1>1
<1>4. ASSUME NEW i \in 1..Len(s), i # k
      PROVE  \E j \in 1..(Len(s) - 1) : from(j) = i
  <2>1. CASE i < k
    <3>1. i \in 1..(Len(s) - 1) /\ from(i) = i
      BY <1>1, <2>1
    <3> QED
      BY <3>1
  <2>2. CASE i > k
    <3>1. i - 1 \in 1..(Len(s) - 1) /\ from(i - 1) = i
      BY <1>1, <2>2
    <3> QED
      BY <3>1
  <2> QED
    BY <1>4, <2>1, <2>2
<1> HIDE DEF from
<1>5. Distinct(u)
  BY <1>1, <1>2, <1>3 DEF Distinct
<1>6. ASSUME NEW q PROVE Listens(u, q) <=> Listens(s, q) /\ q # s[k]
  BY <1>1, <1>2, <1>4 DEF Distinct, Listens
<1> QED
  BY <1>5, <1>6 DEF u

-----------------------------------------------------------------------------
LEMMA ReadyTyped ==
    ASSUME BridgeTyped, NEW i \in 1..Len(ready)
    PROVE  /\ ready[i] \in Callbacks /\ ready[i].of \in Streams /\ ready[i].of \in Requests
           /\ ready[i].do \in {"put", "settle", "done"} /\ ready[i].item \in Events \cup {Done}
<1>1. ready[i] \in Callbacks
  BY DEF BridgeTyped
<1> QED
  BY <1>1, StreamConstants DEF Callbacks

LEMMA OpenBus ==
    ASSUME BridgeTyped, BusInv, NEW r \in Requests, NEW m \in Asked, OpenStream(r, m)
    PROVE  BusInv'
<1>1. /\ r \in Streams /\ gen[r] = "off" /\ subs' = Append(subs, r)
      /\ gen' = [gen EXCEPT ![r] = "open"] /\ thread' = [thread EXCEPT ![r] = "queued"]
      /\ UNCHANGED <<sent, pub, ready, queue, shown>>
  BY DEF OpenStream, loop
<1>2. /\ \A q \in Requests : gen'[q] = IF q = r THEN "open" ELSE gen[q]
      /\ \A q \in Requests : thread'[q] = IF q = r THEN "queued" ELSE thread[q]
      /\ Streams \subseteq Requests /\ thread[r] = "off" /\ subs \in Seq(Streams)
  BY <1>1, StreamConstants DEF BridgeTyped, BusInv, QuietInv
<1>3. SubsInv'
  <2>1. ~Listens(subs, r) /\ Distinct(subs)
    BY <1>1 DEF BusInv, SubsInv, Registered
  <2>2. Distinct(subs') /\ \A q : Listens(subs', q) <=> Listens(subs, q) \/ q = r
    BY <1>1, <1>2, <2>1, AppendListens
  <2> QED
    BY <1>2, <2>2 DEF BusInv, SubsInv, Registered
<1>4. PubInv'
  BY <1>1, <1>2 DEF BusInv, PubInv
<1>5. QuietInv'
  <2>1. \A i \in 1..Len(ready) : ready[i].of \in Requests
    BY ReadyTyped
  <2> QED
    BY <1>1, <1>2, <2>1 DEF BusInv, QuietInv
<1> QED
  BY <1>3, <1>4, <1>5 DEF BusInv

LEMMA HandleAgentBus ==
    ASSUME BridgeTyped, BusInv, NEW r \in Requests, NEW m \in Asked, HandleAgent(r, m)
    PROVE  BusInv'
<1>1. /\ r \notin Streams /\ gen[r] = "off"
      /\ gen' = [gen EXCEPT ![r] = "open"] /\ thread' = [thread EXCEPT ![r] = "save"]
      /\ UNCHANGED <<sent, pub, subs, ready, queue, shown>>
  BY DEF HandleAgent, bus
<1>2. /\ \A q \in Requests : gen'[q] = IF q = r THEN "open" ELSE gen[q]
      /\ \A q \in Requests : thread'[q] = IF q = r THEN "save" ELSE thread[q]
      /\ Streams \subseteq Requests /\ thread[r] = "off"
  BY <1>1, StreamConstants DEF BridgeTyped, BusInv, QuietInv
<1>3. SubsInv' /\ PubInv'
  BY <1>1, <1>2 DEF BusInv, SubsInv, PubInv
<1>4. QuietInv'
  <2>1. \A i \in 1..Len(ready) : ready[i].of \in Requests
    BY ReadyTyped
  <2> QED
    BY <1>1, <1>2, <2>1 DEF BusInv, QuietInv
<1> QED
  BY <1>3, <1>4 DEF BusInv

LEMMA ThreadBus ==
    ASSUME BridgeTyped, BusInv, NEW r \in Requests,
           TakeWorker(r) \/ SaveModel(r) \/ OverrideModel(r) \/ EndHandled(r)
    PROVE  BusInv'
<1>1. /\ UNCHANGED <<sent, pub, subs, ready, queue, shown>>
      /\ \/ gen' = gen
         \/ r \notin Streams /\ gen' = [gen EXCEPT ![r] = "closed"]
      /\ thread[r] # "off"
      /\ thread[r] = "run" => Joined(r)
      /\ \/ thread' = [thread EXCEPT ![r] = "ended"] /\ thread[r] = "run"
         \/ \E s \in {"save", "override", "run"} : 
              thread' = [thread EXCEPT ![r] = s] /\ thread[r] \in {"queued", "save", "override"}
  BY DEF TakeWorker, SaveModel, OverrideModel, EndHandled, override, bus, loop
<1>2. /\ \A q \in Requests : q # r => thread'[q] = thread[q] /\ gen'[q] = gen[q]
      /\ thread'[r] \in {"save", "override", "run", "ended"}
      /\ thread'[r] = "ended" => Joined(r)
      /\ thread'[r] # "ended" => thread[r] \in {"queued", "save", "override"}
      /\ gen[r] # "off" /\ gen'[r] # "off" /\ \A q \in Streams : gen'[q] = gen[q]
      /\ Streams \subseteq Requests
  BY <1>1, StreamConstants DEF BridgeTyped, BusInv, QuietInv
<1>3. SubsInv'
  BY <1>1, <1>2 DEF BusInv, SubsInv
<1>4. PubInv'
  BY <1>1, <1>2 DEF BusInv, PubInv, Joined
<1>5. QuietInv'
  <2>1. \A i \in 1..Len(ready) : ready[i].of \in Streams
    BY ReadyTyped
  <2> QED
    BY <1>1, <1>2, <2>1 DEF BusInv, QuietInv
<1> QED
  BY <1>3, <1>4, <1>5 DEF BusInv

LEMMA EndRunBus ==
    ASSUME BridgeTyped, BusInv, NEW r \in Requests, EndRun(r) PROVE BusInv'
<1> DEFINE step == Hop("settle", r)
<1>1. /\ thread[r] = "run" /\ r \in Streams /\ Joined(r)
      /\ thread' = [thread EXCEPT ![r] = "ended"] /\ ready' = Append(ready, step)
      /\ UNCHANGED <<gen, sent, pub, subs, queue, shown>>
  BY DEF EndRun, bus
<1>2. step \in Callbacks /\ step.of = r /\ ready \in Seq(Callbacks)
  BY <1>1, HopTyped DEF BridgeTyped
<1> HIDE DEF step
<1>3. \A q \in Requests : thread'[q] = IF q = r THEN "ended" ELSE thread[q]
  BY <1>1 DEF BridgeTyped
<1>4. SubsInv' /\ PubInv'
  BY <1>1, <1>3 DEF BusInv, SubsInv, PubInv, Joined
<1>5. QuietInv'
  <2>1. gen[r] # "off"
    BY <1>1 DEF BusInv, QuietInv
  <2>2. /\ Len(ready') = Len(ready) + 1 /\ ready'[Len(ready) + 1] = step
        /\ \A i \in 1..Len(ready) : ready'[i] = ready[i]
        /\ Len(ready) \in Nat
    BY <1>1, <1>2, AppendIndex
  <2>3. \A i \in 1..Len(ready') : i \in 1..Len(ready) \/ i = Len(ready) + 1
    BY <2>2
  <2>4. \A i \in 1..Len(ready') : gen'[ready'[i].of] # "off"
    BY <1>1, <1>2, <2>1, <2>2, <2>3 DEF BusInv, QuietInv
  <2> QED
    BY <1>1, <1>3, <2>1, <2>4 DEF BusInv, QuietInv
<1> QED
  BY <1>4, <1>5 DEF BusInv

LEMMA PublishBus ==
    ASSUME BridgeTyped, BusInv, NEW r \in Requests, NEW t \in Threads, Publish(r, t)
    PROVE  BusInv'
<1>1. /\ thread[r] = "run"
      /\ sent' = [sent EXCEPT ![r] = @ + 1]
      /\ pub' = [pub EXCEPT ![r][t] =
                   IF subs = <<>> THEN Idle ELSE [event |-> sent[r] + 1, calls |-> subs]]
      /\ UNCHANGED <<gen, thread, subs, ready, queue, shown>>
  BY DEF Publish, loop
<1>2. /\ \A q \in Requests : sent'[q] = IF q = r THEN sent[r] + 1 ELSE sent[q]
      /\ \A q \in Requests : sent[q] \in Nat
      /\ \A q \in Requests, u \in Threads : ~(q = r /\ u = t) => pub'[q][u] = pub[q][u]
      /\ pub'[r][t].calls = subs
      /\ subs # <<>> => pub'[r][t].event = sent[r] + 1
  BY <1>1 DEF BridgeTyped, Idle
<1>3. SubsInv' /\ QuietInv'
  BY <1>1, <1>2 DEF BusInv, SubsInv, QuietInv
<1>4. PubInv'
  <2> SUFFICES ASSUME NEW q \in Requests, NEW u \in Threads
               PROVE  /\ Distinct(pub'[q][u].calls)
                      /\ pub'[q][u].calls # <<>> =>
                           thread[q] = "run" /\ pub'[q][u].event \in 1..sent'[q]
                      /\ \A s \in Streams : Listens(pub'[q][u].calls, s) => gen[s] # "off"
    BY <1>1 DEF PubInv
  <2>1. CASE q = r /\ u = t
    BY <1>1, <1>2, <2>1 DEF BusInv, SubsInv, Registered
  <2>2. CASE ~(q = r /\ u = t)
    BY <1>1, <1>2, <2>2 DEF BusInv, PubInv
  <2> QED
    BY <2>1, <2>2
<1> QED
  BY <1>3, <1>4 DEF BusInv

LEMMA CallBus ==
    ASSUME BridgeTyped, BusInv, NEW r \in Requests, NEW t \in Threads, CallListener(r, t)
    PROVE  BusInv'
<1> DEFINE list == pub[r][t].calls
           x == <<r, t, pub[r][t].event>>
           step == Put(Head(list), x)
<1>1. list # <<>> /\ pub[r][t].event > 0 /\ thread[r] = "run"
  BY DEF CallListener, BusInv, PubInv, BridgeTyped
<1>2. /\ list \in Seq(Streams) /\ Head(list) \in Streams /\ x \in Events
      /\ ready' = Append(ready, step)
      /\ pub'[r][t].calls = Tail(list)
      /\ Tail(list) # <<>> => pub'[r][t].event = pub[r][t].event
      /\ \A q \in Requests, u \in Threads : ~(q = r /\ u = t) => pub'[q][u] = pub[q][u]
      /\ UNCHANGED <<gen, thread, sent, subs, queue, shown>>
  BY <1>1, CallEffect
<1>3. step \in Callbacks /\ step.of = Head(list)
  BY <1>2, PutTyped
<1> HIDE DEF step, x
<1>4. /\ Distinct(Tail(list))
      /\ \A q : Listens(Tail(list), q) => Listens(list, q)
      /\ Listens(list, Head(list))
  <2>1. Distinct(list)
    BY DEF BusInv, PubInv
  <2>2. 1 \in DOMAIN list /\ list[1] = Head(list)
    BY <1>1, <1>2, TailIndex
  <2> QED
    BY <1>1, <1>2, <2>1, <2>2, TailListens DEF Listens
<1>5. gen[Head(list)] # "off"
  BY <1>2, <1>4 DEF BusInv, PubInv
<1>6. SubsInv'
  BY <1>2 DEF BusInv, SubsInv
<1>7. PubInv'
  <2> SUFFICES ASSUME NEW q \in Requests, NEW u \in Threads
               PROVE  /\ Distinct(pub'[q][u].calls)
                      /\ pub'[q][u].calls # <<>> =>
                           thread[q] = "run" /\ pub'[q][u].event \in 1..sent[q]
                      /\ \A s \in Streams : Listens(pub'[q][u].calls, s) => gen[s] # "off"
    BY <1>2 DEF PubInv
  <2>1. CASE q = r /\ u = t
    BY <1>1, <1>2, <1>4, <2>1 DEF BusInv, PubInv
  <2>2. CASE ~(q = r /\ u = t)
    BY <1>2, <2>2 DEF BusInv, PubInv
  <2> QED
    BY <2>1, <2>2
<1> HIDE DEF list
<1>8. QuietInv'
  <2>1. ready \in Seq(Callbacks)
    BY DEF BridgeTyped
  <2>2. /\ Len(ready') = Len(ready) + 1 /\ ready'[Len(ready) + 1] = step
        /\ \A i \in 1..Len(ready) : ready'[i] = ready[i]
        /\ Len(ready) \in Nat
    BY <1>2, <1>3, <2>1, AppendIndex
  <2>3. \A i \in 1..Len(ready') : i \in 1..Len(ready) \/ i = Len(ready) + 1
    BY <2>2
  <2>4. \A i \in 1..Len(ready') : gen'[ready'[i].of] # "off"
    BY <1>2, <1>3, <1>5, <2>2, <2>3 DEF BusInv, QuietInv
  <2> QED
    BY <1>2, <2>4 DEF BusInv, QuietInv
<1> QED
  BY <1>6, <1>7, <1>8 DEF BusInv

LEMMA LeaveBus ==
    ASSUME BridgeTyped, BusInv, NEW r \in Streams, Answer(r) \/ Finalize(r) PROVE BusInv'
<1>1. /\ subs' = Unsubscribed(r) /\ gen[r] \in Registered
      /\ gen' \in {[gen EXCEPT ![r] = "closed"], [gen EXCEPT ![r] = "left"]}
      /\ queue' = [queue EXCEPT ![r] = <<>>] /\ shown' = [shown EXCEPT ![r] = <<>>]
      /\ UNCHANGED <<thread, sent, pub, ready>>
  BY DEF Answer, Finalize, Forget, override, Registered
<1>2. /\ \A q \in Requests : q # r => gen'[q] = gen[q]
      /\ gen'[r] \in {"closed", "left"} /\ subs \in Seq(Streams)
      /\ \A q \in Streams : shown'[q] = IF q = r THEN <<>> ELSE shown[q]
      /\ \A q \in Streams : queue'[q] = IF q = r THEN <<>> ELSE queue[q]
      /\ Streams \subseteq Requests
  BY <1>1, StreamConstants DEF BridgeTyped
<1>3. SubsInv'
  <2>1. Listens(subs, r) /\ Distinct(subs)
    BY <1>1 DEF BusInv, SubsInv
  <2>2. PICK i \in 1..Len(subs) : subs[i] = r /\ subs' = Without(subs, i)
    BY <1>1, <1>2, <2>1, UnsubscribedIsWithout DEF Listens
  <2>3. Distinct(subs') /\ \A q : Listens(subs', q) <=> Listens(subs, q) /\ q # r
    BY <1>2, <2>1, <2>2, WithoutListens
  <2> QED
    BY <1>2, <2>3 DEF BusInv, SubsInv, Registered
<1>4. PubInv'
  BY <1>1, <1>2 DEF BusInv, PubInv
<1>5. QuietInv'
  <2>1. \A i \in 1..Len(ready) : ready[i].of \in Requests
    BY ReadyTyped
  <2>2. \A q \in Requests : gen'[q] = "off" <=> gen[q] = "off"
    BY <1>1, <1>2 DEF Registered
  <2>3. Len(<<>>) = 0
    OBVIOUS
  <2> QED
    BY SMTT(30), <1>1, <1>2, <2>1, <2>2, <2>3 DEF BusInv, QuietInv
<1> QED
  BY <1>3, <1>4, <1>5 DEF BusInv

LEMMA DisconnectBus ==
    ASSUME BridgeTyped, BusInv, NEW r \in Streams, Disconnect(r) PROVE BusInv'
<1>1. /\ gen[r] \in {"open", "answer"} /\ gen' = [gen EXCEPT ![r] = "gone"]
      /\ UNCHANGED <<thread, sent, pub, subs, ready, queue, shown>>
  BY DEF Disconnect, override, bus, loop
<1>2. /\ \A q \in Requests : q # r => gen'[q] = gen[q]
      /\ gen'[r] = "gone" /\ Streams \subseteq Requests
      /\ \A i \in 1..Len(ready) : ready[i].of \in Requests
  BY <1>1, StreamConstants, ReadyTyped DEF BridgeTyped
<1>3. SubsInv'
  BY <1>1, <1>2 DEF BusInv, SubsInv, Registered
<1>4. PubInv'
  BY <1>1, <1>2 DEF BusInv, PubInv
<1>5. QuietInv'
  BY <1>1, <1>2 DEF BusInv, QuietInv
<1> QED
  BY <1>3, <1>4, <1>5 DEF BusInv

\* What the end of a run is passed on as.
NextHop(h) == IF h.do = "settle" THEN Hop("done", h.of) ELSE Put(h.of, Done)

LEMMA FollowTyped ==
    ASSUME NEW h \in Callbacks
    PROVE  /\ NextHop(h) \in Callbacks /\ NextHop(h).of = h.of
           /\ NextHop(h).do = "put" => NextHop(h).item = Done
<1>1. h.of \in Streams
  BY DEF Callbacks
<1>2. Done \in Events \cup {Done}
  OBVIOUS
<1> QED
  BY <1>1, <1>2, HopTyped, PutTyped DEF NextHop

\* What the loop does with the step at the head of its queue: put an item into a queue
\* that is read, or push a step for the same stream.
LEMMA HandleEffect ==
    ASSUME BridgeTyped, Handle
    PROVE  LET h == ready[1] IN
           /\ ready # <<>> /\ Len(ready) \in Nat \ {0}
           /\ h \in Callbacks /\ h.of \in Streams /\ h.item \in Events \cup {Done}
           /\ \/ /\ h.do = "put" /\ ready' = Tail(ready)
                 /\ queue' = IF gen[h.of] \in Over THEN queue
                             ELSE [queue EXCEPT ![h.of] = Append(@, h.item)]
              \/ h.do # "put" /\ UNCHANGED queue /\ ready' = Append(Tail(ready), NextHop(h))
           /\ UNCHANGED <<gen, thread, sent, pub, subs, shown>>
<1> DEFINE h == ready[1]
<1>1. ready # <<>>
  BY DEF Handle
<1>2. Head(ready) = h /\ Len(ready) \in Nat \ {0}
  BY <1>1, TailIndex DEF BridgeTyped
<1>3. h \in Callbacks /\ h.of \in Streams /\ h.item \in Events \cup {Done}
  <2>1. 1 \in 1..Len(ready)
    BY <1>2
  <2> QED
    BY <2>1, ReadyTyped
<1> HIDE DEF h
<1>5. UNCHANGED <<gen, thread, sent, pub, subs, shown>>
  BY DEF Handle, bus
<1>6. \/ /\ h.do = "put" /\ ready' = Tail(ready)
         /\ queue' = IF gen[h.of] \in Over THEN queue
                     ELSE [queue EXCEPT ![h.of] = Append(@, h.item)]
      \/ h.do # "put" /\ UNCHANGED queue /\ ready' = Append(Tail(ready), NextHop(h))
  BY <1>2 DEF Handle, NextHop
<1> QED
  BY <1>1, <1>2, <1>3, <1>5, <1>6 DEF h

LEMMA HandleBus ==
    ASSUME BridgeTyped, BusInv, Handle PROVE BusInv'
<1> DEFINE h == ready[1]
           rest == Tail(ready)
<1>1. /\ ready # <<>> /\ h.of \in Streams
      /\ UNCHANGED <<gen, thread, sent, pub, subs, shown>>
      /\ \A q \in Streams : q # h.of => queue'[q] = queue[q]
  BY HandleEffect DEF BridgeTyped
<1> DEFINE step == NextHop(h)
<1>2. ready' = rest \/ ready' = Append(rest, step)
  BY HandleEffect
<1>a. step \in Callbacks /\ step.of = h.of
  BY HandleEffect, FollowTyped
<1>3. ready \in Seq(Callbacks) /\ Len(ready) \in Nat \ {0} /\ gen[h.of] # "off"
  <2>1. ready \in Seq(Callbacks) /\ Len(ready) \in Nat \ {0}
    BY HandleEffect DEF BridgeTyped
  <2>2. 1 \in 1..Len(ready)
    BY <2>1
  <2> QED
    BY <2>1, <2>2 DEF BusInv, QuietInv
<1> HIDE DEF h, step
<1>4. /\ rest \in Seq(Callbacks) /\ Len(rest) \in Nat
      /\ \A i \in 1..Len(rest) : gen[rest[i].of] # "off"
  <2>1. /\ rest \in Seq(Callbacks) /\ Len(rest) = Len(ready) - 1
        /\ \A i \in 1..(Len(ready) - 1) : rest[i] = ready[i + 1]
    BY <1>1, <1>3, TailIndex
  <2>2. \A i \in 1..(Len(ready) - 1) : i + 1 \in 1..Len(ready)
    BY <1>3
  <2> QED
    BY <1>3, <2>1, <2>2 DEF BusInv, QuietInv
<1> HIDE DEF rest
<1>5. \A i \in 1..Len(ready') : gen'[ready'[i].of] # "off"
  <2>1. CASE ready' = rest
    BY <1>1, <1>4, <2>1
  <2>2. CASE ready' = Append(rest, step)
    <3>1. /\ Len(ready') = Len(rest) + 1 /\ ready'[Len(rest) + 1] = step
          /\ \A i \in 1..Len(rest) : ready'[i] = rest[i]
      BY <1>4, <1>a, <2>2, AppendIndex
    <3>2. \A i \in 1..Len(ready') : i \in 1..Len(rest) \/ i = Len(rest) + 1
      BY <1>4, <3>1
    <3> QED
      BY <1>1, <1>3, <1>4, <1>a, <2>2, <3>1, <3>2
  <2> QED
    BY <1>2, <2>1, <2>2
<1>6. SubsInv' /\ PubInv'
  BY <1>1 DEF BusInv, SubsInv, PubInv
<1>7. QuietInv'
  BY <1>1, <1>3, <1>5 DEF BusInv, QuietInv
<1> QED
  BY <1>6, <1>7 DEF BusInv

\* What a stream does with the head of its queue.
LEMMA TakeEffect ==
    ASSUME BridgeTyped, NEW r \in Streams, Take(r)
    PROVE  LET x == queue[r][1] IN
           /\ gen[r] = "open" /\ queue[r] # <<>> /\ Len(queue[r]) \in Nat \ {0}
           /\ x \in Events \cup {Done}
           /\ queue'[r] = Tail(queue[r])
           /\ \/ x = Done /\ gen'[r] = "answer" /\ shown'[r] = shown[r]
              \/ x # Done /\ x[1] = r /\ gen'[r] = gen[r] /\ shown'[r] = Append(shown[r], x)
              \/ x # Done /\ x[1] # r /\ gen'[r] = gen[r] /\ shown'[r] = shown[r]
           /\ \A q \in Requests : q # r => gen'[q] = gen[q]
           /\ \A q \in Streams : q # r => queue'[q] = queue[q] /\ shown'[q] = shown[q]
           /\ UNCHANGED <<thread, sent, pub, subs, ready>>
<1> DEFINE x == queue[r][1]
<1>1. gen[r] = "open" /\ queue[r] # <<>> /\ queue[r] \in Seq(Events \cup {Done}) /\ r \in Requests
  BY StreamConstants DEF Take, BridgeTyped
<1>2. Head(queue[r]) = x /\ x \in Events \cup {Done} /\ Len(queue[r]) \in Nat \ {0}
  BY <1>1, TailIndex
<1> HIDE DEF x
<1>3. /\ queue' = [queue EXCEPT ![r] = Tail(@)]
      /\ \/ x = Done /\ gen' = [gen EXCEPT ![r] = "answer"] /\ shown' = shown
         \/ x # Done /\ x[1] = r /\ gen' = gen /\ shown' = [shown EXCEPT ![r] = Append(@, x)]
         \/ x # Done /\ x[1] # r /\ gen' = gen /\ shown' = shown
      /\ UNCHANGED <<thread, sent, pub, subs, ready>>
  BY <1>2 DEF Take, bus
<1> QED
  BY <1>1, <1>2, <1>3 DEF x, BridgeTyped

LEMMA TakeBus ==
    ASSUME BridgeTyped, BusInv, NEW r \in Streams, Take(r) PROVE BusInv'
<1> DEFINE x == queue[r][1]
<1>1. /\ gen[r] = "open" /\ gen'[r] \in {"open", "answer"} /\ x \in Events \cup {Done}
      /\ \/ shown'[r] = shown[r]
         \/ x # Done /\ x[1] = r /\ shown'[r] = Append(shown[r], x)
      /\ \A q \in Requests : q # r => gen'[q] = gen[q]
      /\ \A q \in Streams : q # r => queue'[q] = queue[q] /\ shown'[q] = shown[q]
      /\ UNCHANGED <<thread, sent, pub, subs, ready>>
  BY TakeEffect
<1> HIDE DEF x
<1>2. /\ \A i \in 1..Len(ready) : ready[i].of \in Requests
      /\ Streams \subseteq Requests /\ shown[r] \in Seq(Events)
  BY ReadyTyped, StreamConstants DEF BridgeTyped
<1>3. SubsInv' /\ PubInv'
  BY <1>1, <1>2 DEF BusInv, SubsInv, PubInv, Registered
<1>4. \A i \in 1..Len(shown'[r]) : shown'[r][i][1] = r
  <2>1. \A i \in 1..Len(shown[r]) : shown[r][i][1] = r
    BY DEF BusInv, QuietInv
  <2>2. CASE x # Done /\ x[1] = r /\ shown'[r] = Append(shown[r], x)
    <3>1. /\ Len(shown'[r]) = Len(shown[r]) + 1 /\ shown'[r][Len(shown[r]) + 1] = x
          /\ \A i \in 1..Len(shown[r]) : shown'[r][i] = shown[r][i]
          /\ Len(shown[r]) \in Nat
      BY <1>1, <1>2, <2>2, AppendIndex
    <3>2. \A i \in 1..Len(shown'[r]) : i \in 1..Len(shown[r]) \/ i = Len(shown[r]) + 1
      BY <3>1
    <3> QED
      BY <2>1, <2>2, <3>1, <3>2
  <2> QED
    BY <1>1, <2>1, <2>2
<1>5. QuietInv'
  BY <1>1, <1>2, <1>4 DEF BusInv, QuietInv
<1> QED
  BY <1>3, <1>5 DEF BusInv

-----------------------------------------------------------------------------
(* The line of a stream: what it has shown, what is in its queue and what   *)
(* the loop has still to do, one behind the other.  Whoever moves an item    *)
(* along the line keeps the order of the events of the stream's own run.    *)

Other == <<"other">>
Marks == Events \cup {Done, Other}
Item(h, r) == IF h.of # r THEN Other ELSE IF h.do = "put" THEN h.item ELSE Done

LineOf(s, q, w, r) ==
    [i \in 1..(Len(s) + Len(q) + Len(w)) |->
        IF i <= Len(s) THEN s[i]
        ELSE IF i <= Len(s) + Len(q) THEN q[i - Len(s)]
        ELSE Item(w[i - (Len(s) + Len(q))], r)]

Line(r) == LineOf(shown[r], queue[r], ready, r)

Parts(s, q, w) ==
    s \in Seq(Events) /\ q \in Seq(Events \cup {Done}) /\ w \in Seq(Callbacks)

LEMMA ItemTyped ==
    ASSUME NEW h \in Callbacks, NEW r PROVE Item(h, r) \in Marks
BY DEF Item, Callbacks, Marks

LEMMA LineTyped ==
    ASSUME NEW s, NEW q, NEW w, NEW r, Parts(s, q, w)
    PROVE  /\ LineOf(s, q, w, r) \in Seq(Marks)
           /\ Len(LineOf(s, q, w, r)) = Len(s) + Len(q) + Len(w)
           /\ Len(s) \in Nat /\ Len(q) \in Nat /\ Len(w) \in Nat
<1>1. Len(s) \in Nat /\ Len(q) \in Nat /\ Len(w) \in Nat
  BY DEF Parts
<1> DEFINE n == Len(s) + Len(q) + Len(w)
           x(i) == IF i <= Len(s) THEN s[i]
                   ELSE IF i <= Len(s) + Len(q) THEN q[i - Len(s)]
                   ELSE Item(w[i - (Len(s) + Len(q))], r)
<1>2. ASSUME NEW i \in 1..n PROVE x(i) \in Marks
  <2>1. CASE i <= Len(s)
    <3>1. s[i] \in Events
      BY <1>1, <2>1 DEF Parts
    <3> QED
      BY <2>1, <3>1 DEF Marks
  <2>2. CASE ~(i <= Len(s)) /\ i <= Len(s) + Len(q)
    <3>1. i - Len(s) \in 1..Len(q)
      BY <1>1, <2>2
    <3>2. q[i - Len(s)] \in Events \cup {Done}
      BY <3>1 DEF Parts
    <3> QED
      BY <2>2, <3>2 DEF Marks
  <2>3. CASE ~(i <= Len(s)) /\ ~(i <= Len(s) + Len(q))
    <3>1. i - (Len(s) + Len(q)) \in 1..Len(w)
      BY <1>1, <2>3
    <3>2. w[i - (Len(s) + Len(q))] \in Callbacks
      BY <3>1 DEF Parts
    <3> QED
      BY <2>3, <3>2, ItemTyped
  <2> QED
    BY <2>1, <2>2, <2>3
<1>3. LineOf(s, q, w, r) = [i \in 1..n |-> x(i)]
  BY DEF LineOf
<1> HIDE DEF x
<1>4. n \in Nat
  BY <1>1
<1> HIDE DEF n
<1>5. LineOf(s, q, w, r) \in Seq(Marks) /\ Len(LineOf(s, q, w, r)) = n
  BY <1>2, <1>3, <1>4
<1> QED
  BY <1>1, <1>5 DEF n

LEMMA LineAt ==
    ASSUME NEW s, NEW q, NEW w, NEW r, NEW i \in 1..(Len(s) + Len(q) + Len(w))
    PROVE  LineOf(s, q, w, r)[i] =
             IF i <= Len(s) THEN s[i]
             ELSE IF i <= Len(s) + Len(q) THEN q[i - Len(s)]
             ELSE Item(w[i - (Len(s) + Len(q))], r)
BY DEF LineOf

LEMMA LineAppend ==
    ASSUME NEW s, NEW q, NEW w, NEW r, Parts(s, q, w), NEW h \in Callbacks
    PROVE  LineOf(s, q, Append(w, h), r) = Append(LineOf(s, q, w, r), Item(h, r))
<1> DEFINE v == Append(w, h)
           L == LineOf(s, q, w, r)
           M == LineOf(s, q, v, r)
           n == Len(s) + Len(q)
<1>1. /\ L \in Seq(Marks) /\ Len(L) = n + Len(w) /\ n \in Nat /\ Len(w) \in Nat
      /\ Len(s) \in Nat /\ Len(q) \in Nat
  BY LineTyped
<1>2. /\ v \in Seq(Callbacks) /\ Len(v) = Len(w) + 1 /\ v[Len(w) + 1] = h
      /\ \A i \in 1..Len(w) : v[i] = w[i]
  BY AppendIndex DEF Parts
<1>0. Parts(s, q, v)
  BY <1>2 DEF Parts
<1> HIDE DEF v
<1>3. M \in Seq(Marks) /\ Len(M) = n + Len(v)
  BY <1>0, LineTyped
<1>4. \A i \in 1..(n + Len(w)) :
        L[i] = IF i <= Len(s) THEN s[i] ELSE IF i <= n THEN q[i - Len(s)] ELSE Item(w[i - n], r)
  BY LineAt
<1>5. \A i \in 1..(n + Len(v)) :
        M[i] = IF i <= Len(s) THEN s[i] ELSE IF i <= n THEN q[i - Len(s)] ELSE Item(v[i - n], r)
  BY LineAt
<1> HIDE DEF L, M, n
<1>6. Item(h, r) \in Marks
  BY ItemTyped
<1>7. /\ Append(L, Item(h, r)) \in Seq(Marks) /\ Len(Append(L, Item(h, r))) = Len(L) + 1
      /\ \A i \in 1..Len(L) : Append(L, Item(h, r))[i] = L[i]
      /\ Append(L, Item(h, r))[Len(L) + 1] = Item(h, r)
  BY <1>1, <1>6, AppendIndex
<1>8. ASSUME NEW i \in 1..Len(M) PROVE M[i] = Append(L, Item(h, r))[i]
  <2>1. i \in 1..(n + Len(w)) \/ i = n + Len(w) + 1
    BY <1>1, <1>2, <1>3
  <2>2. CASE i \in 1..(n + Len(w))
    <3>1. i > n => i - n \in 1..Len(w)
      BY <1>1, <2>2
    <3>2. i \in 1..(n + Len(v)) /\ i \in 1..Len(L)
      BY <1>1, <1>2, <2>2
    <3>3. Append(L, Item(h, r))[i] = L[i]
      BY <1>7, <3>2
    <3>4. CASE i <= n
      BY <1>4, <1>5, <2>2, <3>2, <3>3, <3>4
    <3>5. CASE ~(i <= n)
      <4>1. ~(i <= Len(s))
        BY <1>1, <2>2, <3>5 DEF n
      <4>2. v[i - n] = w[i - n]
        BY <1>1, <1>2, <2>2, <3>1, <3>5
      <4> QED
        BY <1>4, <1>5, <2>2, <3>2, <3>3, <3>5, <4>1, <4>2
    <3> QED
      BY <3>4, <3>5
  <2>3. CASE i = n + Len(w) + 1
    <3>1. i \in 1..(n + Len(v)) /\ i - n = Len(w) + 1 /\ ~(i <= n) /\ ~(i <= Len(s))
      BY <1>1, <1>2, <2>3 DEF n
    <3>2. M[i] = Item(h, r)
      BY <1>2, <1>5, <3>1
    <3> QED
      BY <1>1, <1>7, <2>3, <3>2
  <2> QED
    BY <2>1, <2>2, <2>3
<1>9. Len(M) = Len(Append(L, Item(h, r)))
  BY <1>1, <1>2, <1>3, <1>7
<1>10. M = Append(L, Item(h, r))
  BY <1>3, <1>7, <1>8, <1>9, SeqEqual
<1> QED
  BY <1>10 DEF L, M, v

\* The head of the loop's queue is dropped.
LEMMA LinePop ==
    ASSUME NEW s, NEW q, NEW w, NEW r, Parts(s, q, w), w # <<>>
    PROVE  LineOf(s, q, Tail(w), r) = Without(LineOf(s, q, w, r), Len(s) + Len(q) + 1)
<1> DEFINE v == Tail(w)
           L == LineOf(s, q, w, r)
           M == LineOf(s, q, v, r)
           n == Len(s) + Len(q)
<1>1. /\ L \in Seq(Marks) /\ Len(L) = n + Len(w) /\ n \in Nat
      /\ Len(s) \in Nat /\ Len(q) \in Nat
  BY LineTyped
<1>2. /\ v \in Seq(Callbacks) /\ Len(v) = Len(w) - 1 /\ Len(w) \in Nat \ {0}
      /\ \A i \in 1..(Len(w) - 1) : v[i] = w[i + 1]
  BY TailIndex DEF Parts
<1>0. Parts(s, q, v)
  BY <1>2 DEF Parts
<1> HIDE DEF v
<1>3. M \in Seq(Marks) /\ Len(M) = n + Len(v)
  BY <1>0, LineTyped
<1>4. \A i \in 1..(n + Len(w)) :
        L[i] = IF i <= Len(s) THEN s[i] ELSE IF i <= n THEN q[i - Len(s)] ELSE Item(w[i - n], r)
  BY LineAt
<1>5. \A i \in 1..(n + Len(v)) :
        M[i] = IF i <= Len(s) THEN s[i] ELSE IF i <= n THEN q[i - Len(s)] ELSE Item(v[i - n], r)
  BY LineAt
<1> DEFINE K == Without(L, n + 1)
<1> HIDE DEF L, M, n
<1>6. n + 1 \in 1..Len(L)
  BY <1>1, <1>2
<1>7. /\ K \in Seq(Marks) /\ Len(K) = Len(L) - 1
      /\ \A i \in 1..(Len(L) - 1) : K[i] = L[IF i < n + 1 THEN i ELSE i + 1]
  BY <1>1, <1>6, WithoutTyped
<1> HIDE DEF K
<1>8. ASSUME NEW i \in 1..Len(M) PROVE M[i] = K[i]
  <2>0. i \in 1..(Len(L) - 1) /\ i \in 1..(n + Len(v)) /\ i \in Nat
    BY <1>1, <1>2, <1>3
  <2>1. CASE i <= n
    <3>1. i < n + 1 /\ i \in 1..(n + Len(w))
      BY <1>1, <1>2, <2>0, <2>1
    <3>2. K[i] = L[i]
      BY <1>7, <2>0, <3>1
    <3> QED
      BY <1>4, <1>5, <2>0, <2>1, <3>1, <3>2
  <2>2. CASE i > n
    <3>1. /\ ~(i < n + 1) /\ i + 1 \in 1..(n + Len(w)) /\ i - n \in 1..(Len(w) - 1)
          /\ (i + 1) - n = (i - n) + 1 /\ ~(i + 1 <= n) /\ ~(i <= n)
          /\ ~(i <= Len(s)) /\ ~(i + 1 <= Len(s))
      BY <1>1, <1>2, <2>0, <2>2 DEF n
    <3>2. K[i] = L[i + 1]
      BY <1>7, <2>0, <3>1
    <3>3. L[i + 1] = Item(w[(i + 1) - n], r)
      BY <1>4, <3>1
    <3>4. M[i] = Item(v[i - n], r)
      BY <1>5, <2>0, <3>1
    <3> QED
      BY <1>2, <3>1, <3>2, <3>3, <3>4
  <2> QED
    BY <1>1, <2>0, <2>1, <2>2
<1>9. Len(M) = Len(K)
  BY <1>1, <1>2, <1>3, <1>7
<1>10. M = K
  BY <1>3, <1>7, <1>8, <1>9, SeqEqual
<1> QED
  BY <1>10 DEF K, L, M, v, n

\* The head of the loop's queue is put into the stream's queue.
LEMMA LineShift ==
    ASSUME NEW s, NEW q, NEW w, NEW r, Parts(s, q, w), w # <<>>,
           w[1].of = r, w[1].do = "put"
    PROVE  LineOf(s, Append(q, w[1].item), Tail(w), r) = LineOf(s, q, w, r)
<1> DEFINE v == Tail(w)
           p == Append(q, w[1].item)
           L == LineOf(s, q, w, r)
           M == LineOf(s, p, v, r)
           n == Len(s) + Len(q)
<1>1. /\ L \in Seq(Marks) /\ Len(L) = n + Len(w) /\ n \in Nat
      /\ Len(s) \in Nat /\ Len(q) \in Nat
  BY LineTyped
<1>2. /\ v \in Seq(Callbacks) /\ Len(v) = Len(w) - 1 /\ Len(w) \in Nat \ {0}
      /\ \A i \in 1..(Len(w) - 1) : v[i] = w[i + 1]
      /\ w[1] \in Callbacks
  BY TailIndex DEF Parts
<1>3. w[1].item \in Events \cup {Done} /\ Item(w[1], r) = w[1].item
  BY <1>2 DEF Callbacks, Item
<1>4. /\ p \in Seq(Events \cup {Done}) /\ Len(p) = Len(q) + 1 /\ p[Len(q) + 1] = w[1].item
      /\ \A i \in 1..Len(q) : p[i] = q[i]
  BY <1>3, AppendIndex DEF Parts
<1>0. Parts(s, p, v)
  BY <1>2, <1>4 DEF Parts
<1> HIDE DEF p, v
<1>5. M \in Seq(Marks) /\ Len(M) = Len(s) + Len(p) + Len(v)
  BY <1>0, LineTyped
<1>6. \A i \in 1..(n + Len(w)) :
        L[i] = IF i <= Len(s) THEN s[i] ELSE IF i <= n THEN q[i - Len(s)] ELSE Item(w[i - n], r)
  BY LineAt
<1>7. \A i \in 1..(Len(s) + Len(p) + Len(v)) :
        M[i] = IF i <= Len(s) THEN s[i]
               ELSE IF i <= Len(s) + Len(p) THEN p[i - Len(s)]
               ELSE Item(v[i - (Len(s) + Len(p))], r)
  BY LineAt
<1>8. /\ Len(s) + Len(p) = n + 1 /\ Len(M) = Len(L)
      /\ 1..(Len(s) + Len(p) + Len(v)) = 1..(n + Len(w))
  BY <1>1, <1>2, <1>4, <1>5
<1> HIDE DEF L, M
<1>9. ASSUME NEW i \in 1..Len(M) PROVE M[i] = L[i]
  <2>0. i \in 1..(n + Len(w)) /\ i \in Nat /\ Len(s) <= n
    BY <1>1, <1>8
  <2>1. CASE i <= Len(s)
    BY <1>6, <1>7, <1>8, <2>0, <2>1
  <2>2. CASE i > Len(s) /\ i <= n
    <3>1. i - Len(s) \in 1..Len(q) /\ i <= n + 1 /\ ~(i <= Len(s))
      BY <1>1, <2>0, <2>2
    <3>2. L[i] = q[i - Len(s)] /\ M[i] = p[i - Len(s)]
      BY <1>6, <1>7, <1>8, <2>0, <2>2, <3>1
    <3> QED
      BY <1>4, <3>1, <3>2
  <2>3. CASE i = n + 1
    <3>1. i - Len(s) = Len(q) + 1 /\ i - n = 1 /\ ~(i <= Len(s)) /\ ~(i <= n) /\ i <= n + 1
      BY <1>1, <2>0, <2>3
    <3>2. L[i] = Item(w[i - n], r) /\ M[i] = p[i - Len(s)]
      BY <1>6, <1>7, <1>8, <2>0, <3>1
    <3> QED
      BY <1>3, <1>4, <3>1, <3>2
  <2>4. CASE i > n + 1
    <3>1. /\ i - (n + 1) \in 1..(Len(w) - 1) /\ (i - (n + 1)) + 1 = i - n
          /\ ~(i <= Len(s)) /\ ~(i <= n) /\ ~(i <= n + 1)
      BY <1>1, <1>2, <2>0, <2>4
    <3>2. L[i] = Item(w[i - n], r)
      BY <1>6, <2>0, <3>1
    <3>3. M[i] = Item(v[i - (n + 1)], r)
      BY <1>7, <1>8, <2>0, <3>1
    <3> QED
      BY <1>2, <3>1, <3>2, <3>3
  <2> QED
    BY <1>1, <2>0, <2>1, <2>2, <2>3, <2>4
<1>10. M = L
  BY <1>1, <1>5, <1>8, <1>9, SeqEqual
<1> QED
  BY <1>10 DEF L, M, v, p

\* The stream shows the head of its queue.
LEMMA LineShow ==
    ASSUME NEW s, NEW q, NEW w, NEW r, Parts(s, q, w), q # <<>>, q[1] \in Events
    PROVE  LineOf(Append(s, q[1]), Tail(q), w, r) = LineOf(s, q, w, r)
<1> DEFINE u == Append(s, q[1])
           p == Tail(q)
           L == LineOf(s, q, w, r)
           M == LineOf(u, p, w, r)
           n == Len(s) + Len(q)
<1>1. /\ L \in Seq(Marks) /\ Len(L) = n + Len(w) /\ n \in Nat
      /\ Len(s) \in Nat /\ Len(w) \in Nat
  BY LineTyped
<1>2. /\ p \in Seq(Events \cup {Done}) /\ Len(p) = Len(q) - 1 /\ Len(q) \in Nat \ {0}
      /\ \A i \in 1..(Len(q) - 1) : p[i] = q[i + 1]
  BY TailIndex DEF Parts
<1>3. /\ u \in Seq(Events) /\ Len(u) = Len(s) + 1 /\ u[Len(s) + 1] = q[1]
      /\ \A i \in 1..Len(s) : u[i] = s[i]
  BY AppendIndex DEF Parts
<1>0. Parts(u, p, w)
  BY <1>2, <1>3 DEF Parts
<1> HIDE DEF p, u
<1>4. M \in Seq(Marks) /\ Len(M) = Len(u) + Len(p) + Len(w)
  BY <1>0, LineTyped
<1>5. \A i \in 1..(n + Len(w)) :
        L[i] = IF i <= Len(s) THEN s[i] ELSE IF i <= n THEN q[i - Len(s)] ELSE Item(w[i - n], r)
  BY LineAt
<1>6. \A i \in 1..(Len(u) + Len(p) + Len(w)) :
        M[i] = IF i <= Len(u) THEN u[i]
               ELSE IF i <= Len(u) + Len(p) THEN p[i - Len(u)]
               ELSE Item(w[i - (Len(u) + Len(p))], r)
  BY LineAt
<1>7. Len(u) + Len(p) = n /\ Len(M) = Len(L) /\ Len(u) + Len(p) + Len(w) = n + Len(w)
  BY <1>1, <1>2, <1>3, <1>4
<1> HIDE DEF L, M
<1>8. ASSUME NEW i \in 1..Len(M) PROVE M[i] = L[i]
  <2>0. i \in 1..(n + Len(w)) /\ i \in Nat /\ Len(s) + 1 <= n
    BY <1>1, <1>2, <1>7
  <2>1. CASE i <= Len(s)
    BY <1>1, <1>3, <1>5, <1>6, <1>7, <2>0, <2>1
  <2>2. CASE i = Len(s) + 1
    <3>1. i <= Len(u) /\ ~(i <= Len(s)) /\ i <= n /\ i - Len(s) = 1
      BY <1>1, <1>3, <2>0, <2>2
    <3>2. L[i] = q[i - Len(s)] /\ M[i] = u[i]
      BY <1>5, <1>6, <1>7, <2>0, <3>1
    <3> QED
      BY <1>3, <2>2, <3>1, <3>2
  <2>3. CASE i > Len(s) + 1 /\ i <= n
    <3>1. /\ i - Len(u) \in 1..(Len(q) - 1) /\ (i - Len(u)) + 1 = i - Len(s)
          /\ ~(i <= Len(u)) /\ ~(i <= Len(s))
      BY <1>1, <1>2, <1>3, <2>0, <2>3
    <3>2. L[i] = q[i - Len(s)] /\ M[i] = p[i - Len(u)]
      BY <1>5, <1>6, <1>7, <2>0, <2>3, <3>1
    <3> QED
      BY <1>2, <3>1, <3>2
  <2>4. CASE i > n
    <3>1. ~(i <= Len(u)) /\ ~(i <= Len(s)) /\ ~(i <= n)
      BY <1>1, <1>3, <2>0, <2>4
    <3> QED
      BY <1>5, <1>6, <1>7, <2>0, <3>1
  <2> QED
    BY <1>1, <2>0, <2>1, <2>2, <2>3, <2>4
<1>9. M = L
  BY <1>1, <1>4, <1>7, <1>8, SeqEqual
<1> QED
  BY <1>9 DEF L, M, u, p

\* The stream takes the head of its queue and shows nothing.
LEMMA LineSkip ==
    ASSUME NEW s, NEW q, NEW w, NEW r, Parts(s, q, w), q # <<>>
    PROVE  LineOf(s, Tail(q), w, r) = Without(LineOf(s, q, w, r), Len(s) + 1)
<1> DEFINE p == Tail(q)
           L == LineOf(s, q, w, r)
           M == LineOf(s, p, w, r)
           n == Len(s) + Len(q)
<1>1. /\ L \in Seq(Marks) /\ Len(L) = n + Len(w) /\ n \in Nat
      /\ Len(s) \in Nat /\ Len(w) \in Nat
  BY LineTyped
<1>2. /\ p \in Seq(Events \cup {Done}) /\ Len(p) = Len(q) - 1 /\ Len(q) \in Nat \ {0}
      /\ \A i \in 1..(Len(q) - 1) : p[i] = q[i + 1]
  BY TailIndex DEF Parts
<1>0. Parts(s, p, w)
  BY <1>2 DEF Parts
<1> HIDE DEF p
<1>3. M \in Seq(Marks) /\ Len(M) = Len(s) + Len(p) + Len(w)
  BY <1>0, LineTyped
<1>4. \A i \in 1..(n + Len(w)) :
        L[i] = IF i <= Len(s) THEN s[i] ELSE IF i <= n THEN q[i - Len(s)] ELSE Item(w[i - n], r)
  BY LineAt
<1>5. \A i \in 1..(Len(s) + Len(p) + Len(w)) :
        M[i] = IF i <= Len(s) THEN s[i]
               ELSE IF i <= Len(s) + Len(p) THEN p[i - Len(s)]
               ELSE Item(w[i - (Len(s) + Len(p))], r)
  BY LineAt
<1> DEFINE K == Without(L, Len(s) + 1)
<1>6. Len(s) + Len(p) = n - 1
  BY <1>1, <1>2
<1> HIDE DEF L, M
<1>7. Len(s) + 1 \in 1..Len(L)
  BY <1>1, <1>2
<1>8. /\ K \in Seq(Marks) /\ Len(K) = Len(L) - 1
      /\ \A i \in 1..(Len(L) - 1) : K[i] = L[IF i < Len(s) + 1 THEN i ELSE i + 1]
  BY <1>1, <1>7, WithoutTyped
<1> HIDE DEF K
<1>9. ASSUME NEW i \in 1..Len(M) PROVE M[i] = K[i]
  <2>0. /\ i \in 1..(Len(L) - 1) /\ i \in 1..(Len(s) + Len(p) + Len(w)) /\ i \in Nat
        /\ i \in 1..(n + Len(w)) /\ i + 1 \in 1..(n + Len(w)) /\ Len(s) <= n - 1
    BY <1>1, <1>2, <1>3, <1>6
  <2>1. CASE i <= Len(s)
    <3>1. i < Len(s) + 1
      BY <1>1, <2>0, <2>1
    <3>2. K[i] = L[i]
      BY <1>8, <2>0, <3>1
    <3> QED
      BY <1>4, <1>5, <2>0, <2>1, <3>2
  <2>2. CASE i > Len(s)
    <3>1. ~(i < Len(s) + 1) /\ ~(i <= Len(s)) /\ ~(i + 1 <= Len(s)) /\ (i <= n - 1 <=> i + 1 <= n)
      BY <1>1, <2>0, <2>2
    <3>2. K[i] = L[i + 1]
      BY <1>8, <2>0, <3>1
    <3>3. CASE i <= n - 1
      <4>1. i - Len(s) \in 1..(Len(q) - 1) /\ (i + 1) - Len(s) = (i - Len(s)) + 1
        BY <1>1, <1>2, <2>0, <2>2, <3>3
      <4>2. L[i + 1] = q[(i + 1) - Len(s)] /\ M[i] = p[i - Len(s)]
        BY <1>4, <1>5, <1>6, <2>0, <3>1, <3>3
      <4> QED
        BY <1>2, <3>2, <4>1, <4>2
    <3>4. CASE ~(i <= n - 1)
      <4>1. (i + 1) - n = i - (n - 1)
        BY <1>1, <2>0
      <4>2. L[i + 1] = Item(w[(i + 1) - n], r)
        BY <1>4, <2>0, <3>1, <3>4
      <4>3. M[i] = Item(w[i - (n - 1)], r)
        BY <1>5, <1>6, <2>0, <3>1, <3>4
      <4> QED
        BY <3>2, <4>1, <4>2, <4>3
    <3> QED
      BY <3>3, <3>4
  <2> QED
    BY <1>1, <2>0, <2>1, <2>2
<1>10. Len(M) = Len(K)
  BY <1>1, <1>3, <1>6, <1>8
<1>11. M = K
  BY <1>3, <1>8, <1>9, <1>10, SeqEqual
<1> QED
  BY <1>11 DEF K, L, M, p

-----------------------------------------------------------------------------
(* What is right about the line L of stream r, of which m items are shown, when  *)
(* its run has published n events, p is what its threads publish, th the state    *)
(* of the run and g of the generator.                                             *)

Own(x, r) == x # Done /\ x # Other /\ x[1] = r
Pends(p, t, r) == Listens(p[t].calls, r)
NoOwnAfter(L, k, r) == \A j \in 1..Len(L) : j > k => ~Own(L[j], r)

Numbered(L, r, n) == \A i \in 1..Len(L) : Own(L[i], r) => L[i][3] <= n

\* An event is on the line once, and after the earlier ones of its thread.
Ordered(L, r) ==
    \A i, j \in 1..Len(L) : i < j /\ Own(L[i], r) /\ Own(L[j], r) =>
        L[i][3] # L[j][3] /\ (L[i][2] = L[j][2] => L[i][3] < L[j][3])

\* What a thread has still to put on the line is not on it, nor is a later event.
Ahead(L, r, n, p) ==
    \A t \in Threads : Pends(p, t, r) =>
        /\ p[t].event \in 1..n
        /\ \A i \in 1..Len(L) : Own(L[i], r) =>
             L[i][3] # p[t].event /\ (L[i][2] = t => L[i][3] < p[t].event)

Apart(r, p) ==
    \A t, u \in Threads : Pends(p, t, r) /\ Pends(p, u, r) /\ t # u => p[t].event # p[u].event

\* No event is lost.
Covered(L, r, n, p) ==
    \A k \in 1..n : \/ \E i \in 1..Len(L) : Own(L[i], r) /\ L[i][3] = k
                    \/ \E t \in Threads : Pends(p, t, r) /\ p[t].event = k

\* DONE is behind every event.
DoneLast(L, r, th) ==
    \A i \in 1..Len(L) : L[i] = Done => th = "ended" /\ NoOwnAfter(L, i, r)

Told(L, m, r, th, g) == g = "answer" => th = "ended" /\ NoOwnAfter(L, m, r)

Good(L, m, r, n, p, th, g) ==
    /\ Numbered(L, r, n) /\ Ordered(L, r) /\ Ahead(L, r, n, p) /\ Apart(r, p)
    /\ Covered(L, r, n, p) /\ DoneLast(L, r, th) /\ Told(L, m, r, th, g)

LEMMA OwnTyped ==
    ASSUME NEW x \in Marks, NEW r, Own(x, r)
    PROVE  x \in Events /\ x[1] = r /\ x[2] \in Threads /\ x[3] \in Nat \ {0}
BY DEF Own, Marks, Events

LEMMA OwnEvent ==
    ASSUME NEW x \in Events, NEW r PROVE x # Done /\ x # Other /\ (Own(x, r) <=> x[1] = r)
<1>1. Len(x) = 3
  BY DEF Events
<1>2. Len(Done) = 0 /\ Len(Other) = 1
  BY DEF Done, Other
<1> QED
  BY <1>1, <1>2 DEF Own

LEMMA OtherIsNoOne == Other # Done /\ \A r : ~Own(Other, r) /\ ~Own(Done, r)
<1>1. Len(Done) = 0 /\ Len(Other) = 1
  BY DEF Done, Other
<1> QED
  BY <1>1 DEF Own

\* Only what a thread has still to publish to the stream itself counts.
LEMMA GoodSame ==
    ASSUME NEW L \in Seq(Marks), NEW m, NEW r, NEW n, NEW p, NEW v, NEW th, NEW g, NEW h,
           Good(L, m, r, n, p, th, g), h = "answer" => g = "answer",
           \A t \in Threads : /\ Pends(v, t, r) <=> Pends(p, t, r)
                              /\ Pends(v, t, r) => v[t].event = p[t].event
    PROVE  Good(L, m, r, n, v, th, h)
<1>1. Ahead(L, r, n, v)
  BY DEF Good, Ahead
<1>2. Apart(r, v)
  BY DEF Good, Apart
<1>3. Covered(L, r, n, v)
  BY DEF Good, Covered
<1> QED
  BY <1>1, <1>2, <1>3 DEF Good, Told

LEMMA GoodEnd ==
    ASSUME NEW L \in Seq(Marks), NEW m, NEW r, NEW n, NEW p, NEW th, NEW g,
           NEW v, Good(L, m, r, n, p, th, g), th = "ended" => v = "ended"
    PROVE  Good(L, m, r, n, p, v, g)
BY DEF Good, DoneLast, Told

\* Where an item of Without(L, k) is on L.
Source(L, k) == [i \in 1..(Len(L) - 1) |-> IF i < k THEN i ELSE i + 1]

LEMMA WithoutFrom ==
    ASSUME NEW L \in Seq(Marks), NEW k \in 1..Len(L)
    PROVE  LET from == Source(L, k) IN
           /\ from \in [1..(Len(L) - 1) -> 1..Len(L)]
           /\ \A i \in 1..(Len(L) - 1) : Without(L, k)[i] = L[from[i]]
           /\ \A i, j \in 1..(Len(L) - 1) : i < j => from[i] < from[j]
           /\ \A i \in 1..(Len(L) - 1) : (i < k => from[i] = i) /\ (i >= k => from[i] = i + 1)
           /\ \A i \in 1..Len(L) : i # k => \E j \in 1..(Len(L) - 1) : from[j] = i
<1> DEFINE w == Without(L, k)
           from == [i \in 1..(Len(L) - 1) |-> IF i < k THEN i ELSE i + 1]
<1>1. Len(L) \in Nat
  OBVIOUS
<1>2. \A i \in 1..(Len(L) - 1) : w[i] = L[IF i < k THEN i ELSE i + 1]
  BY WithoutTyped
<1> HIDE DEF w
<1>3. \A i \in 1..(Len(L) - 1) : w[i] = L[from[i]]
  BY <1>2
<1>4. from \in [1..(Len(L) - 1) -> 1..Len(L)]
  BY <1>1
<1>5. \A i \in 1..(Len(L) - 1) : (i < k => from[i] = i) /\ (i >= k => from[i] = i + 1)
  BY <1>1
<1>6. \A i, j \in 1..(Len(L) - 1) : i < j => from[i] < from[j]
  BY <1>1
<1>7. ASSUME NEW i \in 1..Len(L), i # k PROVE \E j \in 1..(Len(L) - 1) : from[j] = i
  <2>2. CASE i < k
    <3>1. i \in 1..(Len(L) - 1) /\ from[i] = i
      BY <1>1, <2>2
    <3> QED
      BY <3>1
  <2>3. CASE i > k
    <3>1. i - 1 \in 1..(Len(L) - 1) /\ from[i - 1] = i
      BY <1>1, <2>3
    <3> QED
      BY <3>1
  <2> QED
    BY <1>7, <2>2, <2>3
<1> HIDE DEF from
<1> QED
  BY <1>3, <1>4, <1>5, <1>6, <1>7 DEF w, from, Source

\* What cannot be the stream's own is dropped.
LEMMA GoodWithout ==
    ASSUME NEW L \in Seq(Marks), NEW m \in Nat, NEW r, NEW n, NEW p, NEW th, NEW g,
           NEW k \in 1..Len(L), ~Own(L[k], r), k > m,
           Good(L, m, r, n, p, th, g)
    PROVE  Good(Without(L, k), m, r, n, p, th, g)
<1> DEFINE w == Without(L, k)
           d == 1..(Len(L) - 1)
           from == Source(L, k)
<1>1. /\ from \in [d -> 1..Len(L)]
      /\ \A i \in d : w[i] = L[from[i]]
      /\ \A i, j \in d : i < j => from[i] < from[j]
      /\ \A i \in d : (i < k => from[i] = i) /\ (i >= k => from[i] = i + 1)
      /\ \A i \in 1..Len(L) : i # k => \E j \in d : from[j] = i
  BY WithoutFrom
<1>2. 1..Len(w) = d /\ d \subseteq Nat
  BY WithoutTyped
<1>3. \A i \in d : i > m => from[i] > m
  BY SMTT(30), <1>1, <1>2
<1> HIDE DEF w, d, from
<1>4. Numbered(w, r, n)
  BY <1>1, <1>2 DEF Good, Numbered
<1>5. Ordered(w, r)
  <2> SUFFICES ASSUME NEW i \in d, NEW j \in d, i < j, Own(w[i], r), Own(w[j], r)
               PROVE  w[i][3] # w[j][3] /\ (w[i][2] = w[j][2] => w[i][3] < w[j][3])
    BY <1>2 DEF Ordered
  <2>1. /\ from[i] \in 1..Len(L) /\ from[j] \in 1..Len(L) /\ from[i] < from[j]
        /\ w[i] = L[from[i]] /\ w[j] = L[from[j]]
    BY <1>1
  <2> QED
    BY <2>1 DEF Good, Ordered
<1>6. Ahead(w, r, n, p)
  <2> SUFFICES ASSUME NEW t \in Threads, Pends(p, t, r)
               PROVE  /\ p[t].event \in 1..n
                      /\ \A i \in 1..Len(w) : Own(w[i], r) =>
                           w[i][3] # p[t].event /\ (w[i][2] = t => w[i][3] < p[t].event)
    BY DEF Ahead
  <2>1. /\ p[t].event \in 1..n
        /\ \A i \in 1..Len(L) : Own(L[i], r) =>
             L[i][3] # p[t].event /\ (L[i][2] = t => L[i][3] < p[t].event)
    BY DEF Good, Ahead
  <2>2. ASSUME NEW i \in d, Own(w[i], r)
        PROVE  w[i][3] # p[t].event /\ (w[i][2] = t => w[i][3] < p[t].event)
    <3>1. from[i] \in 1..Len(L) /\ w[i] = L[from[i]]
      BY <1>1
    <3> QED
      BY <2>1, <2>2, <3>1
  <2> QED
    BY <1>2, <2>1, <2>2
<1>7. Covered(w, r, n, p)
  <2> SUFFICES ASSUME NEW x \in 1..n
               PROVE  \/ \E i \in 1..Len(w) : Own(w[i], r) /\ w[i][3] = x
                      \/ \E t \in Threads : Pends(p, t, r) /\ p[t].event = x
    BY DEF Covered
  <2>1. CASE \E i \in 1..Len(L) : Own(L[i], r) /\ L[i][3] = x
    <3>1. PICK i \in 1..Len(L) : Own(L[i], r) /\ L[i][3] = x
      BY <2>1
    <3>2. PICK j \in d : from[j] = i
      BY <1>1, <3>1
    <3> QED
      BY <1>1, <1>2, <3>1, <3>2
  <2> QED
    BY <2>1 DEF Good, Covered
<1>8. ASSUME NEW i \in d, NEW x, NoOwnAfter(L, x, r), \A j \in d : j > i => from[j] > x
      PROVE  NoOwnAfter(w, i, r)
  BY <1>1, <1>2, <1>8 DEF NoOwnAfter
<1>9. DoneLast(w, r, th)
  <2> SUFFICES ASSUME NEW i \in 1..Len(w), w[i] = Done
               PROVE  th = "ended" /\ NoOwnAfter(w, i, r)
    BY DEF DoneLast
  <2>1. th = "ended" /\ NoOwnAfter(L, from[i], r)
    BY <1>1, <1>2 DEF Good, DoneLast
  <2>2. \A j \in d : j > i => from[j] > from[i]
    BY <1>1, <1>2
  <2> QED
    BY <1>2, <1>8, <2>1, <2>2
<1>10. Told(w, m, r, th, g)
  BY <1>1, <1>2, <1>3 DEF Good, Told, NoOwnAfter
<1> QED
  BY <1>4, <1>5, <1>6, <1>7, <1>9, <1>10 DEF Good, w

\* DONE is taken: the stream has nothing more to come.
LEMMA GoodAnswer ==
    ASSUME NEW L \in Seq(Marks), NEW m \in Nat, NEW r, NEW n, NEW p, NEW th, NEW g,
           m + 1 \in 1..Len(L), L[m + 1] = Done,
           Good(L, m, r, n, p, th, g)
    PROVE  Good(Without(L, m + 1), m, r, n, p, th, "answer")
<1>1. ~Own(L[m + 1], r)
  BY OtherIsNoOne
<1>2. Good(Without(L, m + 1), m, r, n, p, th, g)
  BY <1>1, GoodWithout
<1>3. th = "ended" /\ NoOwnAfter(L, m + 1, r)
  BY DEF Good, DoneLast
<1>4. NoOwnAfter(Without(L, m + 1), m, r)
  <2> DEFINE w == Without(L, m + 1)
             from == Source(L, m + 1)
  <2>1. /\ from \in [1..(Len(L) - 1) -> 1..Len(L)]
        /\ \A i \in 1..(Len(L) - 1) : w[i] = L[from[i]]
        /\ \A i \in 1..(Len(L) - 1) : i >= m + 1 => from[i] = i + 1
    BY WithoutFrom
  <2>2. Len(w) = Len(L) - 1
    BY WithoutTyped
  <2> HIDE DEF w, from
  <2>3. \A i \in 1..(Len(L) - 1) : i > m => i >= m + 1 /\ i + 1 > m + 1
    OBVIOUS
  <2>4. \A i \in 1..Len(w) : i > m => ~Own(w[i], r)
    BY <1>3, <2>1, <2>2, <2>3 DEF NoOwnAfter
  <2> QED
    BY <2>4 DEF NoOwnAfter, w
<1> QED
  BY <1>2, <1>3, <1>4 DEF Good, Told

LEMMA GoodAppendOther ==
    ASSUME NEW L \in Seq(Marks), NEW m, NEW r, NEW n, NEW p, NEW th, NEW g, NEW x \in Marks,
           ~Own(x, r), x = Done => th = "ended",
           Good(L, m, r, n, p, th, g)
    PROVE  Good(Append(L, x), m, r, n, p, th, g)
<1> DEFINE w == Append(L, x)
<1>1. /\ Len(w) = Len(L) + 1 /\ Len(L) \in Nat /\ w[Len(L) + 1] = x
      /\ \A i \in 1..Len(L) : w[i] = L[i]
  BY AppendIndex
<1> HIDE DEF w
<1>2. \A i \in 1..Len(w) : i \in 1..Len(L) \/ (i = Len(L) + 1 /\ w[i] = x)
  BY <1>1
<1>3. \A i \in 1..Len(L) : i \in 1..Len(w)
  BY <1>1
<1>4. Numbered(w, r, n)
  BY <1>1, <1>2 DEF Good, Numbered
<1>5. Ordered(w, r)
  BY <1>1, <1>2 DEF Good, Ordered
<1>6. Ahead(w, r, n, p)
  BY <1>1, <1>2 DEF Good, Ahead
<1>7. Covered(w, r, n, p)
  BY <1>1, <1>3 DEF Good, Covered
<1>8. ASSUME NEW k, NoOwnAfter(L, k, r) PROVE NoOwnAfter(w, k, r)
  BY <1>1, <1>2, <1>8 DEF NoOwnAfter
<1>9. DoneLast(w, r, th)
  <2> SUFFICES ASSUME NEW i \in 1..Len(w), w[i] = Done
               PROVE  th = "ended" /\ NoOwnAfter(w, i, r)
    BY DEF DoneLast
  <2>1. CASE i \in 1..Len(L)
    BY <1>1, <1>8, <2>1 DEF Good, DoneLast
  <2>2. CASE i = Len(L) + 1
    <3>1. \A j \in 1..Len(w) : ~(j > i)
      BY <1>1, <2>2
    <3> QED
      BY <1>1, <2>2, <3>1 DEF NoOwnAfter
  <2> QED
    BY <1>2, <2>1, <2>2
<1>10. Told(w, m, r, th, g)
  BY <1>8 DEF Good, Told
<1> QED
  BY <1>4, <1>5, <1>6, <1>7, <1>9, <1>10 DEF Good, w

\* A thread puts the event on the line that it had still to put there.
LEMMA GoodAppendOwn ==
    ASSUME NEW L \in Seq(Marks), NEW m, NEW r \in Requests, NEW n \in Nat, NEW p, NEW v, NEW th, NEW g,
           NEW t \in Threads, NEW x \in Events, x = <<r, t, p[t].event>>,
           th # "ended", Pends(p, t, r), ~Pends(v, t, r),
           \A u \in Threads : u # t => v[u] = p[u],
           Good(L, m, r, n, p, th, g)
    PROVE  Good(Append(L, x), m, r, n, v, th, g)
<1> DEFINE w == Append(L, x)
<1>0. x \in Marks /\ Own(x, r)
  BY OwnEvent DEF Marks
<1>1. /\ Len(w) = Len(L) + 1 /\ Len(L) \in Nat /\ w[Len(L) + 1] = x
      /\ \A i \in 1..Len(L) : w[i] = L[i]
  BY <1>0, AppendIndex
<1> HIDE DEF w
<1>2. \A i \in 1..Len(w) : i \in 1..Len(L) \/ (i = Len(L) + 1 /\ w[i] = x)
  BY <1>1
<1>3. /\ \A i \in 1..Len(L) : i \in 1..Len(w) /\ i < Len(L) + 1
      /\ Len(L) + 1 \in 1..Len(w)
  BY <1>1
<1>a. /\ x[2] = t /\ x[3] = p[t].event /\ p[t].event \in 1..n
      /\ \A i \in 1..Len(L) : Own(L[i], r) =>
           L[i][3] # x[3] /\ (L[i][2] = t => L[i][3] < x[3])
  BY DEF Good, Ahead
<1>4. Numbered(w, r, n)
  BY <1>1, <1>2, <1>a DEF Good, Numbered
<1>5. Ordered(w, r)
  <2> SUFFICES ASSUME NEW i \in 1..Len(w), NEW j \in 1..Len(w), i < j, Own(w[i], r), Own(w[j], r)
               PROVE  w[i][3] # w[j][3] /\ (w[i][2] = w[j][2] => w[i][3] < w[j][3])
    BY DEF Ordered
  <2>1. i \in 1..Len(L)
    BY <1>1
  <2>2. CASE j \in 1..Len(L)
    BY <1>1, <2>1, <2>2 DEF Good, Ordered
  <2>3. CASE j = Len(L) + 1
    BY <1>1, <1>a, <2>1, <2>3
  <2> QED
    BY <1>2, <2>2, <2>3
<1>6. Ahead(w, r, n, v)
  <2> SUFFICES ASSUME NEW u \in Threads, Pends(v, u, r)
               PROVE  /\ v[u].event \in 1..n
                      /\ \A i \in 1..Len(w) : Own(w[i], r) =>
                           w[i][3] # v[u].event /\ (w[i][2] = u => w[i][3] < v[u].event)
    BY DEF Ahead
  <2>1. u # t /\ v[u] = p[u] /\ Pends(p, u, r)
    BY DEF Pends
  <2>2. p[u].event # x[3]
    BY <1>a, <2>1 DEF Good, Apart
  <2>3. /\ p[u].event \in 1..n
        /\ \A i \in 1..Len(L) : Own(L[i], r) =>
             L[i][3] # p[u].event /\ (L[i][2] = u => L[i][3] < p[u].event)
    BY <2>1 DEF Good, Ahead
  <2> QED
    BY <1>1, <1>2, <1>a, <2>1, <2>2, <2>3
<1>7. Apart(r, v)
  BY DEF Good, Apart, Pends
<1>8. Covered(w, r, n, v)
  <2> SUFFICES ASSUME NEW k \in 1..n
               PROVE  \/ \E i \in 1..Len(w) : Own(w[i], r) /\ w[i][3] = k
                      \/ \E u \in Threads : Pends(v, u, r) /\ v[u].event = k
    BY DEF Covered
  <2>1. CASE \E i \in 1..Len(L) : Own(L[i], r) /\ L[i][3] = k
    BY <1>1, <1>3, <2>1
  <2>2. ASSUME NEW u \in Threads, Pends(p, u, r), p[u].event = k
        PROVE  \/ \E i \in 1..Len(w) : Own(w[i], r) /\ w[i][3] = k
               \/ \E s \in Threads : Pends(v, s, r) /\ v[s].event = k
    <3>1. CASE u = t
      BY <1>0, <1>1, <1>3, <1>a, <2>2, <3>1
    <3>2. CASE u # t
      BY <2>2, <3>2 DEF Pends
    <3> QED
      BY <3>1, <3>2
  <2> QED
    BY <2>1, <2>2 DEF Good, Covered
<1>9. DoneLast(w, r, th)
  <2>1. \A i \in 1..Len(w) : w[i] # Done
    BY <1>1, <1>2, OwnEvent DEF Good, DoneLast
  <2> QED
    BY <2>1 DEF DoneLast
<1>10. Told(w, m, r, th, g)
  BY DEF Good, Told
<1> QED
  BY <1>4, <1>5, <1>6, <1>7, <1>8, <1>9, <1>10 DEF Good, w

\* A thread publishes the next event, to the stream among others.
LEMMA GoodPublish ==
    ASSUME NEW L \in Seq(Marks), NEW m, NEW r \in Requests, NEW n \in Nat, NEW p, NEW v, NEW th, NEW g,
           NEW t \in Threads,
           ~Pends(p, t, r), Pends(v, t, r), v[t].event = n + 1,
           \A u \in Threads : u # t => v[u] = p[u],
           Good(L, m, r, n, p, th, g)
    PROVE  Good(L, m, r, n + 1, v, th, g)
<1>1. \A i \in 1..Len(L) : Own(L[i], r) => L[i][3] \in Nat /\ L[i][3] <= n
  <2>1. \A i \in 1..Len(L) : L[i] \in Marks
    OBVIOUS
  <2> QED
    BY <2>1, OwnTyped DEF Good, Numbered
<1>2. \A u \in Threads : Pends(v, u, r) => u = t \/ (Pends(p, u, r) /\ v[u] = p[u])
  BY DEF Pends
<1>3. \A u \in Threads : Pends(p, u, r) => p[u].event \in 1..n /\ u # t /\ Pends(v, u, r) /\ v[u] = p[u]
  BY DEF Good, Ahead, Pends
<1>4. Numbered(L, r, n + 1)
  BY <1>1 DEF Numbered
<1>5. Ahead(L, r, n + 1, v)
  <2> SUFFICES ASSUME NEW u \in Threads, Pends(v, u, r)
               PROVE  /\ v[u].event \in 1..(n + 1)
                      /\ \A i \in 1..Len(L) : Own(L[i], r) =>
                           L[i][3] # v[u].event /\ (L[i][2] = u => L[i][3] < v[u].event)
    BY DEF Ahead
  <2>1. CASE u = t
    BY <1>1, <2>1
  <2>2. CASE u # t
    <3>1. Pends(p, u, r) /\ v[u] = p[u]
      BY <1>2, <2>2
    <3> QED
      BY <1>3, <3>1 DEF Good, Ahead
  <2> QED
    BY <2>1, <2>2
<1>6. Apart(r, v)
  <2> SUFFICES ASSUME NEW u \in Threads, NEW s \in Threads, Pends(v, u, r), Pends(v, s, r), u # s
               PROVE  v[u].event # v[s].event
    BY DEF Apart
  <2>1. CASE u # t /\ s # t
    BY <1>2, <2>1 DEF Good, Apart
  <2>2. CASE u = t \/ s = t
    BY <1>2, <1>3, <2>2
  <2> QED
    BY <2>1, <2>2
<1>7. Covered(L, r, n + 1, v)
  <2> SUFFICES ASSUME NEW k \in 1..(n + 1)
               PROVE  \/ \E i \in 1..Len(L) : Own(L[i], r) /\ L[i][3] = k
                      \/ \E u \in Threads : Pends(v, u, r) /\ v[u].event = k
    BY DEF Covered
  <2>1. CASE k = n + 1
    BY <2>1
  <2>2. CASE k \in 1..n
    BY <1>3, <2>2 DEF Good, Covered
  <2> QED
    BY <2>1, <2>2
<1> QED
  BY <1>4, <1>5, <1>6, <1>7 DEF Good

-----------------------------------------------------------------------------
Live(r) == gen[r] \in {"open", "answer"}
StreamGood(r) == Good(Line(r), Len(shown[r]), r, sent[r], pub[r], thread[r], gen[r])
LineInv == \A r \in Streams : Live(r) => StreamGood(r)

LEMMA LineParts ==
    ASSUME BridgeTyped, NEW r \in Streams
    PROVE  /\ Parts(shown[r], queue[r], ready)
           /\ Line(r) \in Seq(Marks)
           /\ Len(Line(r)) = Len(shown[r]) + Len(queue[r]) + Len(ready)
           /\ Len(shown[r]) \in Nat /\ Len(queue[r]) \in Nat /\ Len(ready) \in Nat
           /\ sent[r] \in Nat /\ r \in Requests
<1>1. Parts(shown[r], queue[r], ready) /\ sent[r] \in Nat /\ r \in Requests
  BY StreamConstants DEF BridgeTyped, Parts
<1> DEFINE s == shown[r]
           q == queue[r]
<1> HIDE DEF s, q
<1>2. Parts(s, q, ready) =>
        /\ LineOf(s, q, ready, r) \in Seq(Marks)
        /\ Len(LineOf(s, q, ready, r)) = Len(s) + Len(q) + Len(ready)
        /\ Len(s) \in Nat /\ Len(q) \in Nat /\ Len(ready) \in Nat
  BY LineTyped
<1> QED
  BY <1>1, <1>2 DEF Line, s, q

\* Nothing of the stream is touched, but its run may go on.
LEMMA Unmoved ==
    ASSUME BridgeTyped, LineInv, NEW q \in Streams, Live(q)',
           gen'[q] = gen[q], shown'[q] = shown[q], queue'[q] = queue[q], ready' = ready,
           sent'[q] = sent[q], pub'[q] = pub[q], thread[q] = "ended" => thread'[q] = "ended"
    PROVE  StreamGood(q)'
<1>1. StreamGood(q) /\ Line(q)' = Line(q)
  BY DEF LineInv, Live, Line
<1> QED
  BY <1>1, LineParts, GoodEnd DEF StreamGood

LEMMA OpenLine ==
    ASSUME BridgeTyped, BusInv, LineInv, NEW r \in Requests, NEW m \in Asked, OpenStream(r, m)
    PROVE  LineInv'
<1>1. /\ r \in Streams /\ gen[r] = "off" /\ thread[r] = "off"
      /\ gen' = [gen EXCEPT ![r] = "open"] /\ thread' = [thread EXCEPT ![r] = "queued"]
      /\ UNCHANGED <<sent, pub, ready, queue, shown>>
  BY DEF OpenStream, loop, BusInv, QuietInv
<1>2. /\ \A q \in Requests : gen'[q] = IF q = r THEN "open" ELSE gen[q]
      /\ \A q \in Requests : thread'[q] = IF q = r THEN "queued" ELSE thread[q]
  BY <1>1 DEF BridgeTyped
<1>3. ASSUME NEW q \in Streams, Live(q)', q # r PROVE StreamGood(q)'
  BY <1>1, <1>2, <1>3, Unmoved, StreamConstants
<1>4. StreamGood(r)'
  <2> DEFINE L == Line(r)
  <2>1. shown[r] = <<>> /\ queue[r] = <<>> /\ Len(shown[r]) = 0 /\ Len(queue[r]) = 0
    BY <1>1 DEF BusInv, QuietInv
  <2>a. /\ L \in Seq(Marks) /\ Len(L) = Len(shown[r]) + Len(queue[r]) + Len(ready)
        /\ Len(ready) \in Nat
    BY <1>1, LineParts
  <2>2. Len(L) = Len(ready)
    BY <2>1, <2>a
  <2>3. ASSUME NEW i \in 1..Len(L) PROVE L[i] = Other
    <3>1. ready[i].of # r
      BY <1>1, <2>2, <2>3 DEF BusInv, QuietInv
    <3>2. i \in 1..(Len(shown[r]) + Len(queue[r]) + Len(ready)) /\ ~(i <= 0) /\ i - 0 = i
      BY <2>1, <2>a, <2>2, <2>3
    <3>3. L[i] = Item(ready[i], r)
      BY <2>1, <3>2, LineAt DEF Line
    <3> QED
      BY <3>1, <3>3 DEF Item
  <2> HIDE DEF L
  <2>4. sent[r] = 0 /\ \A t \in Threads : ~Pends(pub[r], t, r)
    BY <1>1, StreamConstants DEF BusInv, QuietInv, PubInv, Pends
  <2>5. \A i \in 1..Len(L) : ~Own(L[i], r) /\ L[i] # Done
    BY <2>3, OtherIsNoOne
  <2>6. Good(L, 0, r, 0, pub[r], "queued", "open")
    <3>1. Numbered(L, r, 0) /\ Ordered(L, r) /\ DoneLast(L, r, "queued")
      BY <2>5 DEF Numbered, Ordered, DoneLast
    <3>2. Ahead(L, r, 0, pub[r]) /\ Apart(r, pub[r])
      BY <2>4 DEF Ahead, Apart
    <3>3. Covered(L, r, 0, pub[r])
      BY DEF Covered
    <3> QED
      BY <3>1, <3>2, <3>3 DEF Good, Told
  <2>7. Line(r)' = L
    BY <1>1 DEF Line, L
  <2>8. r \in Requests
    OBVIOUS
  <2> QED
    BY <1>1, <1>2, <2>1, <2>4, <2>6, <2>7 DEF StreamGood
<1> QED
  BY <1>3, <1>4 DEF LineInv

LEMMA ThreadLine ==
    ASSUME BridgeTyped, BusInv, LineInv, NEW r \in Requests,
           \/ \E m \in Asked : HandleAgent(r, m)
           \/ TakeWorker(r) \/ SaveModel(r) \/ OverrideModel(r) \/ EndHandled(r)
    PROVE  LineInv'
<1>1. /\ UNCHANGED <<sent, pub, ready, queue, shown>>
      /\ \/ gen' = gen
         \/ r \notin Streams /\ \E s \in {"open", "closed"} : gen' = [gen EXCEPT ![r] = s]
      /\ \/ r \notin Streams
         \/ thread[r] # "ended"
      /\ \E s \in {"save", "override", "run", "ended"} : thread' = [thread EXCEPT ![r] = s]
  BY DEF HandleAgent, TakeWorker, SaveModel, OverrideModel, EndHandled, override, bus, loop
<1>2. ASSUME NEW q \in Streams
      PROVE  gen'[q] = gen[q] /\ (thread[q] = "ended" => thread'[q] = "ended")
  BY <1>1, StreamConstants DEF BridgeTyped
<1>3. ASSUME NEW q \in Streams, Live(q)' PROVE StreamGood(q)'
  BY <1>1, <1>2, <1>3, Unmoved
<1> QED
  BY <1>3 DEF LineInv

LEMMA EndRunLine ==
    ASSUME BridgeTyped, BusInv, LineInv, NEW r \in Requests, EndRun(r) PROVE LineInv'
<1> DEFINE step == Hop("settle", r)
<1>1. /\ r \in Streams /\ thread' = [thread EXCEPT ![r] = "ended"] /\ ready' = Append(ready, step)
      /\ UNCHANGED <<gen, sent, pub, queue, shown>>
  BY DEF EndRun, bus
<1>2. step \in Callbacks /\ step.of = r /\ step.do = "settle"
  BY <1>1, HopTyped
<1> HIDE DEF step
<1>3. \A q \in Requests : thread'[q] = IF q = r THEN "ended" ELSE thread[q]
  BY <1>1 DEF BridgeTyped
<1>4. ASSUME NEW q \in Streams, Live(q)' PROVE StreamGood(q)'
  <2> DEFINE x == Item(step, q)
  <2>1. Live(q) /\ Good(Line(q), Len(shown[q]), q, sent[q], pub[q], thread[q], gen[q])
    BY <1>1, <1>4 DEF Live, LineInv, StreamGood
  <2>2. Parts(shown[q], queue[q], ready) /\ Line(q) \in Seq(Marks) /\ q \in Requests
    BY LineParts
  <2>3. Line(q)' = Append(Line(q), x)
    BY <1>1, <1>2, <2>2, LineAppend DEF Line
  <2>4. x \in Marks /\ ~Own(x, q) /\ (x = Done => q = r)
    BY <1>2, ItemTyped, OtherIsNoOne DEF Item
  <2> HIDE DEF x
  <2>5. Good(Line(q), Len(shown[q]), q, sent[q], pub[q], thread'[q], gen[q])
    BY <1>3, <2>1, <2>2, GoodEnd
  <2>6. x = Done => thread'[q] = "ended"
    BY <1>3, <2>2, <2>4
  <2>7. Good(Append(Line(q), x), Len(shown[q]), q, sent[q], pub[q], thread'[q], gen[q])
    BY <2>2, <2>4, <2>5, <2>6, GoodAppendOther
  <2> QED
    BY <1>1, <2>3, <2>7 DEF StreamGood
<1> QED
  BY <1>4 DEF LineInv

LEMMA PublishLine ==
    ASSUME BridgeTyped, BusInv, LineInv, NEW r \in Requests, NEW t \in Threads, Publish(r, t)
    PROVE  LineInv'
<1>1. /\ pub[r][t].calls = <<>>
      /\ sent' = [sent EXCEPT ![r] = @ + 1]
      /\ pub' = [pub EXCEPT ![r][t] =
                   IF subs = <<>> THEN Idle ELSE [event |-> sent[r] + 1, calls |-> subs]]
      /\ UNCHANGED <<gen, thread, subs, ready, queue, shown>>
  BY DEF Publish, loop
<1>2. /\ \A q \in Requests : sent'[q] = IF q = r THEN sent[r] + 1 ELSE sent[q]
      /\ \A q \in Requests : q # r => pub'[q] = pub[q]
      /\ \A u \in Threads : u # t => pub'[r][u] = pub[r][u]
      /\ pub'[r][t].calls = subs
      /\ subs # <<>> => pub'[r][t].event = sent[r] + 1
  BY <1>1 DEF BridgeTyped, Idle
<1>3. ASSUME NEW q \in Streams, Live(q)', q # r PROVE StreamGood(q)'
  BY <1>1, <1>2, <1>3, Unmoved, StreamConstants
<1>4. ASSUME r \in Streams, Live(r)' PROVE StreamGood(r)'
  <2>1. Live(r) /\ Good(Line(r), Len(shown[r]), r, sent[r], pub[r], thread[r], gen[r])
    BY <1>1, <1>4 DEF Live, LineInv, StreamGood
  <2>2. Line(r) \in Seq(Marks) /\ sent[r] \in Nat /\ Line(r)' = Line(r)
    BY <1>1, <1>4, LineParts DEF Line
  <2>3. Listens(subs, r) /\ subs # <<>>
    <3>1. Listens(subs, r)
      BY <1>4, <2>1 DEF Live, BusInv, SubsInv, Registered
    <3> QED
      BY <3>1 DEF Listens
  <2>4. ~Pends(pub[r], t, r) /\ Pends(pub'[r], t, r) /\ pub'[r][t].event = sent[r] + 1
    BY <1>1, <1>2, <2>3 DEF Pends, Listens
  <2>5. Good(Line(r), Len(shown[r]), r, sent[r] + 1, pub'[r], thread[r], gen[r])
    BY <1>2, <2>1, <2>2, <2>4, GoodPublish
  <2> QED
    BY <1>1, <1>2, <2>2, <2>5 DEF StreamGood
<1> QED
  BY <1>3, <1>4 DEF LineInv

LEMMA CallLine ==
    ASSUME BridgeTyped, BusInv, LineInv, NEW r \in Requests, NEW t \in Threads, CallListener(r, t)
    PROVE  LineInv'
<1> DEFINE list == pub[r][t].calls
           x == <<r, t, pub[r][t].event>>
           step == Put(Head(list), x)
<1>1. list # <<>> /\ pub[r][t].event > 0 /\ thread[r] = "run" /\ Distinct(list)
  BY DEF CallListener, BusInv, PubInv, BridgeTyped
<1>2. /\ list \in Seq(Streams) /\ Head(list) \in Streams /\ x \in Events
      /\ ready' = Append(ready, step)
      /\ pub'[r][t].calls = Tail(list)
      /\ Tail(list) # <<>> => pub'[r][t].event = pub[r][t].event
      /\ \A q \in Requests, u \in Threads : ~(q = r /\ u = t) => pub'[q][u] = pub[q][u]
      /\ UNCHANGED <<gen, thread, sent, subs, queue, shown>>
  BY <1>1, CallEffect
<1>3. step \in Callbacks /\ step.of = Head(list) /\ step.do = "put" /\ step.item = x
  BY <1>2, PutTyped
<1>4. \A q : Listens(Tail(list), q) <=> Listens(list, q) /\ q # Head(list)
  BY <1>1, <1>2, TailListens
<1>5. Listens(list, Head(list))
  <2>1. 1 \in DOMAIN list /\ list[1] = Head(list)
    BY <1>1, <1>2, TailIndex
  <2> QED
    BY <2>1 DEF Listens
<1>6. x[1] = r
  OBVIOUS
<1>7. x = <<r, t, pub[r][t].event>>
  OBVIOUS
<1> HIDE DEF step, x
<1>8. ASSUME NEW q \in Streams, Live(q)' PROVE StreamGood(q)'
  <2> DEFINE y == Item(step, q)
  <2>1. Live(q) /\ Good(Line(q), Len(shown[q]), q, sent[q], pub[q], thread[q], gen[q])
    BY <1>2, <1>8 DEF Live, LineInv, StreamGood
  <2>2. Parts(shown[q], queue[q], ready) /\ Line(q) \in Seq(Marks) /\ sent[q] \in Nat /\ q \in Requests
    BY LineParts
  <2>3. Line(q)' = Append(Line(q), y)
    BY <1>2, <1>3, <2>2, LineAppend DEF Line
  <2>4. y \in Marks /\ y = IF Head(list) = q THEN x ELSE Other
    BY <1>3, ItemTyped DEF Item
  <2> HIDE DEF y
  <2>5. CASE q = r /\ Head(list) = q
    <3>1. Pends(pub[r], t, r) /\ ~Pends(pub'[r], t, r)
      BY <1>2, <1>4, <1>5, <2>5 DEF Pends
    <3>2. thread[q] # "ended" /\ y = x
      BY <1>1, <2>4, <2>5
    <3>3. \A u \in Threads : u # t => pub'[r][u] = pub[r][u]
      BY <1>2
    <3> DEFINE p == pub[r]
               v == pub'[r]
    <3>4. /\ x \in Events /\ x = <<r, t, p[t].event>>
          /\ Pends(p, t, r) /\ ~Pends(v, t, r) /\ \A u \in Threads : u # t => v[u] = p[u]
          /\ Line(r) \in Seq(Marks) /\ sent[r] \in Nat
          /\ Good(Line(r), Len(shown[r]), r, sent[r], p, thread[r], gen[r]) /\ thread[r] # "ended"
      BY <1>2, <1>7, <2>1, <2>2, <2>5, <3>1, <3>2, <3>3
    <3> HIDE DEF p, v
    <3>5. Good(Append(Line(r), x), Len(shown[r]), r, sent[r], v, thread[r], gen[r])
      BY <3>4, GoodAppendOwn
    <3> QED
      BY <1>2, <2>3, <2>5, <3>2, <3>5 DEF StreamGood, v
  <2>6. CASE ~(q = r /\ Head(list) = q)
    <3>1. ~Own(y, q) /\ y # Done
      BY <1>2, <1>6, <2>4, <2>6, OwnEvent, OtherIsNoOne
    <3>2. ASSUME NEW u \in Threads
          PROVE  /\ Pends(pub'[q], u, q) <=> Pends(pub[q], u, q)
                 /\ Pends(pub'[q], u, q) => pub'[q][u].event = pub[q][u].event
      <4>1. CASE q = r /\ u = t
        <5>1. Pends(pub'[q], u, q) <=> Listens(Tail(list), q)
          BY <1>2, <4>1 DEF Pends
        <5>2. Pends(pub[q], u, q) <=> Listens(list, q)
          BY <4>1 DEF Pends
        <5>3. Listens(Tail(list), q) => Tail(list) # <<>>
          BY DEF Listens
        <5> QED
          BY <1>2, <1>4, <2>6, <4>1, <5>1, <5>2, <5>3
      <4>2. CASE ~(q = r /\ u = t)
        BY <1>2, <2>2, <4>2 DEF Pends
      <4> QED
        BY <4>1, <4>2
    <3>3. Good(Line(q), Len(shown[q]), q, sent[q], pub'[q], thread[q], gen[q])
      BY <2>1, <2>2, <3>2, GoodSame
    <3>4. Good(Append(Line(q), y), Len(shown[q]), q, sent[q], pub'[q], thread[q], gen[q])
      BY <2>2, <2>4, <3>1, <3>3, GoodAppendOther
    <3> QED
      BY <1>2, <2>3, <3>4 DEF StreamGood
  <2> QED
    BY <2>5, <2>6
<1> QED
  BY <1>8 DEF LineInv

LEMMA LeaveLine ==
    ASSUME BridgeTyped, BusInv, LineInv, NEW r \in Streams,
           Answer(r) \/ Finalize(r) \/ Disconnect(r)
    PROVE  LineInv'
<1>1. /\ \E s \in {"closed", "left", "gone"} : gen' = [gen EXCEPT ![r] = s]
      /\ \A q \in Streams : q # r => shown'[q] = shown[q] /\ queue'[q] = queue[q]
      /\ UNCHANGED <<thread, sent, pub, ready>>
  BY DEF Answer, Finalize, Disconnect, Forget, override, bus, loop, BridgeTyped
<1>2. ~Live(r)' /\ \A q \in Streams : q # r => gen'[q] = gen[q]
  BY <1>1, StreamConstants DEF BridgeTyped, Live
<1>3. ASSUME NEW q \in Streams, Live(q)' PROVE StreamGood(q)'
  <2>1. q # r
    BY <1>2, <1>3
  <2> QED
    BY <1>1, <1>2, <1>3, <2>1, Unmoved
<1> QED
  BY <1>3 DEF LineInv

LEMMA LineHeads ==
    ASSUME NEW s, NEW q, NEW w, NEW r, Parts(s, q, w)
    PROVE  LET L == LineOf(s, q, w, r)
               k == Len(s) + Len(q) + 1
           IN  /\ \A i \in 1..Len(s) : i \in 1..Len(L) /\ L[i] = s[i]
               /\ q # <<>> => Len(s) + 1 \in 1..Len(L) /\ L[Len(s) + 1] = q[1]
               /\ w # <<>> => k \in 1..Len(L) /\ k > Len(s) /\ L[k] = Item(w[1], r)
<1> DEFINE L == LineOf(s, q, w, r)
           n == Len(s) + Len(q)
<1>1. /\ Len(L) = Len(s) + Len(q) + Len(w)
      /\ Len(s) \in Nat /\ Len(q) \in Nat /\ Len(w) \in Nat
  BY LineTyped
<1>2. \A i \in 1..(Len(s) + Len(q) + Len(w)) :
        L[i] = IF i <= Len(s) THEN s[i]
               ELSE IF i <= Len(s) + Len(q) THEN q[i - Len(s)]
               ELSE Item(w[i - (Len(s) + Len(q))], r)
  BY LineAt
<1> HIDE DEF L
<1>3. ASSUME NEW i \in 1..Len(s) PROVE i \in 1..Len(L) /\ L[i] = s[i]
  BY <1>1, <1>2
<1>4. ASSUME q # <<>> PROVE Len(s) + 1 \in 1..Len(L) /\ L[Len(s) + 1] = q[1]
  <2>1. Len(q) >= 1
    BY <1>1, <1>4 DEF Parts
  <2>2. /\ Len(s) + 1 \in 1..(Len(s) + Len(q) + Len(w)) /\ ~(Len(s) + 1 <= Len(s))
        /\ Len(s) + 1 <= Len(s) + Len(q) /\ (Len(s) + 1) - Len(s) = 1
    BY <1>1, <2>1
  <2> QED
    BY <1>1, <1>2, <2>2
<1>5. ASSUME w # <<>> PROVE n + 1 \in 1..Len(L) /\ n + 1 > Len(s) /\ L[n + 1] = Item(w[1], r)
  <2>1. Len(w) >= 1
    BY <1>1, <1>5 DEF Parts
  <2>2. /\ n + 1 \in 1..(n + Len(w)) /\ ~(n + 1 <= Len(s)) /\ ~(n + 1 <= n)
        /\ (n + 1) - n = 1 /\ n + 1 > Len(s)
    BY <1>1, <2>1
  <2> QED
    BY <1>1, <1>2, <2>2
<1> QED
  BY <1>3, <1>4, <1>5 DEF L

\* The places of a stream's line where something is taken off.
LEMMA StreamHeads ==
    ASSUME BridgeTyped, NEW r \in Streams
    PROVE  LET L == Line(r)
               m == Len(shown[r])
               k == Len(shown[r]) + Len(queue[r]) + 1
           IN  /\ \A i \in 1..m : i \in 1..Len(L) /\ L[i] = shown[r][i]
               /\ queue[r] # <<>> =>
                    /\ m + 1 \in 1..Len(L) /\ L[m + 1] = queue[r][1]
                    /\ LineOf(shown[r], Tail(queue[r]), ready, r) = Without(L, m + 1)
               /\ ready # <<>> =>
                    /\ k \in 1..Len(L) /\ k > m /\ L[k] = Item(ready[1], r)
                    /\ LineOf(shown[r], queue[r], Tail(ready), r) = Without(L, k)
<1> DEFINE s == shown[r]
           q == queue[r]
           w == ready
<1>1. Parts(s, q, w)
  BY LineParts
<1> HIDE DEF s, q, w
<1>2. \A i \in 1..Len(s) : i \in 1..Len(LineOf(s, q, w, r)) /\ LineOf(s, q, w, r)[i] = s[i]
  BY <1>1, LineHeads
<1>3. q # <<>> => /\ Len(s) + 1 \in 1..Len(LineOf(s, q, w, r))
                  /\ LineOf(s, q, w, r)[Len(s) + 1] = q[1]
                  /\ LineOf(s, Tail(q), w, r) = Without(LineOf(s, q, w, r), Len(s) + 1)
  BY <1>1, LineHeads, LineSkip
<1>4. w # <<>> =>
        LET k == Len(s) + Len(q) + 1 IN
        /\ k \in 1..Len(LineOf(s, q, w, r)) /\ k > Len(s)
        /\ LineOf(s, q, w, r)[k] = Item(w[1], r)
        /\ LineOf(s, q, Tail(w), r) = Without(LineOf(s, q, w, r), k)
  BY <1>1, LineHeads, LinePop
<1> QED
  BY <1>2, <1>3, <1>4 DEF Line, s, q, w

LEMMA HandleLine ==
    ASSUME BridgeTyped, BusInv, LineInv, Handle PROVE LineInv'
<1> DEFINE h == ready[1]
           rest == Tail(ready)
<1>1. /\ ready # <<>> /\ Len(ready) \in Nat \ {0} /\ h \in Callbacks /\ h.of \in Streams
      /\ h.item \in Events \cup {Done}
      /\ UNCHANGED <<gen, thread, sent, pub, subs, shown>>
  BY HandleEffect
<1>2. \/ /\ h.do = "put" /\ ready' = rest
         /\ queue' = IF gen[h.of] \in Over THEN queue
                     ELSE [queue EXCEPT ![h.of] = Append(@, h.item)]
      \/ h.do # "put" /\ UNCHANGED queue /\ ready' = Append(rest, NextHop(h))
  BY HandleEffect
<1>3. ready \in Seq(Callbacks) /\ rest \in Seq(Callbacks)
  BY <1>1, TailIndex DEF BridgeTyped
<1>4. ASSUME NEW q \in Streams, Live(q)' PROVE StreamGood(q)'
  <2> DEFINE L == Line(q)
             m == Len(shown[q])
             k == Len(shown[q]) + Len(queue[q]) + 1
             Fine(x) == Good(x, m, q, sent[q], pub[q], thread[q], gen[q])
  <2>1. Live(q) /\ Fine(L) /\ ~(gen[q] \in Over)
    BY <1>1, <1>4 DEF Live, LineInv, StreamGood, Over
  <2>2. /\ Parts(shown[q], queue[q], ready) /\ L \in Seq(Marks) /\ q \in Requests /\ m \in Nat
        /\ Len(L) = m + Len(queue[q]) + Len(ready) /\ Len(queue[q]) \in Nat
    BY LineParts
  <2>3. k \in 1..Len(L) /\ k > m
    BY <1>1, StreamHeads
  <2>4. L[k] = Item(h, q)
    BY <1>1, StreamHeads
  <2>5. LineOf(shown[q], queue[q], rest, q) = Without(L, k)
    BY <1>1, StreamHeads
  <2> HIDE DEF k
  <2>6. ~Own(L[k], q) => Fine(Without(L, k))
    BY <2>1, <2>2, <2>3, GoodWithout
  <2>7. Fine(Line(q)') => StreamGood(q)'
    BY <1>1 DEF StreamGood
  <2>8. CASE h.do = "put" /\ h.of = q
    <3>1. queue'[q] = Append(queue[q], h.item) /\ ready' = rest
      BY <1>2, <2>1, <2>8 DEF BridgeTyped
    <3>2. LineOf(shown[q], Append(queue[q], h.item), rest, q) = LineOf(shown[q], queue[q], ready, q)
      BY <1>1, <2>2, <2>8, LineShift
    <3>3. Line(q)' = L
      BY <1>1, <3>1, <3>2 DEF Line
    <3> QED
      BY <2>1, <2>7, <3>3
  <2>9. CASE h.do = "put" /\ h.of # q
    <3>1. queue'[q] = queue[q] /\ ready' = rest
      BY <1>2, <2>9 DEF BridgeTyped
    <3>2. Line(q)' = Without(L, k)
      BY <1>1, <2>5, <3>1 DEF Line
    <3>3. ~Own(L[k], q)
      BY <2>4, <2>9, OtherIsNoOne DEF Item
    <3> QED
      BY <2>6, <2>7, <3>2, <3>3
  <2>10. CASE h.do # "put"
    <3> DEFINE step == NextHop(h)
    <3>1. /\ ready' = Append(rest, step) /\ step \in Callbacks /\ step.of = h.of
          /\ step.do = "put" => step.item = Done
      BY <1>1, <1>2, <2>10, FollowTyped
    <3> HIDE DEF step
    <3> DEFINE x == Item(step, q)
    <3>2. queue' = queue
      BY <1>2, <2>10
    <3>3. Parts(shown[q], queue[q], rest)
      BY <1>3, <2>2 DEF Parts
    <3>4. Line(q)' = Append(Without(L, k), x)
      BY <1>1, <2>5, <3>1, <3>2, <3>3, LineAppend DEF Line
    <3>5. L[k] = (IF h.of = q THEN Done ELSE Other) /\ x = L[k] /\ x \in Marks
      BY <2>4, <2>10, <3>1, ItemTyped DEF Item
    <3>6. ~Own(L[k], q) /\ (L[k] = Done => thread[q] = "ended")
      BY <2>1, <2>3, <3>5, OtherIsNoOne DEF Good, DoneLast
    <3> HIDE DEF x
    <3>7. Without(L, k) \in Seq(Marks)
      BY <2>2, <2>3, WithoutTyped
    <3>8. Fine(Append(Without(L, k), x))
      BY <2>6, <3>5, <3>6, <3>7, GoodAppendOther
    <3> QED
      BY <2>7, <3>4, <3>8
  <2> QED
    BY <2>8, <2>9, <2>10
<1> QED
  BY <1>4 DEF LineInv

LEMMA TakeLine ==
    ASSUME BridgeTyped, BusInv, LineInv, NEW r \in Streams, Take(r) PROVE LineInv'
<1> DEFINE x == queue[r][1]
           L == Line(r)
           m == Len(shown[r])
<1>1. /\ gen[r] = "open" /\ queue[r] # <<>> /\ Len(queue[r]) \in Nat \ {0}
      /\ x \in Events \cup {Done} /\ queue'[r] = Tail(queue[r])
      /\ \/ x = Done /\ gen'[r] = "answer" /\ shown'[r] = shown[r]
         \/ x # Done /\ x[1] = r /\ gen'[r] = gen[r] /\ shown'[r] = Append(shown[r], x)
         \/ x # Done /\ x[1] # r /\ gen'[r] = gen[r] /\ shown'[r] = shown[r]
      /\ \A q \in Requests : q # r => gen'[q] = gen[q]
      /\ \A q \in Streams : q # r => queue'[q] = queue[q] /\ shown'[q] = shown[q]
      /\ UNCHANGED <<thread, sent, pub, subs, ready>>
  BY TakeEffect
<1>2. ASSUME NEW q \in Streams, Live(q)', q # r PROVE StreamGood(q)'
  BY <1>1, <1>2, Unmoved, StreamConstants
<1>3. /\ Parts(shown[r], queue[r], ready) /\ L \in Seq(Marks) /\ m \in Nat
      /\ Len(L) = m + Len(queue[r]) + Len(ready) /\ Len(ready) \in Nat
  BY LineParts
<1>4. Good(L, m, r, sent[r], pub[r], thread[r], gen[r])
  BY <1>1 DEF Live, LineInv, StreamGood
<1>5. m + 1 \in 1..Len(L) /\ L[m + 1] = x
  BY <1>1, StreamHeads
<1>6. LineOf(shown[r], Tail(queue[r]), ready, r) = Without(L, m + 1)
  BY <1>1, StreamHeads
<1>7. StreamGood(r)'
  <2>1. CASE x = Done
    <3>1. Line(r)' = Without(L, m + 1) /\ gen'[r] = "answer" /\ shown'[r] = shown[r]
      BY <1>1, <1>6, <2>1 DEF Line
    <3>2. Good(Without(L, m + 1), m, r, sent[r], pub[r], thread[r], "answer")
      BY <1>3, <1>4, <1>5, <2>1, GoodAnswer
    <3> QED
      BY <1>1, <3>1, <3>2 DEF StreamGood
  <2>2. CASE x # Done /\ x[1] # r
    <3>1. Line(r)' = Without(L, m + 1) /\ gen'[r] = gen[r] /\ shown'[r] = shown[r]
      BY <1>1, <1>6, <2>2 DEF Line
    <3>2. ~Own(L[m + 1], r) /\ m + 1 > m
      BY <1>3, <1>5, <2>2 DEF Own
    <3>3. Good(Without(L, m + 1), m, r, sent[r], pub[r], thread[r], gen[r])
      BY <1>3, <1>4, <1>5, <3>2, GoodWithout
    <3> QED
      BY <1>1, <3>1, <3>3 DEF StreamGood
  <2>3. CASE x # Done /\ x[1] = r
    <3>1. x \in Events /\ shown'[r] = Append(shown[r], x) /\ gen'[r] = gen[r]
      BY <1>1, <2>3
    <3>2. LineOf(Append(shown[r], x), Tail(queue[r]), ready, r) = LineOf(shown[r], queue[r], ready, r)
      BY <1>1, <1>3, <3>1, LineShow
    <3>3. Line(r)' = L
      BY <1>1, <3>1, <3>2 DEF Line
    <3>4. Good(L, Len(shown'[r]), r, sent[r], pub[r], thread[r], gen[r])
      BY <1>1, <1>4 DEF Good, Told
    <3> QED
      BY <1>1, <3>1, <3>3, <3>4 DEF StreamGood
  <2> QED
    BY <2>1, <2>2, <2>3
<1> QED
  BY <1>2, <1>7 DEF LineInv

-----------------------------------------------------------------------------
(* When DONE has been taken everything the run published is among what is       *)
(* shown.                                                                     *)

LEMMA LineShown ==
    ASSUME BridgeTyped, BusInv, LineInv PROVE OwnEventsShown
<1> SUFFICES ASSUME NEW r \in Streams, gen[r] = "answer"
             PROVE  LET At(k) == {i \in DOMAIN shown[r] : shown[r][i][3] = k}
                    IN  /\ \A k \in 1..sent[r] : Cardinality(At(k)) = 1
                        /\ \A k, n \in 1..sent[r] : k < n =>
                             \A i \in At(k), j \in At(n) : shown[r][i][2] = shown[r][j][2] => i < j
  BY DEF OwnEventsShown
<1> DEFINE At(k) == {i \in DOMAIN shown[r] : shown[r][i][3] = k}
           s == shown[r]
           L == Line(r)
<1>1. /\ Parts(s, queue[r], ready) /\ L \in Seq(Marks) /\ r \in Requests
      /\ Len(L) = Len(s) + Len(queue[r]) + Len(ready) /\ sent[r] \in Nat
      /\ Len(s) \in Nat /\ Len(queue[r]) \in Nat /\ Len(ready) \in Nat
  BY LineParts
<1>2. Good(L, Len(s), r, sent[r], pub[r], thread[r], "answer")
  BY DEF Live, LineInv, StreamGood
<1>3. \A i \in 1..Len(s) : i \in 1..Len(L) /\ L[i] = s[i]
  BY StreamHeads
<1>4. \A i \in 1..Len(s) : s[i] \in Events /\ s[i][1] = r /\ Own(s[i], r) /\ s[i][3] \in Nat
  <2>1. \A i \in 1..Len(s) : s[i] \in Events /\ s[i][1] = r
    BY <1>1 DEF Parts, BusInv, QuietInv
  <2>2. \A i \in 1..Len(s) : Own(s[i], r)
    BY <2>1, OwnEvent
  <2>3. \A i \in 1..Len(s) : s[i][3] \in Nat
    BY <2>1 DEF Events
  <2> QED
    BY <2>1, <2>2, <2>3
<1>5. \A i, j \in 1..Len(s) : i < j =>
        s[i][3] # s[j][3] /\ (s[i][2] = s[j][2] => s[i][3] < s[j][3])
  BY <1>2, <1>3, <1>4 DEF Good, Ordered
<1>6. \A k \in 1..sent[r] : \E i \in 1..Len(s) : s[i][3] = k
  <2>1. thread[r] = "ended" /\ NoOwnAfter(L, Len(s), r)
    BY <1>2 DEF Good, Told
  <2>2. \A t \in Threads : pub[r][t].calls = <<>>
    BY <1>1, <2>1 DEF BusInv, PubInv
  <2>3. \A t \in Threads : ~Pends(pub[r], t, r)
    BY <2>2 DEF Pends, Listens
  <2> SUFFICES ASSUME NEW k \in 1..sent[r] PROVE \E i \in 1..Len(s) : s[i][3] = k
    OBVIOUS
  <2>4. PICK i \in 1..Len(L) : Own(L[i], r) /\ L[i][3] = k
    BY <1>2, <2>3 DEF Good, Covered
  <2>5. i \in 1..Len(s)
    <3> DEFINE n == Len(s)
               N == Len(L)
    <3>0. n \in Nat /\ N \in Nat
      <4>1. n \in Nat
        BY <1>1
      <4>2. L \in Seq(Marks)
        BY <1>1
      <4> HIDE DEF L
      <4> QED
        BY <4>1, <4>2
    <3>1. i \in 1..N /\ ~(i > n)
      BY <2>1, <2>4 DEF NoOwnAfter
    <3> HIDE DEF n, N
    <3>2. i \in 1..n
      BY <3>0, <3>1
    <3> QED
      BY <3>2 DEF n
  <2> QED
    BY <1>3, <2>4, <2>5
<1>7. DOMAIN s = 1..Len(s)
  BY <1>1 DEF Parts
<1> HIDE DEF L, s
<1>8. \A k : At(k) = {i \in 1..Len(s) : s[i][3] = k}
  BY <1>7 DEF s
<1> HIDE DEF At
<1>9. ASSUME NEW k \in 1..sent[r] PROVE Cardinality(At(k)) = 1
  <2>1. PICK i \in 1..Len(s) : s[i][3] = k
    BY <1>6
  <2>2. \A j \in 1..Len(s) : s[j][3] = k => j = i
    <3>1. \A j \in 1..Len(s) : j = i \/ j < i \/ i < j
      BY <1>1
    <3> QED
      BY <1>5, <2>1, <3>1
  <2>3. At(k) = {i}
    BY <1>8, <2>1, <2>2
  <2> QED
    BY <2>3, FS_Singleton
<1>10. ASSUME NEW k \in 1..sent[r], NEW n \in 1..sent[r], k < n, NEW i \in At(k), NEW j \in At(n),
              s[i][2] = s[j][2]
       PROVE  i < j
  <2>1. i \in 1..Len(s) /\ j \in 1..Len(s) /\ s[i][3] = k /\ s[j][3] = n
    BY <1>8
  <2>2. i = j \/ j < i \/ i < j
    BY <1>1, <2>1
  <2>3. ~(n < k) /\ n # k /\ k \in Nat /\ n \in Nat
    BY <1>1, <1>10
  <2>4. ~(j < i)
    BY <1>5, <1>10, <2>1, <2>3
  <2> QED
    BY <2>1, <2>2, <2>3, <2>4
<1> QED
  BY <1>9, <1>10 DEF At, s

-----------------------------------------------------------------------------
(* The agent's model and the threads.                                       *)

LEMMA ModelKept ==
    ASSUME BridgeTyped, ModelTyped, StreamNext PROVE ModelTyped'
<1>1. ASSUME NEW r \in Requests, NEW m \in Asked, OpenStream(r, m) \/ HandleAgent(r, m)
      PROVE  ModelTyped'
  <2>1. /\ wants' = [wants EXCEPT ![r] = m] /\ UNCHANGED <<saved, model>>
        /\ \E s \in {"queued", "save"} : thread' = [thread EXCEPT ![r] = s]
    BY <1>1 DEF OpenStream, HandleAgent
  <2> QED
    BY <2>1 DEF ModelTyped, BridgeTyped
<1>2. ASSUME NEW r \in Requests, TakeWorker(r) PROVE ModelTyped'
  BY <1>2 DEF TakeWorker, override, ModelTyped, BridgeTyped
<1>3. ASSUME NEW r \in Requests, SaveModel(r) PROVE ModelTyped'
  BY <1>3 DEF SaveModel, ModelTyped, BridgeTyped, Models
<1>4. ASSUME NEW r \in Requests, OverrideModel(r) PROVE ModelTyped'
  <2>1. /\ thread[r] = "override" /\ thread' = [thread EXCEPT ![r] = "run"]
        /\ model' = (IF wants[r] # NoModel THEN wants[r] ELSE model)
        /\ UNCHANGED <<wants, saved>>
    BY <1>4 DEF OverrideModel
  <2>2. wants[r] \in Asked \cup {NoModel}
    BY DEF ModelTyped
  <2>3. model' \in Models
    BY <2>1, <2>2 DEF ModelTyped, Models
  <2> QED
    BY <2>1, <2>3 DEF ModelTyped, BridgeTyped
<1>5. ASSUME NEW r \in Requests, EndRun(r) \/ EndHandled(r) PROVE ModelTyped'
  <2>1. /\ thread[r] = "run" /\ thread' = [thread EXCEPT ![r] = "ended"]
        /\ model' = saved[r] /\ UNCHANGED <<wants, saved>>
    BY <1>5 DEF EndRun, EndHandled
  <2> QED
    BY <2>1 DEF ModelTyped, BridgeTyped
<1>6. ASSUME UNCHANGED <<thread, wants, saved, model>> PROVE ModelTyped'
  BY <1>6 DEF ModelTyped
<1>7. ASSUME NEW r \in Requests, NEW t \in Threads, Publish(r, t) \/ CallListener(r, t)
      PROVE  ModelTyped'
  <2>1. UNCHANGED <<thread, wants, saved, model>>
    BY <1>7 DEF Publish, CallListener, override
  <2> QED
    BY <1>6, <2>1
<1>8. ASSUME NEW r \in Streams, Generator(r) \/ Disconnect(r) PROVE ModelTyped'
  <2>1. UNCHANGED <<thread, wants, saved, model>>
    BY <1>8 DEF Generator, Take, Answer, Finalize, Disconnect, override
  <2> QED
    BY <1>6, <2>1
<1>9. ASSUME Handle PROVE ModelTyped'
  <2>1. UNCHANGED <<thread, wants, saved, model>>
    BY <1>9 DEF Handle, override
  <2> QED
    BY <1>6, <2>1
<1> QED
  BY <1>1, <1>2, <1>3, <1>4, <1>5, <1>7, <1>8, <1>9 DEF StreamNext, Arrive, ThreadStep

LEMMA CrewKept ==
    ASSUME BridgeTyped, Crew, StreamNext PROVE Crew'
<1> DEFINE Held == blocked = {} \/ \E r \in Requests \ Streams : blocked = {r}
           Few == IsFiniteSet(Running) /\ Cardinality(Running) <= Workers
<1>0. /\ Running = {r \in Streams : thread[r] \in {"save", "override", "run"}}
      /\ Running' = {r \in Streams : thread'[r] \in {"save", "override", "run"}}
      /\ Streams \subseteq Requests /\ Workers \in Nat
      /\ IsFiniteSet(Running) /\ Cardinality(Running) \in Nat /\ Cardinality(Running) <= Workers
  BY StreamConstants, FS_CardinalityType DEF Running, Crew
<1>1. ASSUME NEW r \in Requests,
             \A q \in Streams : thread'[q] \in {"save", "override", "run"} =>
                                  thread[q] \in {"save", "override", "run"}
      PROVE  Few'
  <2>1. Running' \subseteq Running
    BY <1>0, <1>1
  <2>2. IsFiniteSet(Running') /\ Cardinality(Running') <= Cardinality(Running)
    BY <1>0, <2>1, FS_Subset
  <2>3. Cardinality(Running') \in Nat
    BY <2>2, FS_CardinalityType
  <2> QED
    BY <1>0, <2>2, <2>3
<1> HIDE DEF Few
<1>2. ASSUME NEW r \in Requests, NEW m \in Asked, OpenStream(r, m) PROVE Crew'
  <2>1. blocked' = blocked /\ thread' = [thread EXCEPT ![r] = "queued"]
    BY <1>2 DEF OpenStream, loop
  <2>2. Few'
    BY <1>0, <1>1, <2>1 DEF BridgeTyped
  <2> QED
    BY <2>1, <2>2 DEF Crew, Few
<1>3. ASSUME NEW r \in Requests, NEW m \in Asked, HandleAgent(r, m) PROVE Crew'
  <2>1. r \in Requests \ Streams /\ blocked' = {r} /\ thread' = [thread EXCEPT ![r] = "save"]
    BY <1>3 DEF HandleAgent
  <2>2. Few'
    BY <1>0, <1>1, <2>1 DEF BridgeTyped
  <2> QED
    BY <2>1, <2>2 DEF Crew, Few
<1>4. ASSUME NEW r \in Requests, TakeWorker(r) PROVE Crew'
  <2>1. /\ blocked' = blocked /\ thread' = [thread EXCEPT ![r] = "save"]
        /\ Cardinality(Running) < Workers /\ thread[r] = "queued"
    BY <1>4 DEF TakeWorker, loop
  <2>2. CASE r \in Streams
    <3>1. Running' = Running \cup {r} /\ r \notin Running
      BY <1>0, <2>1, <2>2 DEF BridgeTyped
    <3>2. IsFiniteSet(Running') /\ Cardinality(Running') = Cardinality(Running) + 1
      BY <1>0, <3>1, FS_AddElement
    <3> QED
      BY <1>0, <2>1, <3>2 DEF Crew
  <2>3. CASE r \notin Streams
    <3>1. Few'
      BY <1>0, <1>1, <2>1, <2>3 DEF BridgeTyped
    <3> QED
      BY <2>1, <3>1 DEF Crew, Few
  <2> QED
    BY <2>2, <2>3
<1>5. ASSUME NEW r \in Requests, SaveModel(r) \/ OverrideModel(r) \/ EndRun(r) \/ EndHandled(r)
      PROVE  Crew'
  <2>1. /\ blocked' = blocked \/ blocked' = {}
        /\ thread[r] \in {"save", "override", "run"}
        /\ \E s \in {"override", "run", "ended"} : thread' = [thread EXCEPT ![r] = s]
    BY <1>5 DEF SaveModel, OverrideModel, EndRun, EndHandled, loop
  <2>2. Few'
    BY <1>0, <1>1, <2>1 DEF BridgeTyped
  <2> QED
    BY <2>1, <2>2 DEF Crew, Few
<1>6. ASSUME UNCHANGED <<thread, blocked>> PROVE Crew'
  BY <1>6 DEF Crew, Running
<1>7. ASSUME NEW r \in Requests, NEW t \in Threads, Publish(r, t) \/ CallListener(r, t) PROVE Crew'
  <2>1. UNCHANGED <<thread, blocked>>
    BY <1>7 DEF Publish, CallListener, loop
  <2> QED
    BY <1>6, <2>1
<1>8. ASSUME NEW r \in Streams, Generator(r) \/ Disconnect(r) PROVE Crew'
  <2>1. UNCHANGED <<thread, blocked>>
    BY <1>8 DEF Generator, Take, Answer, Finalize, Forget, Disconnect, loop
  <2> QED
    BY <1>6, <2>1
<1>9. ASSUME Handle PROVE Crew'
  <2>1. UNCHANGED <<thread, blocked>>
    BY <1>9 DEF Handle
  <2> QED
    BY <1>6, <2>1
<1> QED
  BY <1>2, <1>3, <1>4, <1>5, <1>7, <1>8, <1>9 DEF StreamNext, Arrive, ThreadStep

-----------------------------------------------------------------------------
(* The stream's invariant.                                                  *)

StreamInv == BridgeTyped /\ ModelTyped /\ Crew /\ BusInv /\ LineInv

LEMMA StreamStarts == ASSUME StreamInit PROVE StreamInv
<1>1. BridgeTyped
  <2>1. <<>> \in Seq(Streams) /\ <<>> \in Seq(Callbacks) /\ <<>> \in Seq(Events \cup {Done})
        /\ <<>> \in Seq(Events)
    OBVIOUS
  <2>2. Idle \in [event : Nat, calls : Seq(Streams)]
    BY <2>1 DEF Idle
  <2> QED
    BY <2>1, <2>2 DEF StreamInit, BridgeTyped
<1>2. ModelTyped
  BY DEF StreamInit, ModelTyped, Models
<1>3. Crew
  <2>1. Running = {}
    BY StreamConstants DEF StreamInit, Running
  <2> QED
    BY <2>1, FS_EmptySet, StreamConstants DEF StreamInit, Crew
<1>4. BusInv
  <2>1. DOMAIN <<>> = {} /\ Len(<<>>) = 0
    OBVIOUS
  <2>2. \A r : ~Listens(<<>>, r)
    BY <2>1 DEF Listens
  <2>3. Distinct(<<>>)
    BY <2>1 DEF Distinct
  <2>4. SubsInv
    BY <2>2, <2>3, StreamConstants DEF StreamInit, SubsInv, Registered
  <2>5. PubInv
    BY <2>2, <2>3 DEF StreamInit, PubInv, Idle
  <2>6. QuietInv
    BY <2>1, StreamConstants DEF StreamInit, QuietInv
  <2> QED
    BY <2>4, <2>5, <2>6 DEF BusInv
<1>5. LineInv
  BY StreamConstants DEF StreamInit, LineInv, Live
<1> QED
  BY <1>1, <1>2, <1>3, <1>4, <1>5 DEF StreamInv

LEMMA StreamMoves == ASSUME StreamInv, StreamNext PROVE StreamInv'
<1> USE DEF StreamInv
<1>1. ModelTyped' /\ Crew'
  BY ModelKept, CrewKept
<1>2. CASE Handle
  BY <1>1, <1>2, HandleTyped, HandleBus, HandleLine
<1>3. ASSUME NEW r \in Requests, Arrive(r) PROVE StreamInv'
  <2>1. BridgeTyped'
    BY <1>3, ArriveTyped
  <2>2. ASSUME NEW m \in Asked, OpenStream(r, m) PROVE BusInv' /\ LineInv'
    BY <2>2, OpenBus, OpenLine
  <2>3. ASSUME NEW m \in Asked, HandleAgent(r, m) PROVE BusInv' /\ LineInv'
    BY <2>3, HandleAgentBus, ThreadLine
  <2> QED
    BY <1>1, <1>3, <2>1, <2>2, <2>3 DEF Arrive
<1>4. ASSUME NEW r \in Requests, TakeWorker(r) \/ SaveModel(r) \/ OverrideModel(r) \/ EndHandled(r)
      PROVE  StreamInv'
  BY <1>1, <1>4, ThreadTyped, ThreadBus, ThreadLine
<1>5. ASSUME NEW r \in Requests, EndRun(r) PROVE StreamInv'
  BY <1>1, <1>5, EndRunTyped, EndRunBus, EndRunLine
<1>6. ASSUME NEW r \in Requests, NEW t \in Threads, Publish(r, t) PROVE StreamInv'
  BY <1>1, <1>6, PublishTyped, PublishBus, PublishLine
<1>7. ASSUME NEW r \in Requests, NEW t \in Threads, CallListener(r, t) PROVE StreamInv'
  <2>1. pub[r][t].event > 0
    BY <1>7 DEF CallListener, BusInv, PubInv, BridgeTyped
  <2> QED
    BY <1>1, <1>7, <2>1, CallTyped, CallBus, CallLine
<1>8. ASSUME NEW r \in Streams, Take(r) PROVE StreamInv'
  <2>1. BridgeTyped'
    BY <1>8, GeneratorTyped DEF Generator
  <2> QED
    BY <1>1, <1>8, <2>1, TakeBus, TakeLine
<1>9. ASSUME NEW r \in Streams, Answer(r) \/ Finalize(r) PROVE StreamInv'
  <2>1. BridgeTyped'
    BY <1>9, GeneratorTyped DEF Generator
  <2> QED
    BY <1>1, <1>9, <2>1, LeaveBus, LeaveLine
<1>10. ASSUME NEW r \in Streams, Disconnect(r) PROVE StreamInv'
  BY <1>1, <1>10, GeneratorTyped, DisconnectBus, LeaveLine
<1> HIDE DEF StreamInv
<1> QED
  BY <1>2, <1>3, <1>4, <1>5, <1>6, <1>7, <1>8, <1>9, <1>10 DEF StreamNext, ThreadStep, Generator

LEMMA StreamStutters == ASSUME StreamInv, UNCHANGED streamVars PROVE StreamInv'
<1>1. UNCHANGED <<gen, thread, wants, saved, model, sent, pub, subs, blocked, ready, queue, shown>>
  BY DEF streamVars, override, bus, loop
<1>2. BridgeTyped' /\ ModelTyped' /\ Crew'
  BY <1>1 DEF StreamInv, BridgeTyped, ModelTyped, Crew, Running
<1>3. BusInv'
  BY <1>1 DEF StreamInv, BusInv, SubsInv, PubInv, QuietInv
<1>4. LineInv'
  BY <1>1 DEF StreamInv, LineInv, Live, StreamGood, Line
<1> QED
  BY <1>2, <1>3, <1>4 DEF StreamInv

\* The stream's invariant holds in every state that is reached.
LEMMA StreamInvariant == StreamSpec => []StreamInv
<1>1. StreamInit => StreamInv
  BY StreamStarts
<1>2. StreamInv /\ [StreamNext]_streamVars => StreamInv'
  BY StreamMoves, StreamStutters
<1> QED
  BY <1>1, <1>2, PTL DEF StreamSpec

\* The state of the requests, their threads, the bus and the loop is typed; one
\* plain request holds the loop and no more runs have a thread than there are workers.
THEOREM StreamTypeCorrect == StreamSpec => []StreamTypeOK
<1>1. StreamInv => StreamTypeOK
  <2> SUFFICES ASSUME StreamInv PROVE StreamTypeOK
    OBVIOUS
  <2>1. blocked \subseteq Requests \ Streams /\ Cardinality(blocked) <= 1
    <3>1. CASE blocked = {}
      BY <3>1, FS_EmptySet
    <3>2. ASSUME NEW r \in Requests \ Streams, blocked = {r}
          PROVE  blocked \subseteq Requests \ Streams /\ Cardinality(blocked) <= 1
      BY <3>2, FS_Singleton
    <3> QED
      BY <3>1, <3>2 DEF StreamInv, Crew
  <2> QED
    BY <2>1 DEF StreamInv, BridgeTyped, ModelTyped, Models, Crew, StreamTypeOK
<1> QED
  BY <1>1, StreamInvariant, PTL

\* A stream whose run is over and told has shown every event of it, once and in the
\* order of its thread.
THEOREM EventsShown == StreamSpec => []OwnEventsShown
<1>1. StreamInv => OwnEventsShown
  BY LineShown DEF StreamInv
<1> QED
  BY <1>1, StreamInvariant, PTL
==============================================================================
