----------------------------- MODULE AgentLoop -----------------------------
(***************************************************************************)
(* The tool-calling loop of the orchestrator agent (agents/orchestrator.py, *)
(* agents/_stubs.py) with its loop guard (agents/loop_guard.py, over the    *)
(* Rust guard or, where openjarvis_rust is not installed, over its Python   *)
(* fallback) and the tool executor (tools/_stubs.py).  One agent object     *)
(* serves all the requests of a server: its runs share the guard, which     *)
(* nobody resets.                                                           *)
(*                                                                         *)
(* Abstractions.  The model is free in what it answers.  A message keeps    *)
(* its role, the turn it belongs to and which answer it is.  The executor's *)
(* checks (name, JSON, boundary, capability, taint, confirmation) refuse a  *)
(* call or let it run.  Events and token counts are left out.  Stages 3 and *)
(* 4 of compress_context are left out: stage 2 leaves more than             *)
(* max_context_messages only when the system messages alone fill them.      *)
(* The Rust check holds the interpreter lock.  The Python one does not: its  *)
(* counters are read, written and read again by threads in between each     *)
(* other; the count a reason names is the one just compared, and a tool is  *)
(* added to the sequence and the pattern looked for in one step.            *)
(***************************************************************************)
EXTENDS Integers, Sequences, FiniteSets

CONSTANTS
    Runs,           \* run() calls on the agent, of one or several requests
    Tools, Args,
    MaxTurns,       \* max_turns
    MaxCalls,       \* bound: tool calls in one answer of the model
    MaxContext,     \* max_context_messages: 100 in the code
    MaxSystem,      \* bound: system messages of the conversation
    MaxHistory,     \* bound: other messages of the conversation
    Guards,         \* the guards there may be: "rust", "python"
    Window,         \* ping_pong_window: 6 in the code
    PollBudget,     \* poll_tool_budget: 5 in the code
    MaxContinuations \* max_continuations: 2 in the code

ASSUME LoopAssumption ==
    /\ Guards \subseteq {"rust", "python"}
    /\ {MaxTurns, MaxCalls} \subseteq Nat \ {0}
    /\ {MaxContext, MaxSystem, MaxHistory, Window, PollBudget, MaxContinuations}
         \subseteq Nat
    /\ MaxSystem < MaxContext
    /\ IsFiniteSet(Runs)

Sigs == Tools \X Args       \* a call as the guard sees it: tool name and arguments
Slots == 1..MaxCalls

VARIABLES
    mode,       \* of the agent: "structured", "sequential" or "parallel"
    guard,      \* whether _rust_impl is there: "rust" or "python"
    pc,         \* of a run: "off", "compose", "ask", "more", "tools", "done"
    turn,       \* turns
    msgs,       \* messages
    calls,      \* tool_calls of the turn
    work,       \* where each of them is
    cycle,      \* the reason the guard gave for it
    read,       \* what the Python guard has read of a counter for it
    asked,      \* continuations asked for
    counts,     \* guard: _call_counts, or 1 for the seen_hashes
    uses,       \* guard: _per_tool_counts
    recent,     \* guard: recent_calls or _tool_sequence
    polls,      \* guard: poll_count
    warned,     \* guard: _warned_cycles
    passed,     \* history: how often a call was let through, per signature
    excused     \* history: how often a reason was only warned of

tally == <<counts, uses, recent, polls>>
agent == <<mode, guard, tally, warned, passed, excused>>
run == <<pc, turn, msgs, calls, work, cycle, read, asked>>
vars == <<agent, run>>

-----------------------------------------------------------------------------
(* Messages.                                                               *)

\* turn 0 is the conversation so far; n is the number of calls of an assistant
\* message and the index of a tool result; cut: "[Tool result truncated]".
Msg(role, t, n) == [role |-> role, turn |-> t, n |-> n, cut |-> FALSE]
Copies(m, k) == [i \in 1..k |-> m]
Last(s, k) == IF k >= Len(s) THEN s ELSE SubSeq(s, Len(s) - k + 1, Len(s))
Roles == {"system", "user", "assistant", "tool"}

\* [m for m in s if m.role in roles]
WithRole(s, roles) ==
    LET kept[i \in 0..Len(s)] ==
          IF i = 0 THEN <<>>
          ELSE IF s[i].role \in roles THEN Append(kept[i - 1], s[i]) ELSE kept[i - 1]
    IN  kept[Len(s)]

\* Stage 1 truncates the tool results of the older half.
Truncated(s) ==
    [i \in DOMAIN s |-> IF i <= Len(s) \div 2 /\ s[i].role = "tool"
                        THEN [s[i] EXCEPT !.cut = TRUE] ELSE s[i]]

\* Mutated: the window is cut from the old end.
CompressOld(s) ==
    LET system == WithRole(s, {"system"})
        other == WithRole(s, Roles \ {"system"})
        window == MaxContext - Len(system)
    IN  IF Len(s) <= MaxContext THEN s
        ELSE system \o SubSeq(other, 1, IF window < Len(other) THEN window ELSE Len(other))

\* Stage 2 keeps the system messages and a window of the most recent other ones.
Compress(s) ==
    LET system == WithRole(Truncated(s), {"system"})
        other == WithRole(Truncated(s), Roles \ {"system"})
    IN  IF Len(s) <= MaxContext THEN s
        ELSE system \o Last(other, MaxContext - Len(system))

-----------------------------------------------------------------------------
(* The guard.                                                              *)

\* The reasons it gives.  The Rust guard names its count of the calls over the
\* budget, the Python one how often a call was repeated.
NoCycle == <<>>
Identical(tool) == <<"identical", tool>>
Between(t1, t2) == <<"pingpong", t1, t2>>
OverBudget(n) == <<"poll", n>>
Repeated(tool, n) == <<"repeated", tool, n>>
OverUsed(tool) == <<"overused", tool>>
Pattern == <<"pattern">>

Reasons(Counts) ==
    {NoCycle, Pattern}
      \cup {Identical(t) : t \in Tools} \cup {OverUsed(t) : t \in Tools}
      \cup {Between(t[1], t[2]) : t \in Tools \X Tools}
      \cup {OverBudget(n) : n \in Counts}
      \cup {Repeated(t[1], t[2]) : t \in Tools \X Counts}

MaxPingPong == IF Window > 1 THEN Window \div 2 ELSE 2
MaxRecent == 2 * (IF guard = "rust" THEN MaxPingPong ELSE Window)

\* The last calls with one more tool.
Pushed(tool) == Last(Append(recent, tool), MaxRecent)

\* Rust: the last four are A, B, A, B.
PingPong(s) ==
    /\ Len(s) >= 4
    /\ s[Len(s)] = s[Len(s) - 2]
    /\ s[Len(s) - 1] = s[Len(s) - 3]
    /\ s[Len(s)] # s[Len(s) - 1]

\* Python: they repeat with period 2 or 3, also when it is one tool.
Repeats(s) ==
    /\ Len(s) >= Window
    /\ \E period \in {2, 3} :
         /\ Len(s) >= 2 * period
         /\ \A k \in 0..(period - 1) : s[Len(s) - k] = s[Len(s) - k - period]

\* The Rust check of a call.
Check(sig, reason) ==
    \/ /\ counts[sig] > 0
       /\ reason = Identical(sig[1])
       /\ UNCHANGED tally
    \/ /\ counts[sig] = 0
       /\ counts' = [counts EXCEPT ![sig] = 1]
       /\ recent' = Pushed(sig[1])
       /\ LET s == recent' IN
          \/ /\ PingPong(s)
             /\ reason = Between(s[Len(s)], s[Len(s) - 1])
             /\ UNCHANGED polls
          \/ /\ ~PingPong(s)
             /\ polls' = polls + 1
             /\ reason = IF polls' > PollBudget THEN OverBudget(polls') ELSE NoCycle
       /\ UNCHANGED uses

Init ==
    /\ mode \in {"structured", "sequential", "parallel"}
    /\ guard \in Guards
    /\ pc = [r \in Runs |-> "off"]
    /\ turn = [r \in Runs |-> 0]
    /\ msgs = [r \in Runs |-> <<>>]
    /\ calls = [r \in Runs |-> <<>>]
    /\ work = [r \in Runs |-> [i \in Slots |-> "none"]]
    /\ cycle = [r \in Runs |-> [i \in Slots |-> NoCycle]]
    /\ read = [r \in Runs |-> [i \in Slots |-> 0]]
    /\ asked = [r \in Runs |-> 0]
    /\ counts = [s \in Sigs |-> 0]
    /\ uses = [t \in Tools |-> 0]
    /\ recent = <<>>
    /\ polls = 0
    /\ warned = {}
    /\ passed = [s \in Sigs |-> 0]
    /\ excused = <<>>

-----------------------------------------------------------------------------
(* The loop.                                                               *)

\* _build_messages: the conversation, then the input.
Start(r) ==
    /\ pc[r] = "off"
    /\ \E s \in 0..MaxSystem, h \in 0..MaxHistory :
         msgs' = [msgs EXCEPT ![r] = Copies(Msg("system", 0, 0), s)
                                       \o Copies(Msg("user", 0, 0), h + 1)]
    /\ pc' = [pc EXCEPT ![r] = "compose"]
    /\ UNCHANGED <<agent, turn, calls, work, cycle, read, asked>>

\* A turn begins, or the turns are used up.
Compose(r) ==
    /\ pc[r] = "compose"
    /\ turn[r] < MaxTurns
    /\ turn' = [turn EXCEPT ![r] = @ + 1]
    /\ msgs' = [msgs EXCEPT ![r] = Compress(@)]
    /\ pc' = [pc EXCEPT ![r] = "ask"]
    /\ UNCHANGED <<agent, calls, work, cycle, read, asked>>

MaxTurnsExceeded(r) ==
    /\ pc[r] = "compose"
    /\ turn[r] = MaxTurns
    /\ pc' = [pc EXCEPT ![r] = "done"]
    /\ UNCHANGED <<agent, turn, msgs, calls, work, cycle, read, asked>>

\* The model answers without a tool call, or it has been asked to continue (its
\* tool calls are not looked at then): the run is over.
FinalAnswer(r) ==
    /\ pc[r] \in {"ask", "more"}
    /\ pc' = [pc EXCEPT ![r] = "done"]
    /\ UNCHANGED <<agent, turn, msgs, calls, work, cycle, read, asked>>

\* It stops for length (_check_continuation): it is asked to continue.
Continue(r) ==
    /\ pc[r] \in {"ask", "more"}
    /\ mode # "structured"
    /\ asked[r] < MaxContinuations
    /\ asked' = [asked EXCEPT ![r] = @ + 1]
    /\ msgs' = [msgs EXCEPT ![r] = @ \o <<Msg("assistant", turn[r], 0),
                                          Msg("user", turn[r], 0)>>]
    /\ pc' = [pc EXCEPT ![r] = "more"]
    /\ UNCHANGED <<agent, turn, calls, work, cycle, read>>

\* It calls tools.
CallTools(r, cs) ==
    /\ pc[r] = "ask"
    /\ mode = "structured" => Len(cs) = 1
    /\ pc' = [pc EXCEPT ![r] = "tools"]
    /\ calls' = [calls EXCEPT ![r] = cs]
    /\ work' = [work EXCEPT ![r] = [i \in Slots |-> IF i <= Len(cs) THEN "wait" ELSE "none"]]
    /\ cycle' = [cycle EXCEPT ![r] = [i \in Slots |-> NoCycle]]
    /\ msgs' = [msgs EXCEPT ![r] =
         Append(@, Msg("assistant", turn[r], IF mode = "structured" THEN 0 ELSE Len(cs)))]
    /\ UNCHANGED <<agent, turn, read, asked>>

-----------------------------------------------------------------------------
(* A call.  Parallel calls have a thread each, sequential ones take turns.  *)

Answered(r, i) == work[r][i] \in {"blocked", "answered"}

MayBegin(r, i) ==
    /\ pc[r] = "tools"
    /\ work[r][i] = "wait"
    /\ mode = "parallel" \/ \A j \in 1..(i - 1) : Answered(r, j)

Pass(sig) == passed' = [passed EXCEPT ![sig] = @ + 1]

\* The structured loop does not ask the guard.
Unguarded(r, i) ==
    /\ mode = "structured"
    /\ MayBegin(r, i)
    /\ Pass(calls[r][i])
    /\ work' = [work EXCEPT ![r][i] = "running"]
    /\ UNCHANGED <<pc, turn, msgs, calls, cycle, read, asked, mode, guard, tally, warned, excused>>

\* The guard has nothing against a call: it goes to the executor.
Allow(r, i) ==
    /\ cycle' = [cycle EXCEPT ![r][i] = NoCycle]
    /\ Pass(calls[r][i])
    /\ work' = [work EXCEPT ![r][i] = "running"]

\* It has.
Object(r, i, reason) ==
    /\ cycle' = [cycle EXCEPT ![r][i] = reason]
    /\ work' = [work EXCEPT ![r][i] = "judged"]
    /\ UNCHANGED passed

\* check_call asks the Rust guard.
Judge(r, i) ==
    /\ mode # "structured"
    /\ guard = "rust"
    /\ MayBegin(r, i)
    /\ \E reason \in Reasons(0..(polls + 1)) :
         /\ Check(calls[r][i], reason)
         /\ IF reason = NoCycle THEN Allow(r, i) ELSE Object(r, i, reason)
    /\ UNCHANGED <<pc, turn, msgs, calls, read, asked, mode, guard, warned, excused>>

\* Or the Python guard: how often it has been called so far,
Look(r, i) ==
    /\ mode # "structured"
    /\ guard = "python"
    /\ MayBegin(r, i)
    /\ read' = [read EXCEPT ![r][i] = counts[calls[r][i]]]
    /\ work' = [work EXCEPT ![r][i] = "looked"]
    /\ UNCHANGED <<agent, pc, turn, msgs, calls, cycle, asked>>

\* once more,
Count(r, i) ==
    /\ work[r][i] = "looked"
    /\ counts' = [counts EXCEPT ![calls[r][i]] = read[r][i] + 1]
    /\ read' = [read EXCEPT ![r][i] = 0]
    /\ work' = [work EXCEPT ![r][i] = "counted"]
    /\ UNCHANGED <<pc, turn, msgs, calls, cycle, asked, mode, guard, uses, recent, polls,
                   warned, passed, excused>>

\* is it a repetition, and if not, how often has its tool been used,
Weigh(r, i) ==
    /\ work[r][i] = "counted"
    /\ LET tool == calls[r][i][1]
           n == counts[calls[r][i]]
       IN  \/ /\ n > 1
              /\ Object(r, i, Repeated(tool, n))
              /\ UNCHANGED read
           \/ /\ n <= 1
              /\ read' = [read EXCEPT ![r][i] = uses[tool]]
              /\ work' = [work EXCEPT ![r][i] = "weighed"]
              /\ UNCHANGED <<cycle, passed>>
    /\ UNCHANGED <<pc, turn, msgs, calls, asked, mode, guard, tally, warned, excused>>

\* once more,
Use(r, i) ==
    /\ work[r][i] = "weighed"
    /\ uses' = [uses EXCEPT ![calls[r][i][1]] = read[r][i] + 1]
    /\ read' = [read EXCEPT ![r][i] = 0]
    /\ work' = [work EXCEPT ![r][i] = "used"]
    /\ UNCHANGED <<pc, turn, msgs, calls, cycle, asked, mode, guard, counts, recent, polls,
                   warned, passed, excused>>

\* is that too often, and if not, is there a pattern.
Follow(r, i) ==
    /\ work[r][i] = "used"
    /\ LET tool == calls[r][i][1] IN
       \/ /\ uses[tool] > PollBudget
          /\ Object(r, i, OverUsed(tool))
          /\ UNCHANGED recent
       \/ /\ uses[tool] <= PollBudget
          /\ recent' = Pushed(tool)
          /\ IF Repeats(recent') THEN Object(r, i, Pattern) ELSE Allow(r, i)
    /\ UNCHANGED <<pc, turn, msgs, calls, read, asked, mode, guard, counts, uses, polls, warned,
                   excused>>

\* cycle_key in _warned_cycles: the call is blocked.
Block(r, i) ==
    /\ work[r][i] = "judged"
    /\ cycle[r][i] \in warned
    /\ work' = [work EXCEPT ![r][i] = "blocked"]
    /\ UNCHANGED <<agent, pc, turn, msgs, calls, cycle, read, asked>>

\* cycle_key not in _warned_cycles, seen before the key is added.
Spare(r, i) ==
    /\ work[r][i] = "judged"
    /\ cycle[r][i] \notin warned
    /\ work' = [work EXCEPT ![r][i] = "spared"]
    /\ UNCHANGED <<agent, pc, turn, msgs, calls, cycle, read, asked>>

\* A call with this reason is let through.
Excuse(c) ==
    excused' = [k \in DOMAIN excused \cup {c} |->
                  (IF k \in DOMAIN excused THEN excused[k] ELSE 0) + (IF k = c THEN 1 ELSE 0)]

\* Mutated: the warning is not remembered.
WarnForgets(r, i) ==
    /\ work[r][i] = "spared"
    /\ Excuse(cycle[r][i])
    /\ Pass(calls[r][i])
    /\ work' = [work EXCEPT ![r][i] = "running"]
    /\ UNCHANGED <<pc, turn, msgs, calls, cycle, read, asked, mode, guard, tally, warned>>

\* The key is added and the call goes to the executor with a warning.
Warn(r, i) ==
    /\ work[r][i] = "spared"
    /\ warned' = warned \cup {cycle[r][i]}
    /\ Excuse(cycle[r][i])
    /\ Pass(calls[r][i])
    /\ work' = [work EXCEPT ![r][i] = "running"]
    /\ UNCHANGED <<pc, turn, msgs, calls, cycle, read, asked, mode, guard, tally>>

\* execute returns: refused, or with what the tool returned or raised, or timed
\* out.  After a timeout it still waits for the tool, whose pool it leaves.
Return(r, i) ==
    /\ work[r][i] = "running"
    /\ work' = [work EXCEPT ![r][i] = "answered"]
    /\ UNCHANGED <<agent, pc, turn, msgs, calls, cycle, read, asked>>

\* Mutated: a blocked call is skipped without a result.
EndTurnSkips(r) ==
    /\ pc[r] = "tools"
    /\ \A i \in DOMAIN calls[r] : Answered(r, i)
    /\ LET Ran(m) == work[r][m.n] = "answered"
           answers == [i \in DOMAIN calls[r] |-> Msg("tool", turn[r], i)]
       IN msgs' = [msgs EXCEPT ![r] = @ \o
            IF mode = "structured" THEN <<Msg("user", turn[r], 0)>>
            ELSE SelectSeq(answers, Ran)]
    /\ pc' = [pc EXCEPT ![r] = "compose"]
    /\ work' = [work EXCEPT ![r] = [i \in Slots |-> "none"]]
    /\ UNCHANGED <<agent, turn, calls, cycle, read, asked>>

\* Mutated: a result is awaited for the blocked calls too.
EndTurnWaits(r) ==
    /\ pc[r] = "tools"
    /\ \A i \in DOMAIN calls[r] : work[r][i] = "answered"
    /\ msgs' = [msgs EXCEPT ![r] = @ \o
         IF mode = "structured" THEN <<Msg("user", turn[r], 0)>>
         ELSE [i \in DOMAIN calls[r] |-> Msg("tool", turn[r], i)]]
    /\ pc' = [pc EXCEPT ![r] = "compose"]
    /\ work' = [work EXCEPT ![r] = [i \in Slots |-> "none"]]
    /\ UNCHANGED <<agent, turn, calls, cycle, read, asked>>

\* Every call has a result: they are appended in the order of the calls, whatever
\* order they came in.  The structured loop appends an observation instead.
EndTurn(r) ==
    /\ pc[r] = "tools"
    /\ \A i \in DOMAIN calls[r] : Answered(r, i)
    /\ msgs' = [msgs EXCEPT ![r] = @ \o
         IF mode = "structured" THEN <<Msg("user", turn[r], 0)>>
         ELSE [i \in DOMAIN calls[r] |-> Msg("tool", turn[r], i)]]
    /\ pc' = [pc EXCEPT ![r] = "compose"]
    /\ work' = [work EXCEPT ![r] = [i \in Slots |-> "none"]]
    /\ UNCHANGED <<agent, turn, calls, cycle, read, asked>>

-----------------------------------------------------------------------------
CallLists == UNION {[1..k -> Sigs] : k \in 1..MaxCalls}

Loop(r) ==
    \/ Compose(r) \/ MaxTurnsExceeded(r) \/ EndTurn(r)
    \/ \E i \in Slots :
         \/ Unguarded(r, i) \/ Judge(r, i)
         \/ Look(r, i) \/ Count(r, i) \/ Weigh(r, i) \/ Use(r, i) \/ Follow(r, i)
         \/ Block(r, i) \/ Spare(r, i) \/ Warn(r, i)

ModelReplies(r) ==
    FinalAnswer(r) \/ Continue(r) \/ \E cs \in CallLists : CallTools(r, cs)

ToolReturns(r) == \E i \in Slots : Return(r, i)

Next == \E r \in Runs : Start(r) \/ Loop(r) \/ ModelReplies(r) \/ ToolReturns(r)

Spec == Init /\ [][Next]_vars

\* The run's threads go on, and model and tools answer.
FairSpec ==
    /\ Spec
    /\ \A r \in Runs : WF_vars(Loop(r)) /\ WF_vars(ModelReplies(r)) /\ WF_vars(ToolReturns(r))

-----------------------------------------------------------------------------
(* Properties.                                                             *)

Messages == [role : Roles, turn : 0..MaxTurns, n : 0..MaxCalls, cut : BOOLEAN]
Works == {"none", "wait", "looked", "counted", "weighed", "used", "judged", "spared", "running",
          "blocked", "answered"}

TypeOK ==
    /\ mode \in {"structured", "sequential", "parallel"}
    /\ pc \in [Runs -> {"off", "compose", "ask", "more", "tools", "done"}]
    /\ turn \in [Runs -> 0..MaxTurns]
    /\ \A r \in Runs : msgs[r] \in Seq(Messages) /\ calls[r] \in Seq(Sigs)
    /\ work \in [Runs -> [Slots -> Works]]
    /\ cycle \in [Runs -> [Slots -> Reasons(Nat)]]
    /\ read \in [Runs -> [Slots -> Nat]]
    /\ guard \in Guards
    /\ asked \in [Runs -> 0..MaxContinuations]
    /\ counts \in [Sigs -> Nat]
    /\ uses \in [Tools -> Nat]
    /\ recent \in Seq(Tools) /\ Len(recent) <= MaxRecent
    /\ polls \in Nat
    /\ warned \subseteq Reasons(Nat)
    /\ passed \in [Sigs -> Nat]
    /\ excused \in [DOMAIN excused -> Nat \ {0}] /\ DOMAIN excused \subseteq Reasons(Nat)

\* What the model is sent: every call it made has its result, directly behind it
\* and in the order of the calls, also when the guard blocked it, the executor
\* refused it or others finished first, and after the context was compressed.
CallsAnswered ==
    \A r \in Runs : pc[r] \in {"ask", "more"} =>
        \A i \in DOMAIN msgs[r] :
            LET m == msgs[r][i] IN
            m.role = "assistant" =>
                \A k \in 1..m.n :
                    /\ i + k \in DOMAIN msgs[r]
                    /\ msgs[r][i + k].role = "tool"
                    /\ msgs[r][i + k].turn = m.turn
                    /\ msgs[r][i + k].n = k

\* Compression never eats what the model has just asked for: the last turn's call
\* and its results close the prompt, untruncated, as long as they are at most half
\* of the context.  And the prompt fits.
LastTurnWhole ==
    \A r \in Runs : pc[r] = "ask" =>
        /\ Len(msgs[r]) <= MaxContext
        /\ turn[r] > 1 /\ mode # "structured" /\ 2 * Len(calls[r]) <= MaxContext
           /\ Len(calls[r]) + 1 <= MaxContext - MaxSystem =>
             LET n == Len(calls[r])
                 tail == Last(msgs[r], n + 1)
             IN  /\ tail[1] = Msg("assistant", turn[r] - 1, n)
                 /\ \A k \in 1..n : tail[k + 1] = Msg("tool", turn[r] - 1, k)

\* The calls of a run that are under way at the same time.
Width == IF mode = "parallel" THEN MaxCalls ELSE 1

Room == Cardinality(Runs) * Width

\* Warned once, then blocked (loop_guard.py:86-92), whichever guard gives the reasons: a
\* reason is only warned of while the first warning is under way, once per thread.  The
\* Rust guard gives every repetition of a call one reason, so that a call passes once
\* without and then as often; for the Python guard each repetition is a new reason, and
\* nothing bounds the calls.
IdenticalBounded ==
    mode # "structured" =>
        /\ \A c \in DOMAIN excused : excused[c] <= Room
        /\ guard = "rust" => \A s \in Sigs : passed[s] <= 1 + Room

\* Every run ends, as long as the model and the tools answer: the turns and the
\* continuations are bounded, and nobody waits for a call that was blocked.
RunEnds == \A r \in Runs : pc[r] = "compose" ~> pc[r] = "done"

Warnings(kind) == {c \in DOMAIN excused : c[1] = kind}

\* loop_guard.py:22, for the Rust guard's budget of calls: the first call over it is
\* warned of, the second is blocked.
PollBlocksSecond == Cardinality(Warnings("poll")) <= 1

\* loop_guard.py:22, for the Python guard: the first repetition of a call is warned of,
\* the second is blocked.
RepeatBlocksSecond ==
    \A t \in Tools : Cardinality({c \in Warnings("repeated") : c[2] = t}) <= 1
=============================================================================
