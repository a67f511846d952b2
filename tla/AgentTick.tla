------------------------------ MODULE AgentTick ------------------------------
(***************************************************************************)
(* The life of one managed agent: its row in the managed_agents table and  *)
(* its message queue (agents/manager.py), the ticks that run it            *)
(* (agents/executor.py) and everything that may start, stop or recover a   *)
(* tick at the same time: the scheduler thread (agents/scheduler.py), the  *)
(* /run and message requests of the API server                             *)
(* (server/agent_manager_routes.py), `jarvis agents run` processes and the *)
(* operator's commands (cli/agent_cmd.py).                                 *)
(*                                                                         *)
(* The row is shared by threads and processes and every SQL statement      *)
(* commits on its own, so one action is one statement or one decision      *)
(* taken from a row read earlier.  Agents do not share rows: the module    *)
(* describes one of them.                                                  *)
(***************************************************************************)
EXTENDS Naturals

CONSTANTS
    Posts,            \* POST /run requests of the API server
    Immediates,       \* immediate, non-streaming messages to the API server
    Streams,          \* messages whose answer is streamed, which take no tick
    Clis,             \* `jarvis agents run` processes
    Sched,            \* the scheduler thread
    Messages,         \* messages the user may send to the agent
    Scheduled,        \* TRUE iff the schedule is cron or interval, not manual
    Host,             \* who hosts Sched: "server" (serve.py) or "daemon"
    MaxRetries,       \* executor._MAX_RETRIES
    Budget,           \* max_tokens, in ticks (0: unlimited)
    MaxStallRetries,  \* max_stall_retries
    StallTimeout,     \* TRUE iff timeout_seconds > 0
    Env               \* what the environment may do, a subset of EnvKinds

Senders == Immediates \cup Streams
Threads == Posts \cup Senders \cup {Sched}      \* die with the host process
Workers == Threads \cup Clis

EnvKinds == {"operator", "silence", "crash", "failure", "interrupt", "unguarded"}

ASSUME ConstantsAssumption ==
    /\ Scheduled \in BOOLEAN
    /\ Host \in {"server", "daemon"}
    /\ MaxRetries \in Nat \ {0}
    /\ Budget \in Nat
    /\ MaxStallRetries \in Nat
    /\ StallTimeout \in BOOLEAN
    /\ Env \subseteq EnvKinds

ASSUME WorkersAssumption ==
    /\ Immediates \cap Streams = {} /\ Posts \cap Senders = {}
    /\ Clis \cap (Posts \cup Senders) = {}
    /\ Sched \notin Posts \cup Senders \cup Clis

VARIABLES
    status,      \* managed_agents.status
    fresh,       \* updated_at is younger than _STALE_TICK_SECONDS
    activity,    \* last_activity_at: never set, within the timeout, or older
    spent,       \* total_tokens, in ticks
    stalls,      \* stall_retries
    msg,         \* agent_messages: status of each user_to_agent message
    up,          \* the process that hosts Threads is running
    registered,  \* the scheduler's _agents holds this agent
    due,         \* its next_fire has passed
    pc,          \* what each worker does next
    inbox,       \* messages the worker holds: its request's, then `pending`
    attempt,     \* the worker's retry counter
    seen,        \* stall_retries as _reconcile read it
    \* Observations, read by properties only:
    prompted,    \* messages that were part of a prompt
    answered,    \* messages in the prompt of a run that returned
    orphan,      \* a worker died, or left, between start_tick and end_tick
    held         \* the operator paused the agent and nobody resumed or ran it

row   == <<status, fresh, activity, spent, stalls>>
local == <<pc, inbox, attempt, seen>>
host  == <<up, registered, due>>
obs   == <<prompted, answered, orphan, held>>
vars  == <<row, msg, host, local, obs>>

Statuses == {"idle", "running", "paused", "archived", "error",
             "needs_attention", "budget_exceeded"}

Entering   == {"recover", "store", "start", "claim"}
Ticking    == {"prompt", "deliver", "think",
               "endok", "endvoid", "endfail", "endescalate"}
Closing    == {"abort", "account", "settle",
               "overbudget", "markfail", "markescalate"}
Streaming  == {"history", "mark", "stream"}
SchedSteps == {"next", "release", "count", "giveup"}
Phases     == {"off"} \cup Entering \cup Ticking \cup Closing
                    \cup Streaming \cup SchedSteps

TypeOK ==
    /\ status \in Statuses
    /\ fresh \in BOOLEAN
    /\ activity \in {"none", "recent", "old"}
    /\ spent \in 0 .. Budget + 2
    /\ stalls \in 0 .. MaxStallRetries
    /\ msg \in [Messages -> {"unsent", "pending", "delivered"}]
    /\ up \in BOOLEAN /\ registered \in BOOLEAN /\ due \in BOOLEAN
    /\ pc \in [Workers -> Phases]
    /\ inbox \in [Workers -> SUBSET Messages]
    /\ attempt \in [Workers -> 1 .. MaxRetries]
    /\ seen \in 0 .. MaxStallRetries
    /\ prompted \in SUBSET Messages /\ answered \in SUBSET Messages
    /\ orphan \in BOOLEAN /\ held \in BOOLEAN

Init ==
    /\ status = "idle" /\ fresh = TRUE /\ activity = "none"
    /\ spent = 0 /\ stalls = 0
    /\ msg = [m \in Messages |-> "unsent"]
    /\ up = TRUE /\ registered = Scheduled /\ due = FALSE
    /\ pc = [w \in Workers |-> "off"]
    /\ inbox = [w \in Workers |-> {}]
    /\ attempt = [w \in Workers |-> 1]
    /\ seen = 0
    /\ prompted = {} /\ answered = {}
    /\ orphan = FALSE /\ held = FALSE

-----------------------------------------------------------------------------
(* One statement against the row.  Every one of them writes updated_at.    *)

Goto(w, phase) == pc' = [pc EXCEPT ![w] = phase]

Touch == fresh' = TRUE

\* The ownership that `orphan` records ends when the status leaves "running".
SetStatus(s) ==
    /\ status' = s
    /\ Touch
    /\ orphan' = FALSE
    /\ UNCHANGED <<activity, spent, stalls>>

\* What a worker does when its tick is over: the scheduler still has to move
\* next_fire, the others return.
Done(w) == IF w = Sched THEN "next" ELSE "off"

-----------------------------------------------------------------------------
(* How a tick is asked for.                                                *)

\* Mutated: a handler that awaits before it has the tick.
LoopAwaits == TRUE

\* Handlers of the API server are coroutines without an await between the
\* first read and start_tick's write: one of them runs at a time.
LoopFree ==
    /\ \A p \in Posts : pc[p] \notin Entering
    /\ \A s \in Senders : pc[s] \notin {"recover", "store", "history", "mark"}

AutoRecovered == {"error", "needs_attention"}

PostRun(w) ==
    /\ w \in Posts /\ up /\ pc[w] = "off" /\ LoopFree
    /\ status # "archived"
    /\ Goto(w, IF status \in AutoRecovered THEN "recover" ELSE "start")
    /\ held' = FALSE
    /\ UNCHANGED <<row, msg, host, inbox, attempt, seen,
                   prompted, answered, orphan>>

\* Messages nobody has sent or is about to send.
Unsent == {m \in Messages : msg[m] = "unsent"
                            /\ \A s \in Senders : m \notin inbox[s]}

\* A message in immediate mode, or one to be streamed in either mode: only the
\* immediate mode recovers the agent.
SendMessage(w) ==
    /\ w \in Senders /\ up /\ pc[w] = "off" /\ LoopFree
    /\ \E m \in Unsent : inbox' = [inbox EXCEPT ![w] = {m}]
    /\ \/ Goto(w, IF status \in AutoRecovered THEN "recover" ELSE "store")
       \/ w \in Streams /\ Goto(w, "store")
    /\ held' = FALSE
    /\ UNCHANGED <<row, msg, host, attempt, seen,
                   prompted, answered, orphan>>

\* update_agent(status="idle"), decided on the status read before.
AutoRecover(w) ==
    /\ pc[w] = "recover"
    /\ SetStatus("idle")
    /\ Goto(w, IF w \in Posts THEN "start" ELSE "store")
    /\ UNCHANGED <<msg, host, inbox, attempt, seen,
                   prompted, answered, held>>

\* The message is stored before its thread starts the tick, or its handler
\* the stream.
StoreMessage(w) ==
    /\ pc[w] = "store"
    /\ msg' = [m \in Messages |-> IF m \in inbox[w] THEN "pending" ELSE msg[m]]
    /\ inbox' = IF w \in Streams THEN inbox ELSE [inbox EXCEPT ![w] = {}]
    /\ Goto(w, IF w \in Streams THEN "history" ELSE "start")
    /\ UNCHANGED <<row, host, attempt, seen, obs>>

CliRun(w) ==
    /\ w \in Clis /\ pc[w] = "off"
    /\ status # "archived"
    /\ Goto(w, "start")
    /\ held' = FALSE
    /\ UNCHANGED <<row, msg, host, inbox, attempt, seen,
                   prompted, answered, orphan>>

\* Mutated: the scheduler forgets the budget; it forgives no error.
SkippedNoBudget == {"paused", "archived", "running"}
SkippedErrors   == {"paused", "archived", "running", "budget_exceeded", "error"}

\* _check_due_agents: the statuses it passes over leave next_fire alone.
Skipped == {"paused", "archived", "running", "budget_exceeded"}

Fire ==
    /\ up /\ registered /\ due /\ pc[Sched] = "off"
    /\ status \notin Skipped
    /\ Goto(Sched, "start")
    /\ UNCHANGED <<row, msg, host, inbox, attempt, seen, obs>>

-----------------------------------------------------------------------------
(* The tick: start_tick, the attempts and _finalize_tick.                  *)

\* start_tick, first half: get_agent and the refusal.  The route answers 409;
\* the executor returns, and the scheduler then moves next_fire.
StartTick(w) ==
    /\ pc[w] = "start"
    /\ Goto(w, IF status = "running" /\ fresh THEN Done(w) ELSE "claim")
    /\ UNCHANGED <<row, msg, host, inbox, attempt, seen, obs>>

\* start_tick, second half: whatever the row says by now, it says running.
Claim(w) ==
    /\ pc[w] = "claim"
    /\ SetStatus("running")
    /\ Goto(w, "prompt")
    /\ UNCHANGED <<msg, host, inbox, attempt, seen, prompted, answered, held>>

\* Mutated: the queue is read without its status.
ReadAll(w) ==
    /\ pc[w] = "prompt"
    /\ inbox' = [inbox EXCEPT ![w] = {m \in Messages : msg[m] # "unsent"}]
    /\ prompted' = prompted \cup inbox'[w]
    /\ Goto(w, "deliver")
    /\ UNCHANGED <<row, msg, host, attempt, seen,
                   answered, orphan, held>>

\* _invoke_agent: get_pending_messages, then mark_message_delivered for each,
\* then agent.run.
ReadPending(w) ==
    /\ pc[w] = "prompt"
    /\ inbox' = [inbox EXCEPT ![w] = {m \in Messages : msg[m] = "pending"}]
    /\ prompted' = prompted \cup inbox'[w]
    /\ Goto(w, "deliver")
    /\ UNCHANGED <<row, msg, host, attempt, seen,
                   answered, orphan, held>>

\* Mutated: one UPDATE marks the agent's whole queue, read or not.
MarkAllDelivered(w) ==
    /\ pc[w] = "deliver"
    /\ \E m \in Messages : msg[m] = "pending"
    /\ msg' = [m \in Messages |-> IF msg[m] = "pending" THEN "delivered"
                                                       ELSE msg[m]]
    /\ UNCHANGED <<row, host, local, obs>>

\* One message of the prompt after the other; marking one that another tick has
\* marked since changes nothing, so the loop may as well pass it over.
MarkDelivered(w) ==
    /\ pc[w] = "deliver"
    /\ \E m \in inbox[w] : /\ msg[m] = "pending"
                           /\ msg' = [msg EXCEPT ![m] = "delivered"]
    /\ UNCHANGED <<row, host, local, obs>>

\* _set_activity and agent.run, which sees the prompt and no queue.
StartRun(w) ==
    /\ pc[w] = "deliver"
    /\ \A m \in inbox[w] : msg[m] = "delivered"
    /\ Touch
    /\ Goto(w, "think")
    /\ UNCHANGED <<status, activity, spent, stalls, msg, host,
                   inbox, attempt, seen, obs>>

\* _on_activity writes the row when the event's "agent" is this agent:
\* TOOL_CALL_START carries it, INFERENCE_START does not and leaves no trace.
ToolCall(w) ==
    /\ pc[w] = "think"
    /\ activity' = "recent"
    /\ Touch
    /\ UNCHANGED <<status, spent, stalls, msg, host, local, obs>>

RunReturns(w) ==
    /\ pc[w] = "think"
    /\ answered' = answered \cup inbox[w]
    /\ Goto(w, "endok")
    /\ UNCHANGED <<row, msg, host, inbox, attempt, seen,
                   prompted, orphan, held>>

\* A retryable error, before the prompt, between its messages or in agent.run:
\* _run_with_retries invokes the agent anew, which reads the queue anew.
RunRetries(w) ==
    /\ "failure" \in Env
    /\ pc[w] \in {"prompt", "deliver", "think"} /\ attempt[w] < MaxRetries
    /\ attempt' = [attempt EXCEPT ![w] = @ + 1]
    /\ Goto(w, "prompt")
    /\ UNCHANGED <<row, msg, host, inbox, seen, obs>>

\* Mutated: an error that leaves execute_tick past its finally clause.
RunFailsUnfinalized(w) ==
    /\ "failure" \in Env
    /\ \/ pc[w] = "prompt" /\ Goto(w, Done(w))
       \/ pc[w] \in {"deliver", "think"} /\ Goto(w, "endfail")
    /\ UNCHANGED <<row, msg, host, inbox, attempt, seen, obs>>

\* A retryable error on the last attempt, a fatal one, an escalation; also
\* the exception handler of the /run thread, which does what _finalize_tick
\* does for an error.
RunFails(w) ==
    /\ "failure" \in Env
    /\ \/ pc[w] \in {"prompt", "deliver", "think"} /\ Goto(w, "endfail")
       \/ pc[w] = "think" /\ Goto(w, "endescalate")
    /\ UNCHANGED <<row, msg, host, inbox, attempt, seen, obs>>

\* Ctrl-C in a CLI run is no Exception: the finally clause of execute_tick
\* finalizes with neither a result nor an error.
Interrupted(w) ==
    /\ "interrupt" \in Env
    /\ w \in Clis /\ pc[w] = "think"
    /\ Goto(w, "endvoid")
    /\ UNCHANGED <<row, msg, host, inbox, attempt, seen, obs>>

\* The thread of an immediate message builds its system before execute_tick
\* and answers an exception with end_tick and status error: a tick it never
\* asked for.
SetupFails(w) ==
    /\ "failure" \in Env
    /\ w \in Immediates /\ pc[w] = "start"
    /\ Goto(w, "abort")
    /\ UNCHANGED <<row, msg, host, inbox, attempt, seen, obs>>

AfterEnd == [endok |-> "account", endvoid |-> "settle", abort |-> "markfail",
             endfail |-> "markfail", endescalate |-> "markescalate"]

\* _finalize_tick begins with end_tick, which asks nobody whose tick it was.
EndTick(w) ==
    /\ pc[w] \in DOMAIN AfterEnd
    /\ SetStatus("idle")
    /\ Goto(w, AfterEnd[pc[w]])
    /\ inbox' = [inbox EXCEPT ![w] = {}]
    /\ attempt' = [attempt EXCEPT ![w] = 1]
    /\ UNCHANGED <<msg, host, seen, prompted, answered, held>>

\* Success: total_tokens grows, stall_retries is reset.  The count matters to
\* the budget only and stops two ticks above it.
Account(w) ==
    /\ pc[w] = "account"
    /\ spent' = IF Budget > 0 /\ spent < Budget + 2 THEN spent + 1 ELSE spent
    /\ stalls' = 0
    /\ Touch
    /\ Goto(w, "settle")
    /\ UNCHANGED <<status, activity, msg, host, inbox, attempt, seen, obs>>

\* The post-tick budget check, on a row read for it.
SettleBudget(w) ==
    /\ pc[w] = "settle"
    /\ Goto(w, IF Budget > 0 /\ spent > Budget THEN "overbudget" ELSE Done(w))
    /\ UNCHANGED <<row, msg, host, inbox, attempt, seen, obs>>

Outcome == [overbudget |-> "budget_exceeded", markfail |-> "error",
            markescalate |-> "needs_attention"]

\* The status write that follows end_tick, whatever happened in between.
MarkOutcome(w) ==
    /\ pc[w] \in DOMAIN Outcome
    /\ SetStatus(Outcome[pc[w]])
    /\ Goto(w, Done(w))
    /\ UNCHANGED <<msg, host, inbox, attempt, seen,
                   prompted, answered, held>>

-----------------------------------------------------------------------------
(* The streamed message: the handler builds the conversation, marks its      *)
(* message and runs the engine and the tools itself, with no tick and        *)
(* nothing written to the row.                                               *)

\* No engine, or dangerous tools that are not allowed: the handler raises, and
\* its message waits for the next tick.
RefuseStream(w) ==
    /\ "failure" \in Env
    /\ pc[w] = "history"
    /\ inbox' = [inbox EXCEPT ![w] = {}]
    /\ Goto(w, "off")
    /\ UNCHANGED <<row, msg, host, attempt, seen, obs>>

\* Mutated: the request's own message, which the history passes over, is not
\* appended to it.
ReadOthers(w) ==
    /\ pc[w] = "history"
    /\ prompted' = prompted \cup {m \in Messages \ inbox[w] : msg[m] # "unsent"}
    /\ Goto(w, "mark")
    /\ UNCHANGED <<row, msg, host, inbox, attempt, seen,
                   answered, orphan, held>>

\* list_messages and _replay_history_messages: the messages of the user that
\* are stored, pending ones too, and the request's own; a deep_research agent is
\* asked that one alone.
ReadHistory(w) ==
    /\ pc[w] = "history"
    /\ \E told \in {inbox[w], {m \in Messages : msg[m] # "unsent"}} :
          prompted' = prompted \cup told
    /\ Goto(w, "mark")
    /\ UNCHANGED <<row, msg, host, inbox, attempt, seen,
                   answered, orphan, held>>

MarkStreamed(w) ==
    /\ pc[w] = "mark"
    /\ msg' = [m \in Messages |-> IF m \in inbox[w] THEN "delivered" ELSE msg[m]]
    /\ Goto(w, "stream")
    /\ UNCHANGED <<row, host, inbox, attempt, seen, obs>>

\* The response with its rounds of tools, whose events carry no agent; or an
\* error of the engine, or a client that went away, which answer nothing.
EndStream(w) ==
    /\ pc[w] = "stream"
    /\ answered' \in {answered, answered \cup inbox[w]}
    /\ inbox' = [inbox EXCEPT ![w] = {}]
    /\ Goto(w, "off")
    /\ UNCHANGED <<row, msg, host, attempt, seen, prompted, orphan, held>>

-----------------------------------------------------------------------------
(* The scheduler thread between ticks.                                     *)

\* After execute_tick, whether it ran or refused.
MoveNextFire ==
    /\ pc[Sched] = "next"
    /\ due' = FALSE
    /\ Goto(Sched, "off")
    /\ UNCHANGED <<row, msg, up, registered, inbox, attempt, seen, obs>>

\* _reconcile reads the row and decides; its writes follow.
Reconcile ==
    /\ up /\ pc[Sched] = "off"
    /\ status = "running" /\ StallTimeout /\ activity = "old"
    /\ seen' = stalls
    /\ Goto(Sched, IF stalls >= MaxStallRetries THEN "giveup" ELSE "release")
    /\ UNCHANGED <<row, msg, host, inbox, attempt, obs>>

ReleaseStalled ==
    /\ pc[Sched] = "release"
    /\ SetStatus("idle")
    /\ Goto(Sched, "count")
    /\ UNCHANGED <<msg, host, inbox, attempt, seen,
                   prompted, answered, held>>

CountStall ==
    /\ pc[Sched] = "count"
    /\ stalls' = seen + 1
    /\ Touch
    /\ seen' = 0
    /\ Goto(Sched, "off")
    /\ UNCHANGED <<status, activity, spent, msg, host, inbox, attempt, obs>>

GiveUpStalled ==
    /\ pc[Sched] = "giveup"
    /\ SetStatus("error")
    /\ seen' = 0
    /\ Goto(Sched, "off")
    /\ UNCHANGED <<msg, host, inbox, attempt,
                   prompted, answered, held>>

-----------------------------------------------------------------------------
(* The operator, time and failures.                                        *)

Queue(m) ==
    /\ m \in Unsent
    /\ msg' = [msg EXCEPT ![m] = "pending"]
    /\ UNCHANGED <<row, host, local, obs>>

\* pause_agent, resume_agent, delete_agent and recover_agent are one
\* unconditional status write each.
Operate(s) ==
    /\ "operator" \in Env
    /\ SetStatus(s)
    /\ held' = (s = "paused")
    /\ UNCHANGED <<msg, host, local, prompted, answered>>

Pause  == Operate("paused")
Delete == Operate("archived")
Resume == Operate("idle")       \* and recover_agent

\* _STALE_TICK_SECONDS without a write to the row.  Only start_tick asks, and
\* only of a running row; every status write renews updated_at.
Silence ==
    /\ "silence" \in Env /\ status = "running"
    /\ fresh /\ fresh' = FALSE
    /\ UNCHANGED <<status, activity, spent, stalls, msg, host, local, obs>>

\* timeout_seconds without a tool call.
Quiet ==
    /\ activity = "recent" /\ activity' = "old"
    /\ UNCHANGED <<status, fresh, spent, stalls, msg, host, local,
                   prompted, answered, orphan, held>>

BecomeDue ==
    /\ registered /\ ~due /\ due' = TRUE
    /\ UNCHANGED <<row, msg, up, registered, local, obs>>

Dead(ws) ==
    /\ pc' = [w \in Workers |-> IF w \in ws THEN "off" ELSE pc[w]]
    /\ inbox' = [w \in Workers |-> IF w \in ws THEN {} ELSE inbox[w]]
    /\ attempt' = [w \in Workers |-> IF w \in ws THEN 1 ELSE attempt[w]]
    /\ orphan' = (orphan \/ \E w \in ws : pc[w] \in Ticking)

HostCrash ==
    /\ "crash" \in Env
    /\ up /\ up' = FALSE
    /\ Dead(Threads)
    /\ seen' = 0
    /\ UNCHANGED <<row, msg, registered, due,
                   prompted, answered, held>>

CliCrash(w) ==
    /\ "crash" \in Env
    /\ w \in Clis /\ pc[w] # "off"
    /\ Dead({w})
    /\ UNCHANGED <<row, msg, host, seen,
                   prompted, answered, held>>

\* get_agent or a listener of AGENT_TICK_START raises, or Ctrl-C comes, after
\* start_tick and before the try whose finally clause calls end_tick: the
\* scheduler logs it, the CLI process ends, and the row stays running.  The threads of
\* requests answer the exception as in RunFails.
LeaveTick(w) ==
    /\ "unguarded" \in Env
    /\ w \in Clis \cup {Sched} /\ pc[w] = "claim"
    /\ status' = "running" /\ Touch
    /\ Goto(w, Done(w))
    /\ orphan' = TRUE
    /\ UNCHANGED <<activity, spent, stalls, msg, host, inbox, attempt, seen,
                   prompted, answered, held>>

\* serve.py opens the manager with clear_stale_running; `agents daemon` does
\* not.  Both then register what list_agents returns, serve.py without the
\* agents in error.
\* Mutated: the server opens the manager like everybody else.
SweepsNever == FALSE

Sweeps == Host = "server" /\ status = "running"

Boot ==
    /\ ~up /\ up' = TRUE
    /\ IF Sweeps THEN SetStatus("idle") ELSE UNCHANGED <<row, orphan>>
    /\ registered' = (Scheduled /\ status' # "archived"
                                /\ (Host = "server" => status' # "error"))
    /\ due' = FALSE
    /\ UNCHANGED <<msg, local, prompted, answered, held>>

-----------------------------------------------------------------------------
RunEnds(w) == RunReturns(w) \/ RunRetries(w) \/ RunFails(w)

TickStep(w) ==
    \/ AutoRecover(w) \/ StoreMessage(w) \/ StartTick(w) \/ Claim(w)
    \/ ReadPending(w) \/ MarkDelivered(w) \/ StartRun(w)
    \/ RunEnds(w) \/ SetupFails(w) \/ Interrupted(w)
    \/ EndTick(w) \/ Account(w) \/ SettleBudget(w) \/ MarkOutcome(w)

SchedStep == Fire \/ MoveNextFire \/ Reconcile
             \/ ReleaseStalled \/ CountStall \/ GiveUpStalled

StreamStep(w) ==
    RefuseStream(w) \/ ReadHistory(w) \/ MarkStreamed(w) \/ EndStream(w)

Request(w) == PostRun(w) \/ SendMessage(w) \/ CliRun(w)

Operator == Pause \/ Delete \/ Resume \/ \E m \in Messages : Queue(m)

Clock == Silence \/ Quiet \/ BecomeDue

Crash == HostCrash \/ (\E w \in Clis : CliCrash(w)) \/ \E w \in Workers : LeaveTick(w)

Next ==
    \/ \E w \in Workers : \/ Request(w) \/ TickStep(w)
                          \/ StreamStep(w) \/ ToolCall(w)
    \/ SchedStep \/ Operator \/ Clock \/ Crash \/ Boot

Spec == Init /\ [][Next]_vars

(* The API server and the daemon are supervised and boot again; their        *)
(* threads and a CLI process run until they are killed; agent.run ends, by   *)
(* max_turns and the engine clients' timeouts; time passes.  Nobody has to   *)
(* send a request, a message or an operator's command.                       *)
Fairness ==
    /\ \A w \in Workers : WF_vars(TickStep(w))
    /\ \A w \in Streams : WF_vars(StreamStep(w))
    /\ WF_vars(SchedStep)
    /\ WF_vars(BecomeDue)
    /\ WF_vars(Boot)

FairSpec == Spec /\ Fairness

-----------------------------------------------------------------------------
(* What the code gets right.                                               *)

\* A row that says "running" is owned: some worker is between start_tick and
\* end_tick and will release it, unless one died there or left before the try.
\* No other path of any caller takes the tick and returns without releasing it
\* (the route that takes the lock in its handler and tells the executor so,
\* manager.py:300-307, executor.py:113-118).
RunningIsOwned ==
    status = "running" => orphan \/ \E w \in Workers : pc[w] \in Ticking

\* A message that stops being pending has been part of a prompt: one that
\* arrives between the read and the marking of the queue waits for the next
\* tick (executor.py:496-506).
DeliveredWasPrompted ==
    \A m \in Messages : msg[m] = "delivered" => m \in prompted

\* Once a run that carried a message has returned, no later prompt carries it
\* again, whoever starts the next tick.  A streamed message is its handler's from
\* the request on: it leaves the queue before its stream can answer it.
TakesUnanswered ==
    \A w \in Workers : inbox'[w] # inbox[w] => inbox'[w] \cap answered = {}

AnsweredOnce == [][TakesUnanswered]_vars

\* Spending stops one tick above the budget: the post-tick check takes the
\* agent out of the schedule before the scheduler asks again.
OverspendAtMostOneTick == Budget > 0 => spent <= Budget + 1

\* A tick that took the lock releases it, also when its process dies with it.
RunningEnds == status = "running" ~> status # "running"

\* A scheduled agent is run again and again, failed ticks or not, until its
\* budget is spent.
ScheduledAgentRuns ==
    []<>(pc[Sched] = "prompt" \/ (Budget > 0 /\ spent > Budget))

Holder  == {w \in Workers : pc[w] \in Ticking}
Waiting == {m \in Messages : msg[m] = "pending"}

Promise == INSTANCE TickPromise WITH
    holder <- Holder, wrecked <- orphan, waiting <- Waiting, asked <- prompted

\* The statements on the row and the queue add up to the promise of TickPromise:
\* what callers see is a tick taken at once by one worker, who alone asks,
\* delivers and answers, and a queue that only gives up what was asked
\* (manager.py:290-316 and 577-656).
KeepsPromise == Promise!Spec

-----------------------------------------------------------------------------
(* What its texts say and the code does not do.                            *)

\* At most one worker executes a tick (manager.py:291 "Raises ValueError if
\* already running").
TickExclusive ==
    \A v, w \in Workers : pc[v] \in Ticking /\ pc[w] \in Ticking => v = w

\* The scheduler does not start a paused agent (test_agent_lifecycle_
\* scenarios.py:348 "Paused agent does not fire").
PausedDoesNotFire == [][pc[Sched] = "off" /\ pc'[Sched] = "start" => ~held]_vars

\* A retried run repeats the run that failed (errors.py:17 "Transient error
\* that should be retried with backoff"), its messages included.
RetryKeepsMessages ==
    [][\A w \in Workers :
          pc[w] = "prompt" /\ attempt[w] > 1 /\ pc'[w] = "deliver"
             => inbox[w] \subseteq inbox'[w]]_vars

=============================================================================
