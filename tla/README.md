# TLA+ models of OpenJarvis

This directory holds TLA+ models of the parts of OpenJarvis in which several
threads, processes and requests change the same rows at the same time, the TLC
configurations that check them on small instances, and proofs about them for
every size. Paths below are relative to `src/openjarvis/` unless they start
with `docs/`, `tests/` or `rust/`.

    tlc -config agent_mixed.cfg AgentTick.tla      # a run of PROJECT.json
    tlapm AgentTick_proofs.tla                     # the proofs of a module

`PROJECT.json` lists the components, the runs, the lines each definition
models, one broken variant of a definition for every checked property (it must
make the run fail), the disagreements found, the hazards and the theorems.

## 1. The system

OpenJarvis is a personal assistant: agents that call language models and tools,
connectors that bring in the user's data, channels that talk to the user, and
schedulers that start work at given times. Most of it is sequential (build a
prompt, call a model, call a tool). Its state lives in SQLite files that are
opened by the API server (one event loop, worker threads), by daemons and by
command-line processes. **No operation that matters spans more than one SQL
statement in a transaction**: each statement commits on its own, so the unit of
atomicity is the statement, and every read-then-write is a race. That is where
the difficulty of this code lies.

| Part | State | Operations | Talks to | What is hard |
|---|---|---|---|---|
| Managed agents (`agents/manager.py`, `executor.py`, `scheduler.py`, `errors.py`) | row of `managed_agents` (status, updated_at, last_activity_at, tokens, stall_retries), `agent_messages`; in memory `next_fire` of each registered agent | start_tick, end_tick, pause, resume, archive, recover, send and deliver messages; execute_tick with retries; fire due agents; release stalled ones | requests of `server/agent_manager_routes.py`, `cli/agent_cmd.py`, `cli/serve.py`; event bus; language model | two-statement lock, ticks that end by six paths, writes after the release, crash inside a tick, stale row overtaken, messages marked before the run |
| Approvals (`tools/approval_store.py`, `tools/proactive_tools.py`, `agents/proactive_agent.py`, `server/approval_routes.py`) | rows of `pending_actions`, `permission_memory` | daily run (expire, collect, route, queue, approve, execute, notify, flag), execute tool, reply, record_decision, approve/deny routes, expiry | digest tools, language model, channels, user | unguarded status writes by five writers, stale status written back, crash between any two of them |
| Task scheduler (`scheduler/scheduler.py`, `store.py`, `cli/scheduler_cmd.py`) | rows of `scheduled_tasks`, `task_run_logs`; a lock; the poll thread | create, pause, resume, cancel; poll, execute, log, advance | the assembled system (`system.ask`) | commands during execution, whole-row writes, a lock that other processes do not share, crash between log and advance |
| Connector sync (`connectors/sync_engine.py`, `pipeline.py`, `store.py`, `server/connectors_router.py`, `cli/deep_research_setup_cmd.py`) | row of `sync_state` (count, last_sync), `knowledge_chunks`; in memory the seen document ids of each pipeline, the server's threads and what they keep for the polled endpoint | start a sync, list, fetch, ingest chunk by chunk, save a checkpoint, report | external services, command line | interruption between chunks and between batches, `last_sync` that moves before the documents are in, two syncs on one row and one table |
| Workflows (`workflow/`) | a graph; the search's two sets; in-degrees; outputs of finished nodes | add nodes and edges, validate, cut into stages, run stages on a pool | agents, tools | every graph and every order, parallel edges, a failure among siblings |
| Agent implementations (`agents/_stubs.py`, `orchestrator.py`, `loop_guard.py`, `rust/crates/openjarvis-agents`) | conversation, turn, the guard's memory, which all runs of an agent share | compose, ask, continue, call tools (in threads), append results | engine, tools, event bus | calls that end in any order or are blocked, compression of the conversation, a guard tested and set in two steps |
| Chat requests (`server/routes.py`, `server/stream_bridge.py`) and the event bus (`core/events.py`) | the bus's listeners; a queue per stream; the one agent's model | subscribe, run in a worker thread, publish, hand over to the loop, show, unsubscribe | agents, clients | three kinds of threads and one loop, an end that must not overtake events, clients that leave, a model overridden in place |
| Spec search (`learning/spec_search/`) | session, plan, outcomes, files, pending queue, totals of the search | diagnose, plan, route by tier and mode, apply, gate, queue for review, go on or stop | teacher model, benchmark, files | a tier that decides who may apply an edit and is written by four hands, budgets looked at after spending, exceptions in every phase |
| Channel messages (`server/webhook_routes.py`, `channel_bridge.py`, `session_store.py`) | row of `channel_sessions` (conversation, what waits for `/more`), the count of a sender's messages in work, a reminder thread per message | take a message, count, acknowledge, remind, answer, count out, reply | bridge, agent or assembled system, SendBlue | a thread per message over one row, two statements for each append, a reminder that races the reply, a first message twice |
| Sessions (`sessions/session.py`) | `sessions`, `session_messages` | get_or_create, save_message, consolidate, decay, link_channel | channels | check-then-insert, consolidation during appends |
| Rate limiter (`security/rate_limiter.py`) | token buckets | consume, refill | channels, tools | boundary arithmetic under a lock |
| Other agents, learning and optimizers, tools, engines, channels, connectors, MCP, A2A, sandbox, mining, CityOS, telemetry, evals, skills, recipes, speech, other Rust crates, frontends | mostly none of their own | calls to the outside | | I/O, numerics, text |

What makes each of the first ones correct:

* **Managed agents.** At most one worker executes a tick of an agent; a row that
  says `running` has an owner that will release it; the row does not stay
  `running`; no message is lost or answered twice; a paused agent is not
  started; a budget stops the spending; a scheduled agent keeps being run.
* **Approvals.** Nothing is executed without consent; nothing is proposed twice;
  a decision stands; what is approved is executed; nothing stays pending.
* **Task scheduler.** A one-shot task runs once; a stopped task does not run; a
  recurring one keeps running; a cancelled one stays cancelled.
* **Connector sync.** What lies behind `last_sync` is stored or has met a window
  in which the code loses it; what a sync passes over as seen is kept by somebody; the
  counters and what the polled endpoint shows as new are right while no syncs overlap.
* **Workflows.** A graph is refused if and only if it has a cycle; a node runs
  once, after all it needs, on what the earlier stages made.
* **Agent loop.** Every call is answered in its place; the last turn survives
  compression; a reason of the guard is warned of once; the run ends.
* **Chat requests.** A stream shows every event of its run before its answer,
  ends, and leaves the bus.
* **Channel messages.** A message is replied to; the conversation that the agent is
  shown and the rest of an answer that `/more` hands out are those the sender saw;
  the queue counts what is worked on; a reminder does not follow the reply.
* **Spec search.** No file is changed that the mode does not permit; what awaits
  review is in the queue; budgets hold up to one session; the search ends.

The full list of hazards, each at its line and with the properties that cover
it, is in `PROJECT.json`.

## 2. The modules

### AgentTick: one managed agent

Agents do not share rows, so the module describes one agent and everybody who
may act on it. `status`, `fresh` (is `updated_at` younger than
`_STALE_TICK_SECONDS`), `activity` (`last_activity_at`: never set, recent, or
older than the stall timeout), `spent` and `stalls` are the row; `msg` is the
status of each message; `up`, `registered` and `due` are the host process and
its scheduler's `_agents`. A worker is the scheduler thread, a `/run` request
with the thread it starts, an immediate message with its thread, a message whose
answer is streamed, or a CLI process; `pc` says what it does next and `inbox`,
`attempt`, `seen` are its local variables. One action is one statement or one
decision taken from a row read earlier:

| Code | Actions |
|---|---|
| `run_agent` (route), `send_message` (immediate, streamed) | `PostRun`, `SendMessage`, `AutoRecover`, `StoreMessage` |
| `_stream_managed_agent` (refusal; history; mark; response) | `RefuseStream`, `ReadHistory`, `MarkStreamed`, `EndStream` |
| `jarvis agents run`, `_check_due_agents` | `CliRun`, `Fire`, `MoveNextFire` |
| `start_tick` (read; write) | `StartTick`, `Claim` |
| `_invoke_agent` (read queue; mark each message; run) | `ReadPending`, `MarkDelivered`, `StartRun`, `ToolCall`, `RunReturns` |
| `_run_with_retries`, errors, Ctrl-C, setup failure | `RunRetries`, `RunFails`, `Interrupted`, `SetupFails` |
| `_finalize_tick` (end_tick; totals; budget; status) | `EndTick`, `Account`, `SettleBudget`, `MarkOutcome` |
| `_reconcile` | `Reconcile`, `ReleaseStalled`, `CountStall`, `GiveUpStalled` |
| pause, archive, resume, recover, queued message | `Pause`, `Delete`, `Resume`, `Queue` |
| an exception after `start_tick` and before the `try` of `execute_tick` | `LeaveTick` |
| time, crash, boot of server or daemon | `Silence`, `Quiet`, `BecomeDue`, `HostCrash`, `CliCrash`, `Boot` |

The handlers of the API server are coroutines without an `await` before their
`start_tick` has returned, or before the stream begins, so one of them runs at a
time (`LoopFree`); the threads they start, the responses they stream, the scheduler
and CLI processes interleave with everything. A stream takes no tick and writes
nothing to the row.
The language model's run returns, fails (retryable, fatal or escalated) or is
interrupted, at the model's choice. `prompted`, `answered`, `orphan` and `held`
are read by properties only. `Env` switches environment events (operator,
silence, crash, failure, interrupt, and `unguarded`: the reading of the agent or a
listener of `AGENT_TICK_START` raises) so that an instance states what its claim
depends on.

### TickPromise: what AgentTick is for

The abstract specification of the row and the queue as their users see them: a
tick that is taken in one step by one worker and comes free when the worker ends
it or the boot after its death sweeps it; messages that wait until the worker in
charge has asked them. `AgentTick` instantiates it (`Promise`) with a refinement
mapping: the holder is the set of workers between `Claim` and `EndTick`, a wrecked
tick is an `orphan`, waiting messages are the pending ones, asked messages the
`prompted` ones. `StartTick` and the bookkeeping after `EndTick` are stutters.

### ApprovalFlow: from a proposal to its execution

The rows of `pending_actions` are numbered by age, which is the order in which
the code lists them; `state` is the status of each, `about` what it proposes,
`stale` the rows past `expires_at`, `memory` the remembered permissions.
`BeginRun` to `EndRun` are the statements of `ProactiveAgent.run` in their
order; `CallExecute`, `RunAction`, `MarkExecuted` are
`ExecutePendingActionsTool` in another agent; `ReplyOne`, `ReplyAll`, `Decide`,
`Remember` are the reply parser and `record_decision`; `PostDecision` and
`GetPending` the routes; `Age` and `Crash` time and failures. The language model
is a choice: at most one proposal for each item, any tier, any key, carrying the
item's doc_id. `consented` and `ran` are observations. Not modelled: the
`queue_action` and `check_permission` tools of other agents and
`clear_permission`.

### ApprovalPromise: what the table promises the user

The table as its reader understands it: an item becomes one action at most
(`Propose`), and a status says what has happened (`Agree`, `Refuse`, `Record` after
`Perform`, `Lapse` of what is pending). `ApprovalFlow` instantiates it with `stage`
as `state`, `agreed` as `consented`, `performed` as `ran`, and the trivial actions
as `free` of an answer; everything that only reads the table or moves an actor on is
a stutter, and time that passes (`Age`) too. `Reopen` is the code's exception, the
loop that flags notifications (section 4): the promise allows it, but for trivial
actions, about which nobody is asked.

### TaskSchedule: tasks and the poll thread

`rows` is the table, written as a whole row; `lock` the scheduler's lock.
`CreateTask`, `ReadTask`, `WriteTask` are the four commands: the lock is held
from the read to the write. `Poll`, `Execute`, `AskEnds`, `LogRun`, `ReadBack`,
`Advance`, `EndBatch` are the poll loop, which holds the lock from the log to
the advance and not while the task executes. `PollFails` is a statement that
raises (the database is locked by another process), `Crash` a restart. Times are
`later` and `now`: which time a schedule yields is arithmetic and left out. Local
callers share the lock; `Remotes` are `jarvis scheduler` processes that do not.

### TaskPromise: what TaskSchedule is for

A task as its owner sees it: told to be active, paused or cancelled in one step each
(`Create`, `Pause`, `Resume`, `Cancel`), taken up when it is active and has a next run
(`Take`), and done in one step (`End`) that acts on the task as the commands have
left it in the meantime. `TaskSchedule` maps `taken` to the batch and the task in
hand, `planned` to the rows with a `next_run`, `ran` to those with a `last_run`. A
command is the step `WriteTask`, the end of a run `Advance`; taking the lock, reading
a row, executing and logging are stutters, and `PollFails` and `Crash` are `Fail`,
which changes no task. `End` may complete a one-shot task that was cancelled
and plans a recurring one anew (section 4, `task_cancel`): the promise states
what the code does.

### ConnectorSync: syncs of one connector

`arrived` is the source, `copies` the table of chunks, `items` and `passed` the
checkpoint row: `last_sync` is kept as the set of documents older than it, which
is what `since` leaves out of a listing. A sync is a request of the API server
(`Guard`, `Note`, `Spawn`, or `SpawnFails` when the thread cannot be started) or a
command-line process (`StartCli`); `Load` is the creation
of the pipeline with its memory of seen documents, `Begin` the reading of the
checkpoint and the listing, `Fetch`, `StoreChunk`, `Save` and `FetchEnd` the
loop, `Close`, `Break` and `Fail` its ends, `CliCrash` and `ServerCrash` those of
its process. One action is one statement of SQL or one connector call. `noted` is the
`items_synced` a request reads as its baseline (or 0, if it cannot), `baseline` the one
in the server's state, written by `Spawn` and again by the thread's `Report`; what
`GET /{id}/sync` answers as `new_items_synced` (`connectors_router.py:647-653`) is the
operator `NewItems`. The word which that endpoint shows for the state is not
modelled: it is worked out at the time of the request from `thread.is_alive()`
and the connector's own status. `lost` is
a history variable: the documents that met one of the two windows in which the
code loses a document, arrival during a sync and a sync broken off. The cursor
is left out because `sync()` writes back the value it read.

### WorkflowPromise and WorkflowRun: a workflow

`WorkflowRun` has the building of the graph (`AddNode`, `AddEdge`), the
depth-first search of `validate` one call or return at a time (`Visit`,
`Descend`, `FindCycle`, `Ascend`), Kahn's algorithm one stage at a time
(`NextStage`) and the pool (`OpenStage`, `StartNode`, `FinishNode`, `Collect`,
`CloseStage`). A listener of the bus that raises ends the run without a result, where
nothing catches it (`ListenerRaises`). `in_degree` is kept per source, so that parallel edges are seen;
the adjacency order is a choice. `WorkflowPromise` is the abstract
specification, which knows no stages: a node starts once, when all its
predecessors have succeeded; the run ends, when nothing runs, well or because
something failed or raised.

### AgentLoop: the orchestrator agent and its guard

A run composes its messages (compressing them when there are too many), asks the
model, and either ends, continues a cut answer or calls tools; each call is judged
by the guard, blocked, spared with a warning or executed, in a thread of its own
in the parallel mode. `Judge`, `Spare` and `Warn` are three steps because
`check_call` tests `_warned_cycles` and adds to it without a lock. Several `Runs`
share the agent's guard. A message is its role, its turn and its number;
`Compress` is the code's first two stages (the later ones are reached only with
`max_context_messages` not above the number of system messages, which the
assumption excludes). `guard` says which of two guards the Python class asks: the Rust
one when `openjarvis_rust` can be imported, else its own. The Rust check is one step
(`Judge`, with `Check`), since it holds the interpreter's lock; the Python one reads,
writes and reads again its counters between other threads (`Look`, `Count`, `Weigh`,
`Use`, `Follow`). They give different reasons: to the Rust guard every
repetition of a call is the same reason, to the Python guard each one is a new
reason, since it names the count (`Repeated`).

### AgentStream: chat requests on the server's agent

A stream subscribes (`OpenStream`), waits for a worker thread (`TakeWorker`),
overrides the agent's model (`SaveModel`, `OverrideModel`), and its run publishes
events from its own thread and its tools' (`Publish`, `CallListener`). `ready` is
the loop's queue: a put into a stream's queue, or one of the two hops by which
the end of the run reaches its done callback. `Take`, `Answer`, `Disconnect`,
`Finalize` are the generator. A plain request runs the agent on the loop itself
(`HandleAgent`, `EndHandled`), so `LoopFree` is a guard of everything the loop
does.

### ChannelChat: messages over a channel

`sendblue_incoming` hands each message to a thread of the loop's executor
(`Arrive`; the queue in front of the workers is `pc = "queued"`). The thread counts
the message (`CountIn`), acknowledges it and starts its reminder (`Acknowledge`, or
`Strand` if that thread cannot be started: the message is then never counted out),
calls `handle_incoming`, counts it out (`EndIncoming`, `CountOut`) and replies
(`SendReply`), unless the answer is empty (`SendNothing`); `WaitRunsOut`, `Remind`, `StopReminding` are the reminder thread.
`handle_incoming` is one action per statement: `LookUp` and `Insert` are
`get_or_create`, `ReadPending` and `ClearPending` are `/more`, `ReadHistory` and
`WriteHistory` are `append_message` for the question and for the answer,
`ReadContext` the second look at the session, `Ask` the agent (`bridge`), whose error
is an answer too, `SetPending` the storing of an answer that is too long. All threads
use one connection, and each statement commits on its own. `said` is the
conversation as the sender saw it, `sent` the messages that were replied to, `owed` the
answer whose rest the sender was promised last and `base` the row's conversation when
the messages that are now in work began to arrive; properties alone read them. `Patient` senders write only when their
last message has been answered, which is what the properties about the
rest of an answer needs, and the stronger half of the one about the conversation: of
an impatient sender the threads overwrite each other's entries.

`bridge` is what the `ChannelBridge` was made with. The DeepResearch agent is tried
first and run with the question alone (`channel_bridge.py:261`), and its answer is
never empty; `JarvisSystem` is asked with the context, and its answer may be empty; with
neither the answer is an error. The SendBlue bridges of `server/app.py:99-104` and
`server/agent_manager_routes.py:1880-1885` have the DeepResearch agent or nothing, that of
`cli/serve.py:479-485` has nothing; a bridge with a `JarvisSystem` is what the
constructor admits.

### SpecSearch: sessions that edit a specification

`SpecSearchLoop.run` and, inside it, one `SpecSearchOrchestrator.run` after the
other: readiness and benchmark (`NotReady`, `Ready`), the teacher's turns
(`TeacherTurn`), clusters, the plan with its tiers and downgrades (`Plan`), one
action per outcome of an edit (`PutOff`, `Skip`, `Unfit`, `Apply`, `Gate`), the
queue (`Enqueue`), the end, `Raise` for an exception inside the session's `try`, and
`Escape` for one outside, which leaves the search without a result. Plans are all
sequences of edits a teacher may write, with any tier and with names used twice.
The registry's support check is left out: every operation has an applier
(`execute/loop.py:47-60`), so it never refuses one.

## 3. The runs

| Run | Instance | States what |
|---|---|---|
| `agent_mixed` | scheduler thread, one immediate message, one streamed, one CLI process; operator, crash, failure, interrupt, ticks left before the `try`; 2 attempts, 1 stall retry | `RunningIsOwned`, `DeliveredWasPrompted`, `AnsweredOnce`: no path leaves a running row ownerless, no message leaves the queue unread, none that was answered enters the prompt of a later tick |
| `agent_requests` | three `/run` requests, two messages; crash | `TickExclusive`, `RunningEnds`, `KeepsPromise`: the lock of the handler works, a row does not stay running across crash and boot, and every behaviour is one of `TickPromise` |
| `agent_schedule` | scheduler thread in the daemon, budget of 2 ticks; failure, silence | `OverspendAtMostOneTick`, `ScheduledAgentRuns` |
| `approval_item` | one item, four tiers, one key, two rows; run, executor, replier, crash | `RanWasConsented`, `ProposedOnce`, `NothingPendsForever`, `KeepsPromise`: every behaviour is one of `ApprovalPromise` |
| `approval_undo` | one proactive agent, one replier | violates `DecisionStands` |
| `task_polls` | a one-shot and a recurring task, two local callers, two mishaps | `OnceRunsOnce`, `StoppedStaysStopped`, `RecurringRuns`, `KeepsPromise`: every behaviour is one of `TaskPromise` |
| `connector_sync` | one request of the server and one command-line sync at a time, two documents of two chunks, one of which arrives later, batches of one; errors and crashes | `SkippedIsKept`, `NothingSlips`, `CountsAdd`, `NewItemsCover`, `EventuallyStored` |
| `workflow_run` | every graph of four nodes and up to four edges, loops and parallel edges included; two threads; listeners that raise | `VerdictRight`, `SeesEarlierStages`, `KeepsPromise`, `RunEnds` |
| `agent_loop` | one run in each of the three modes with either guard, two turns of two calls, continuations, a context that overflows | `CallsAnswered`, `LastTurnWhole`, `IdenticalBounded`, `RunEnds` |
| `agent_stream` | two streams, one plain request, one worker thread, a tool that publishes from its own thread | `OwnEventsShown`, `StreamEnds` |
| `spec_search` | three modes, with and without a benchmark, every plan of two edits with two names; stagnation and budget of two; exceptions inside and outside the session's `try` | `OnlyPermittedChanges`, `ReviewIsQueued`, `OvershootBounded`, `SearchEnds` |
| `channel_chat` | a DeepResearch bridge and a `JarvisSystem` one; three messages, chats or `/more`, of two senders, one patient; the third is slow, and its reminder may not start; two workers, a history of two entries | `QueueCounted`, `ConversationKept`, `RestKept`, `OneLateReminder`, `Answered` |

Eleven more configurations are kept beside these, each of which TLC ends with a
violation; section 4 says what of: `agent_pause`, `agent_race`, `agent_retry`,
`approval_idle`, `task_cancel`, `sync_resume`, `loop_guard`, `python_guard`,
`stream_model`, `spec_rollback`, `chat_context`.

The type invariants of all modules are proved (section 5) and not listed with the
runs.

**Bounds.** Two attempts are enough to have one retry and one exhausted retry;
one stall retry to have a release and a give-up; a budget of two to have a tick
below, at and above it. A race for a row needs two workers, an overtaken tick
and its successor three: `agent_requests` has three requests, `agent_mixed`
four different kinds. One message is enough for a property that speaks of one
message, since messages are only told apart by identity; `agent_race` uses two
because it needs two senders, `agent_requests` two so that one can arrive while the
other is being delivered. Two rows of `pending_actions` let an item be
proposed a second time, which is what `ProposedOnce` forbids. Two mishaps let a
task be hit once before and once after its log. `MaxRuns` and `spent` stop
counting one above what the properties distinguish. The instances are small and
the safety claims do not rest on them: they are proved for all sizes (section
5), with the exceptions named there.

Two documents in batches of one make two rounds of the loop, of which the second may
be cut short, and two chunks each let a sync break off inside a document; the second
document arrives during a sync or after it. A request and a command-line sync are
the two that overlap; a request's baseline is read before, during or after the other. Four nodes and four edges contain the diamond, a stage of more
nodes than the pool has threads, parallel edges, self-loops and cycles of every
length up to four. A context of four messages overflows in the second turn of
`agent_loop`; two turns of two calls hold a call, its warning, its blocking and a fourth,
and in the parallel mode two threads between the test of a reason and its entry. Two
streams with one worker thread compete for it, and the plain request blocks the
loop under them; two events let one be in the listener while the other waits in
the loop's queue. Two edits with two names give every pair of outcomes and a name
used twice; a budget and a streak of two need a session that stays below them.
Three messages let one sender have two answers, one of them cut off, and a `/more`,
or race with itself while another is served; the window of two entries is cut in
the second chat; with two workers the third message waits in the executor's queue.
The remaining counters (`MaxTurns`, `MaxCost`, `MaxScore`) are the smallest that
tell the cases apart.

`CHECK_DEADLOCK FALSE` is set where the system may come to rest:
`channel_chat` when the last message is answered, `agent_schedule` when the budget
is spent, `agent_race` when both requests have been served, `connector_sync` when nobody starts another sync, and the
workflow, the agent's run, the chat requests and the search end.

**Fairness.** A thread or process that is inside an operation goes on
(`WF(TickStep(w))`, `StreamStep`, `SchedStep`, `RunStep`, `ExecuteStep`, `ReplyStep`,
`WriteTask`): it runs until it is killed, and a model call ends by `max_turns` and
the engine clients' timeouts. Time passes (`BecomeDue`, `Age`, `Tick`). The server
and the daemon are supervised and boot again (`Boot`), and the cron task starts
the proactive agent every day (`BeginRun`, in `RunStep`). The poll thread has
strong fairness, `SF(PollStep)`: it competes for a lock that every other holder
keeps only from a read to a write, and a lock of the operating system is granted
to a waiter eventually. Nobody has to send a request, a reply or a command, to
look at a list or to call a tool, and no fairness asks for a particular result
of a run: failures may repeat forever.

A sync goes on as well (`Spawn`, `SyncStep`): its connector's calls and SQLite's
locks time out; nobody has to start one. Workflow nodes return (`NodeReturns`):
their agents and tools are bounded as above, and `default_node_timeout`, which
looks like the bound, does not stop a node (`workflow/engine.py:101-106`). In
`AgentLoop` the loop, the model and the tools answer; in `AgentStream` the event
loop handles what is ready, worker threads run, and a generator takes what is in
its queue, but no client has to come, to stay or to leave. In `SpecSearch` the
teacher, the benchmark and the files answer or raise. In `ChannelChat` the thread of
a message goes on (`HandleAndReply`): the executor serves its queue in order, the
agent is bounded as above, SendBlue's calls time out after 30 seconds
(`channels/sendblue.py:125`); nobody has to send a message, and no fairness asks a
reminder to be late or early.

## 4. Where the code and its texts part

Each of these runs ends in a violation of one sentence of the repository.
`approval_undo` is a run of `PROJECT.json`; the configurations of the others are kept
beside it.

* `agent_pause`: `end_tick` writes `idle` over any status, so a pause made
  during a tick is lost and the scheduler fires the agent (`agents/manager.py:310-316`;
  `tests/agents/test_agent_lifecycle_scenarios.py:348`).
* `approval_undo`: the loop that sets `notification_sent` writes back the status
  the row had when it was queued and undoes a decision taken meanwhile
  (`agents/proactive_agent.py:498-499`; `tools/proactive_tools.py:198`).
* `agent_race`: `start_tick` reads the row and writes it in two statements
  (`agents/manager.py:298-308`); two threads that read before either writes both
  tick. It "raises ValueError if already running" (`manager.py:291`) only if the
  other has written.
* `agent_retry`: messages are marked delivered before the run, so the retry of a
  run that failed builds its prompt without them (`agents/executor.py:496-511`;
  `agents/errors.py:17`).
* `approval_idle`: the run executes its own auto-approved actions only; what the
  user approved waits for somebody to call the tool
  (`proactive_agent.py:470-476`, against line 15 of that file).
* `task_cancel`: the end of a run writes `completed`, or a `next_run`, into a row
  that was cancelled while it executed (`scheduler/scheduler.py:261-281`;
  `docs/user-guide/scheduler.md:93`).
* `sync_resume`: "long-running syncs can be interrupted and resumed from the last
  saved cursor" (`connectors/sync_engine.py:3-4`), but each checkpoint inside the
  loop moves `last_sync` to now, so the next listing leaves out what the broken
  sync had not reached (`sync_engine.py:106-145`).
* `loop_guard`: the warning's reason contains the count of identical calls
  (`rust/crates/openjarvis-agents/src/loop_guard.rs:63-70`), and "first detection
  warns, second blocks" (`agents/loop_guard.py:22`) goes by the reason, so
  every further call is a first detection and is only warned of. This is the Rust guard's count.
* `python_guard`: the same sentence fails for the Python guard at every repetition of a
  call, since its reason says how often the call was repeated
  (`agents/loop_guard.py:101-107`); a call is then never blocked for being identical, however often it comes. `_rust_bridge.py:4-5` calls
  the Rust backend "mandatory" and line 28 says "there is no Python fallback", but
  `loop_guard.py:68-69` falls back to it, and `openjarvis_rust` is not among the
  dependencies of `pyproject.toml`.
* `stream_model`: the model is overridden "for this request"
  (`server/stream_bridge.py:136`), but two overlapping streams save and restore
  the one agent's model, and the second may save what the first has put there.
* `spec_rollback`: "rejected edits roll back"
  (`docs/user-guide/llm-guided-spec-search.md:38`); the appliers' rollback is
  empty (`learning/spec_search/execute/intelligence.py:63`), and nobody calls
  `begin`, `commit` or `discard` of the checkpoint store.
* `chat_context`: the context of a question is `history[:-1]`, to "exclude the message
  we just appended" (`server/channel_bridge.py:248`), but between the append and
  the read another message of the sender may have been appended: the question is
  then in its own context, and the other message, not yet answered, is left out. (The
  configuration has a bridge with a `JarvisSystem`, the only agent that is given the
  context.)

The models also show, without a run of their own:

* Managed agents: the status written after `end_tick` by a failed tick lands on
  the running row of the next one (`executor.py:738`); the reconciler can release
  a tick that has just begun, because `last_activity_at` is the previous tick's
  (`agents/scheduler.py:207`); a boot of the server releases the live tick of a CLI
  process (`manager.py:165`); the daemon, unlike the server, never sweeps a zombie
  (`scheduler.py:168`); `INFERENCE_START` has no agent key and does not count as
  activity (`executor.py:145`); an agent in error is not registered at boot
  (`cli/serve.py:399`); between `start_tick` and the `try` an exception of `get_agent` or
  of a listener leaves the row running (`executor.py:130-141`) until a boot of the server
  sweeps it; two ticks of one agent that overlap both answer a message
  that was pending when each read the queue. They are the reason why `TickExclusive`
  is claimed, and proved, only for requests whose ticks succeed.
* Streamed messages: a tick that reads the queue between the `INSERT` of a streamed
  message and its mark (`agent_manager_routes.py:1990`, `902`) answers it as well, so
  the user gets two answers; and the history that the stream replays holds pending
  messages, which the next tick then takes from the queue. `AnsweredOnce` speaks of
  the queue: once the stream has answered, no tick takes its message.
* Approvals: `update_status` does not look at the status it replaces, so an action
  that was executed can be approved by a second reply and is executed again
  (`tools/approval_store.py:275`); a denial that comes after an executor has listed
  the row does not stop it (`proactive_tools.py:380`); two proactive agents propose an item twice
  (`proactive_agent.py:374`).
* Task scheduler: a `jarvis scheduler` process writes the whole row it read
  (`cli/scheduler_cmd.py:15`); a task paused after the poll listed it is executed
  once more (`scheduler/scheduler.py:198`); `run-task` executes and logs a task without
  advancing its row (`cli/scheduler_cmd.py:221-296`), so the poll runs it as well (not
  modelled); and `JarvisSystem.ask` returns a dict (`system/core.py:145`), which the
  insert of `log_run` could not bind: no caller gives the scheduler a system, so the
  runs have a bounded number of mishaps and no failure that comes back every time.
* Workflows: `default_node_timeout` stops nothing, `WorkflowEdge.condition` is
  never read, `final_output` is that of the node that finished last, and
  `topological_sort` is not called.
* Agent loop: the guard is shared by all runs of an agent and never reset; the
  sliding window can leave tool results without their call
  (`agents/loop_guard.py:188-190`); a tool whose timeout has passed is waited for
  anyway (`tools/_stubs.py:242`); the structured mode has no guard.
* Chat requests: a stream's listeners take every run's events, so it also shows
  those of other requests; a stream whose client left keeps its worker thread until
  the run ends.
* Connector sync: an exception in `t.start()` leaves the server's state at `syncing`
  without a thread (`server/connectors_router.py`, `_start_sync`), which the polled
  endpoint does not show; a request that starts while another sync runs shows that
  sync's documents as its own new ones.
* Channel messages: overlapping messages of one sender lose entries of the
  conversation (`server/session_store.py:94-112`); of two first messages one may die
  in the `INSERT` and stay without a reply (line 67); the reminder comes after 60
  seconds (`server/webhook_routes.py:422`; `docs/user-guide/channels.md:438` says
  45); the webhooks of BlueBubbles and WhatsApp do not send the answer
  (`webhook_routes.py:274-282`, `335-343`); a `DeepResearchAgent` is asked without
  the context (`channel_bridge.py:261`); an empty answer is not sent
  (`webhook_routes.py:442`); a message whose reminder thread cannot be started gets no
  answer and stays in the sender's count (line 430).
* Spec search: the calls of the diagnosis tools are not counted in the cost
  (`diagnose/tools.py:280`); a failed session costs nothing and loses its outcomes;
  two edits with one name share a file of the pending queue
  (`pending_queue.py:37`), whose `resolve` has no caller.

## 5. The proofs

Each component's proofs are in a module of their own (the agent's loop and the
streams that run it share one), checked to the last leaf. Where an argument goes
by induction over the naturals, the instance it needs is derived from the
well-foundedness of `<`: the library's induction rules cannot be instantiated here.

**`AgentTick_proofs`.** `TypeCorrect`: `stalls` is written as `seen + 1` by a
thread that read `seen` two statements earlier, so typing alone is not
inductive; `SeenBelowLimit` adds that the value in hand is below the limit while
the thread is between the statements. `RunningOwned`: every action either keeps
the phase of a worker in `Ticking`, or takes the row out of `running`, or records
the death of its owner in `orphan`; it is inductive with the types.
`DeliveredPrompted` and `AnsweredOnlyOnce` rest on `MessageInv`: a worker that is
about to mark or to run holds only messages that were prompted, what was answered
is delivered, a sender holds only its own unsent message, and a stream holds a stored
one until it has marked it. Both theorems hold with streams, of any number, that
run beside any ticks. `RequestsExclude`
assumes `RequestsOnly` (ticks start from `/run` only and do not fail or fall silent,
nothing is streamed, no scheduler); its invariant says that at most one request is between the read
and the write of the lock, and that a row that does not say running has nobody
ticking. All other constants are arbitrary. Under the same assumption
`RequestsServe` proves that `AgentTick` implements `TickPromise`; the step that
takes the tick needs `WreckedRow` (a row whose owner died still says running, so
nobody passes the check before the boot), the step that sends a message needs
`AskedWereSent`. `OverspendsOneTick` assumes `SchedulerOnly` (no requests, commands or
crashes: each of them lets an agent overspend again) and rests on `SpentInv`: once
above the budget, the scheduler is on its way to `budget_exceeded` or has written it.

**`ApprovalFlow_proofs`.** `TypeCorrect` needs `RowInHand` (a process that is
about to write a row has one) and that the least element of a non-empty set of
naturals exists (`FirstIn`, by the well-foundedness of `<`). `ExecutedWithConsent`
rests on `ConsentInv`: an approved row is consented to, and so is everything an
executor has listed, whatever its status has become. `ProposedOnlyOnce` assumes
one proactive agent and rests on `UnseenInv`: what the run has still to route, or
has planned, is about no item of any row. Under the same assumption
`StatusesAreTrue` proves that `ApprovalFlow` implements `ApprovalPromise`. Each of
its writers replaces a status without looking at it, so what makes the step legal
has to be known of the writer: `HonestInv` says that an executor marks only what it
has performed, a run flags only what it asked the user about, which is never
trivial, and queues only what the model proposed. With `ConsentInv` the execution, and
with `UnseenInv` the proposal, are steps of the promise.

**`TaskSchedule_proofs`.** The theorems beyond typing assume `Remotes = {}`: a
caller in another process has a lock of its own, and its whole-row write can undo
anything. `LockInvariant`: who is between a read and a write holds the lock, and
the status and the last run of its copy are those of the row. From it
`StoppedInactive` (the last command was pause or cancel: the row is not active)
gives `StoppedNotTaken`, and `OnceInv` (a one-shot task that has run has no next
run and is in nobody's batch; its logged runs are paid for by `last` or by a
mishap) gives `OnceRunsAtMostOnce`. `SchedulerKeepsPromise` proves that the module
implements `TaskPromise`: `PlansHold` adds to the lock's invariant that a row has a
next run when the copy about to be written was read with one, and `OneAtATime` that
the task in hand has left the batch and the batch ends with the poll.

**`ConnectorSync_proofs`.** `NothingSlipsThrough` rests on `SlipInv`: what a sync has passed
is stored or in hand (`HandsInv`), chunks are stored in order (`ChunksInv`), and
each document older than `last_sync` is accounted for by one of the three
disjuncts (`AccountInv`); the hard step is a checkpoint, which moves `last_sync`
past all documents at once. `SkippedIsAccounted` follows from the same invariant: a
document of which the table holds a chunk is accounted for, and a pipeline takes for
seen only such documents. `CountersAdd` needs that a pipeline's memory of seen
documents contains what the table had when it was made, unless another sync has
written since (`dirty`): from then on two syncs may count one document each.
`NewItemsShown` adds `NewInv`: neither the row nor a baseline, in the server's state or
with a request, is ever ahead of the table.

**`WorkflowRun_proofs`.** `KahnInv`: the in-degree of a node counts its edges from
nodes not yet staged, which typing needs, since it is decremented.
`ValidateDecides` rests on `SearchInv`: the path is a chain of edges, and
everything reachable from a finished node is finished, so no cycle goes through
finished nodes; `Push` and `Pop` are its two halves. `HandedEarlierStages` rests on
`StagesInv` (the stages are disjoint and each comes after what it needs) and
`PoolInv`. `RunKeepsPromise` uses all of them: a node of an open stage has all
predecessors in earlier stages, which all succeeded.

**`AgentRun_proofs`, the loop.** `RepetitionBounded` bounds how often a reason
of the guard is only warned of. For any reason, of either guard, `KeyBounded` says that
the warnings given and those about to be given (`SparedWith`) fit into one slot of each
run: a reason is tested before it is entered, but no slot tests it again once it is
in. `SigBounded` is about the Rust guard, of which `OneGuard` says that no call is ever
between the steps of the other: a call passes once before it has been counted,
and from then on only with its one reason. Calls move through their phases in order
(`InOrder`), so none is counted twice. For the Python guard there is no such bound on the
calls, and the theorem claims none. `EveryCallAnswered`, `LastTurnKept` and
`TypeCorrect` rest on `Dialogue`: the system messages come first, each call message
has its results directly behind it in the order of its slots, and the last turn closes
the conversation. That the calls' threads may end in any order is harmless because
results are appended by slot; that `Compress` is harmless takes the two shapes it
can leave: old results truncated in place, or a window that begins inside an old
turn, never inside the last.

**`AgentRun_proofs`, the streams.** `EventsShown` rests on the *line* of a stream:
what it has shown, then its queue, then its puts that wait in the loop. `LineInv`
says that the line is the run's events in their order, each once, that what a
listener has in hand comes behind all of it (`Ahead`), that nothing is on its way
when the run's thread has ended (`QuietInv`), and that `DONE` is therefore last
(`DoneLast`). `BusInv` says who is subscribed: the listeners of a stream whose
generator has not been finalized, each once, so that a publisher that copied the list
still reaches them. `Crew` says that the streams in the loop's hands and the worker
threads fit. `StreamTypeCorrect` holds of everything the module keeps, with any
number of streams, plain requests, threads and events.

**`SpecSearch_proofs`.** `PermittedChanges` rests on `TierInv` (the tiers of a plan
that is executed are those the code assigns, whatever the teacher wrote, or
stricter), `LessThanASessionOver` on `CostInv` (a session in progress has spent
less than its cap and one round), `QueueAwaitsReview` on `ReviewInv` (the queue
and the outcomes `pending_review` agree up to the edit in hand).

**`ChannelChat_proofs`.** `QueueIsCounted` needs `StrandedOver` (the thread of a
message without a reminder has ended) besides typing: `CountIn` and `CountOut`
add and remove one element of the finite set of messages that count.
`AtMostOneLate`: a reminder that is still to be sent is the first after the reply.
`ConversationIsKept` has two parts. For messages that overlap, `BaseInv` says that the row
and every copy of it that a thread holds have grown (`Grown`) out of the conversation
that was there when the first of them arrived; `ExtendsAppend` is the lemma on
sequences that an append and the cut of the window keep this, `RowStep` and `BaseStep` the
induction. For senders who wait, it and `RestIsKept` rest on `KeptInv`, which says for each phase of
a patient sender's message how the row and the thread's copy stand to what the
sender saw; `ThreadAside` and `KeptFrame` reduce a step to its own message, and
`LatestAppend` says that cutting the history at each append is the same as cutting
it at the end.

**Only model-checked:** the liveness properties `RunningEnds`,
`ScheduledAgentRuns`, `NothingPendsForever`, `RecurringRuns`, `EventuallyStored`,
`RunEnds` (twice), `StreamEnds`, `SearchEnds` and `Answered`, for fairness is out of the
prover's reach. Every safety property of the passing runs is proved.

## 6. Not modelled, and the plan

In this order:

1. `AgentTick`, continued: two agents that share a scheduler thread; a weaker
   promise that failing ticks, streams and the scheduler keep as well.
2. `AgentStream`, continued: the websocket bridge.
3. `ChannelChat`, continued: notifications (two events that pass the limit of one in
   five minutes, `server/channel_bridge.py:326-329`) and the Slack daemon; and
   `Sessions`: `get_or_create` (two callers insert one session,
   `sessions/session.py:119`) and `consolidate` under concurrent messages.
4. `TaskSchedule` with a remote caller and with a second poller after a `stop`
   that timed out (`scheduler/scheduler.py:124`).
5. Workflow loop nodes (with `max_iterations` 0 the node fails, since `i` is unbound
   at `workflow/engine.py:334`), and `RateLimiter`.

Left out for good: clients of external services (engines, channels, connectors,
MCP, A2A, speech, CityOS, mining, sandbox), text and ranking (retrieval, prompts,
skills, guardrails), statistics and append-only records (telemetry, traces,
analytics, evals), start-up wiring (registry, configuration, system builder), the
frontends, and the Rust crates, which mirror parts of the Python packages.
