----------------------------- MODULE TaskSchedule -----------------------------
(***************************************************************************)
(* The task scheduler: scheduled_tasks rows (scheduler/store.py), the      *)
(* thread that polls for due tasks and executes them, and the callers that *)
(* create, pause, resume and cancel tasks (scheduler/scheduler.py): tools  *)
(* and handlers in the same process, which share its lock, and             *)
(* `jarvis scheduler` commands in processes of their own, which do not     *)
(* (cli/scheduler_cmd.py).                                                 *)
(*                                                                         *)
(* A row is read and written as a whole (INSERT OR REPLACE).  The lock is  *)
(* held from the read to the write, but not while a task executes.  One    *)
(* action is one statement on the store.                                   *)
(***************************************************************************)
EXTENDS Naturals

CONSTANTS
    Once,        \* tasks with schedule_type "once"
    Recurring,   \* tasks with schedule_type "interval" or "cron"
    Locals,      \* callers in the process of the scheduler
    Remotes,     \* callers in other processes
    Poller,      \* the thread jarvis-scheduler
    Nobody,      \* no thread
    MaxRuns,     \* bound on the counted runs of a task
    MaxMishaps   \* bound on crashes and failed statements

Tasks   == Once \cup Recurring
Callers == Locals \cup Remotes
Threads == Callers \cup {Poller}

ASSUME ConstantsAssumption == MaxRuns \in Nat /\ MaxMishaps \in Nat

ASSUME ThreadsAssumption ==
    /\ Once \cap Recurring = {} /\ Locals \cap Remotes = {}
    /\ Poller \notin Callers /\ Nobody \notin Threads

VARIABLES
    rows,     \* scheduled_tasks
    lock,     \* holder of the scheduler's _lock
    pc,       \* what each thread does next
    job,      \* task a thread works on, what it does to it
    copy,     \* the row it read
    batch,    \* due tasks of the poll that are not executed yet
    \* Observations, read by properties only:
    runs,     \* entries of each task in task_run_logs
    mishaps,  \* crashes and failed statements
    redone,   \* how many of them hit a logged run of each task
    stopped   \* the last command on each task that took effect

vars == <<rows, lock, pc, job, copy, batch, runs, mishaps, redone, stopped>>
obs  == <<runs, mishaps, redone, stopped>>

Commands == {"pause", "resume", "cancel"}
Row == [status : {"none", "active", "paused", "cancelled", "completed"},
        next : {"none", "later", "now"}, last : BOOLEAN]
NoRow == [status |-> "none", next |-> "none", last |-> FALSE]

TypeOK ==
    /\ rows \in [Tasks -> Row]
    /\ lock \in Locals \cup {Poller, Nobody}
    /\ pc \in [Threads -> {"off", "write", "batch", "ask", "log", "read",
                           "advance"}]
    /\ job \in [Threads -> [task : Tasks \cup {Nobody},
                            command : Commands \cup {"none"}]]
    /\ copy \in [Threads -> Row]
    /\ batch \in SUBSET Tasks
    /\ runs \in [Tasks -> 0 .. MaxRuns]
    /\ mishaps \in 0 .. MaxMishaps
    /\ redone \in [Tasks -> 0 .. MaxMishaps]
    /\ stopped \in [Tasks -> Commands \cup {"none"}]

NoJob == [task |-> Nobody, command |-> "none"]

Init ==
    /\ rows = [t \in Tasks |-> NoRow]
    /\ lock = Nobody
    /\ pc = [x \in Threads |-> "off"]
    /\ job = [x \in Threads |-> NoJob]
    /\ copy = [x \in Threads |-> NoRow]
    /\ batch = {}
    /\ runs = [t \in Tasks |-> 0]
    /\ mishaps = 0
    /\ redone = [t \in Tasks |-> 0]
    /\ stopped = [t \in Tasks |-> "none"]

Goto(x, phase) == pc' = [pc EXCEPT ![x] = phase]

\* `with self._lock`: a remote caller has a lock of its own, which nobody else
\* ever takes.
Acquire(x) ==
    \/ x \in Remotes /\ UNCHANGED lock
    \/ x \notin Remotes /\ lock = Nobody /\ lock' = x

Release(x) == lock' = IF x \in Remotes THEN lock ELSE Nobody

\* Forget what a thread worked on.
Drop(x) ==
    /\ job' = [job EXCEPT ![x] = NoJob]
    /\ copy' = [copy EXCEPT ![x] = NoRow]

-----------------------------------------------------------------------------
(* _compute_next_run.                                                      *)

\* Mutated: a task that has run is done, whatever its schedule.
NextRunOnce(t, last) == IF last THEN "none" ELSE "later"

\* A task that is to run once does so at its schedule_value; the others run
\* at a time after now.
NextRun(t, last) == IF t \in Once /\ last THEN "none" ELSE "later"

-----------------------------------------------------------------------------
(* create_task, pause_task, resume_task and cancel_task.                   *)

CreateTask(c, t) ==
    /\ c \in Callers /\ pc[c] = "off"
    /\ c \in Locals => lock = Nobody
    /\ rows[t] = NoRow
    /\ rows' = [rows EXCEPT ![t] = [status |-> "active",
                                    next |-> NextRun(t, FALSE), last |-> FALSE]]
    /\ UNCHANGED <<lock, pc, job, copy, batch, obs>>

\* The lock, and get_task.
ReadTask(c, t, command) ==
    /\ c \in Callers /\ pc[c] = "off"
    /\ rows[t] # NoRow
    /\ Acquire(c)
    /\ job' = [job EXCEPT ![c] = [task |-> t, command |-> command]]
    /\ copy' = [copy EXCEPT ![c] = rows[t]]
    /\ Goto(c, "write")
    /\ UNCHANGED <<rows, batch, obs>>

\* Mutated: resume_task schedules the task as if it were new.
ChangedAnew(t, row, command) ==
    CASE command = "pause"  -> [row EXCEPT !.status = "paused"]
      [] command = "resume" -> [row EXCEPT !.status = "active", !.next = "later",
                                           !.last = FALSE]
      [] command = "cancel" -> [row EXCEPT !.status = "cancelled", !.next = "none"]

\* What a command makes of the row it read, whatever its status.
Changed(t, row, command) ==
    CASE command = "pause"  -> [row EXCEPT !.status = "paused"]
      [] command = "resume" -> [row EXCEPT !.status = "active",
                                           !.next = NextRun(t, row.last)]
      [] command = "cancel" -> [row EXCEPT !.status = "cancelled", !.next = "none"]

\* update_task.
WriteTask(c) ==
    /\ pc[c] = "write"
    /\ LET t == job[c].task IN
       /\ rows' = [rows EXCEPT ![t] = Changed(t, copy[c], job[c].command)]
       /\ stopped' = [stopped EXCEPT ![t] = job[c].command]
    /\ Release(c)
    /\ Drop(c)
    /\ Goto(c, "off")
    /\ UNCHANGED <<batch, runs, mishaps, redone>>

-----------------------------------------------------------------------------
(* _poll_loop and _execute_task.                                           *)

\* get_due_tasks.
Due == {t \in Tasks : rows[t].status = "active" /\ rows[t].next = "now"}

Poll ==
    /\ pc[Poller] = "off" /\ lock = Nobody
    /\ Due # {}
    /\ batch' = Due
    /\ Goto(Poller, "batch")
    /\ UNCHANGED <<rows, lock, job, copy, obs>>

\* The task runs as it was read: nobody asks the row again.
Execute(t) ==
    /\ pc[Poller] = "batch" /\ t \in batch
    /\ batch' = batch \ {t}
    /\ job' = [job EXCEPT ![Poller] = [task |-> t, command |-> "none"]]
    /\ Goto(Poller, "ask")
    /\ UNCHANGED <<rows, lock, copy, obs>>

\* system.ask answers or raises; the run is logged in either case.
AskEnds ==
    /\ pc[Poller] = "ask"
    /\ Goto(Poller, "log")
    /\ UNCHANGED <<rows, lock, job, copy, batch, obs>>

\* Mutated: each statement takes the lock for itself.
LogRunAlone ==
    /\ pc[Poller] = "log" /\ lock = Nobody
    /\ runs' = [runs EXCEPT ![job[Poller].task] =
                  IF @ < MaxRuns THEN @ + 1 ELSE @]
    /\ Goto(Poller, "read")
    /\ UNCHANGED <<rows, lock, job, copy, batch, mishaps, redone, stopped>>

LogRun ==
    /\ pc[Poller] = "log"
    /\ Acquire(Poller)
    /\ runs' = [runs EXCEPT ![job[Poller].task] =
                  IF @ < MaxRuns THEN @ + 1 ELSE @]
    /\ Goto(Poller, "read")
    /\ UNCHANGED <<rows, job, copy, batch, mishaps, redone, stopped>>

\* get_task: the row as it is after the run.
ReadBack ==
    /\ pc[Poller] = "read"
    /\ copy' = [copy EXCEPT ![Poller] = rows[job[Poller].task]]
    /\ Goto(Poller, "advance")
    /\ UNCHANGED <<rows, lock, job, batch, obs>>

\* Mutated: the row of the poll, which was active, is written back.
AdvanceStale ==
    /\ pc[Poller] = "advance"
    /\ LET t == job[Poller].task
           next == NextRun(t, TRUE)
       IN  rows' = [rows EXCEPT ![t] =
              [status |-> IF next = "none" THEN "completed" ELSE "active",
               next |-> next, last |-> TRUE]]
    /\ Release(Poller)
    /\ Drop(Poller)
    /\ Goto(Poller, "batch")
    /\ UNCHANGED <<batch, obs>>

\* The row is written with its next run; without one it is completed,
\* whatever its status was.
Advance ==
    /\ pc[Poller] = "advance"
    /\ LET t == job[Poller].task
           next == NextRun(t, TRUE)
       IN  rows' = [rows EXCEPT ![t] =
              [status |-> IF next = "none" THEN "completed"
                                           ELSE copy[Poller].status,
               next |-> next, last |-> TRUE]]
    /\ Release(Poller)
    /\ Drop(Poller)
    /\ Goto(Poller, "batch")
    /\ UNCHANGED <<batch, obs>>

EndBatch ==
    /\ pc[Poller] = "batch" /\ batch = {}
    /\ Goto(Poller, "off")
    /\ UNCHANGED <<rows, lock, job, copy, batch, obs>>

-----------------------------------------------------------------------------
(* Time and failures.                                                      *)

Tick(t) ==
    /\ rows[t].next = "later"
    /\ rows' = [rows EXCEPT ![t].next = "now"]
    /\ UNCHANGED <<lock, pc, job, copy, batch, obs>>

\* The run that was logged and not yet counted in its row will be repeated.
Mishap ==
    /\ mishaps < MaxMishaps /\ mishaps' = mishaps + 1
    /\ redone' = [t \in Tasks |-> IF pc[Poller] \in {"read", "advance"}
                                     /\ job[Poller].task = t
                                  THEN redone[t] + 1 ELSE redone[t]]
    /\ batch' = {}

\* A statement fails (the database is locked by another process): the poll
\* logs the exception and waits; the rest of its batch is not executed.
PollFails ==
    /\ pc[Poller] \in {"log", "read", "advance"}
    /\ Mishap
    /\ lock' = IF lock = Poller THEN Nobody ELSE lock
    /\ Drop(Poller)
    /\ Goto(Poller, "off")
    /\ UNCHANGED <<rows, runs, stopped>>

\* The scheduler's process dies, its callers with it, and starts again.
Crash ==
    /\ \E x \in Locals \cup {Poller} : pc[x] # "off"
    /\ Mishap
    /\ lock' = Nobody
    /\ pc' = [x \in Threads |-> IF x \in Remotes THEN pc[x] ELSE "off"]
    /\ job' = [x \in Threads |-> IF x \in Remotes THEN job[x] ELSE NoJob]
    /\ copy' = [x \in Threads |-> IF x \in Remotes THEN copy[x] ELSE NoRow]
    /\ UNCHANGED <<rows, runs, stopped>>

-----------------------------------------------------------------------------
PollStep ==
    \/ Poll \/ (\E t \in Tasks : Execute(t)) \/ AskEnds
    \/ LogRun \/ ReadBack \/ Advance \/ EndBatch

Command ==
    \E c \in Callers, t \in Tasks :
        \/ CreateTask(c, t)
        \/ \E command \in Commands : ReadTask(c, t, command)

Next ==
    \/ PollStep \/ Command
    \/ \E c \in Callers : WriteTask(c)
    \/ \E t \in Tasks : Tick(t)
    \/ PollFails \/ Crash

Spec == Init /\ [][Next]_vars

(* The poll thread runs on and gets the lock that others keep only from a    *)
(* read to a write; system.ask returns; time passes.                         *)
Fairness ==
    /\ SF_vars(PollStep)
    /\ \A c \in Callers : WF_vars(WriteTask(c))
    /\ \A t \in Tasks : WF_vars(Tick(t))

FairSpec == Spec /\ Fairness

-----------------------------------------------------------------------------
(* What the code gets right.                                               *)

\* A step takes up no task whose last command was a pause or a cancel.
TakesNoStopped ==
    \A t \in batch' \ batch : stopped[t] \notin {"pause", "cancel"}

\* With the callers in its own process, the scheduler never takes up a task
\* whose last command was a pause or a cancel, not even when the command came
\* while the task was executing: the lock spans the read and the write of
\* every change and the row is read again after a run (scheduler.py:234-263).
StoppedStaysStopped == [][TakesNoStopped]_vars

\* A task that is to run once is logged once, plus once for every crash or
\* failed statement between the log and the update of its row.
OnceRunsOnce == \A t \in Once : runs[t] <= 1 + redone[t]

\* A recurring task runs again and again until it is paused or cancelled, as
\* long as commands do not keep coming (each resume schedules it anew).
RecurringRuns ==
    \A t \in Recurring :
        []<>(\/ \E x \in Threads : job[x].task = t
             \/ rows[t].status \in {"none", "paused", "cancelled"})

\* The tasks that the poll thread has listed and not yet advanced.
UnderWay ==
    batch \cup {t \in Tasks : /\ pc[Poller] \in {"ask", "log", "read", "advance"}
                             /\ job[Poller].task = t}

Status  == [t \in Tasks |-> rows[t].status]
Planned == {t \in Tasks : rows[t].next # "none"}
HaveRun == {t \in Tasks : rows[t].last}

Promise == INSTANCE TaskPromise WITH
    status <- Status, planned <- Planned, ran <- HaveRun, taken <- UnderWay

\* With the callers in its own process, the scheduler keeps the promise of
\* TaskPromise: its commands and the ends of its runs, each a read, a decision
\* and a write of a whole row, act as if they were one step, although a task
\* executes without the lock: no command is lost between the read and the write
\* of another, and a run ends on the row as the commands have left it
\* (scheduler.py:157-186 and 213-281).
KeepsPromise == Promise!Spec

-----------------------------------------------------------------------------
(* What its texts say and the code does not do.                            *)

\* A cancelled task stays cancelled and is not scheduled
\* (docs/user-guide/scheduler.md:93 "Permanently cancel (status ->
\* "cancelled", next_run cleared)").
CancelIsPermanent ==
    \A t \in Tasks : stopped[t] = "cancel"
        => rows[t].status = "cancelled" /\ rows[t].next = "none"

=============================================================================
