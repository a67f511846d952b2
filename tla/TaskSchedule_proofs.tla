------------------------- MODULE TaskSchedule_proofs -------------------------
(***************************************************************************)
(* Theorems about TaskSchedule, for every set of tasks and callers and     *)
(* every value of the bounds.                                              *)
(***************************************************************************)
EXTENDS TaskSchedule, TLAPS

-----------------------------------------------------------------------------
(* Types.  A thread between a read and a write knows its task, and only    *)
(* commands are written by callers; no task was hit by more mishaps than   *)
(* there were.                                                             *)

PhasesOK ==
    /\ \A c \in Callers : pc[c] \in {"off", "write"}
    /\ pc[Poller] # "write"

JobsOK ==
    \A x \in Threads :
        /\ pc[x] \in {"write", "ask", "log", "read", "advance"}
           => job[x].task \in Tasks
        /\ pc[x] = "write" => job[x].command \in Commands

MishapsCounted == \A t \in Tasks : redone[t] <= mishaps

TypeInv == TypeOK /\ PhasesOK /\ JobsOK /\ MishapsCounted

LEMMA ThreadFacts ==
    /\ Poller \in Threads /\ Poller \notin Callers /\ Poller \notin Remotes
    /\ Callers \subseteq Threads
    /\ \A c \in Callers : c \in Remotes \/ c \in Locals
BY ThreadsAssumption DEF Threads, Callers

LEMMA RowFacts ==
    /\ NoRow \in Row
    /\ NoJob \in [task : Tasks \cup {Nobody}, command : Commands \cup {"none"}]
BY DEF Row, NoRow, NoJob

LEMMA NextRunType ==
    ASSUME NEW t, NEW last
    PROVE  NextRun(t, last) \in {"none", "later"}
BY DEF NextRun

LEMMA ChangedType ==
    ASSUME NEW t, NEW row \in Row, NEW command \in Commands
    PROVE  /\ Changed(t, row, command) \in Row
           /\ Changed(t, row, command).status # "none"
           /\ Changed(t, row, command).last = row.last
<1>1. CASE command = "pause"
  BY <1>1 DEF Changed, Row
<1>2. CASE command = "resume"
  BY <1>2 DEF Changed, NextRun, Row
<1>3. CASE command = "cancel"
  BY <1>3 DEF Changed, Row
<1> QED
  BY <1>1, <1>2, <1>3 DEF Commands

LEMMA InitTypes == Init => TypeInv
<1> SUFFICES ASSUME Init PROVE TypeInv
  OBVIOUS
<1> USE ThreadFacts, RowFacts, ConstantsAssumption DEF Init
<1>1. rows \in [Tasks -> Row] /\ lock \in Locals \cup {Poller, Nobody}
  OBVIOUS
<1>2. /\ job \in [Threads -> [task : Tasks \cup {Nobody},
                              command : Commands \cup {"none"}]]
      /\ copy \in [Threads -> Row]
  OBVIOUS
<1>3. /\ pc \in [Threads -> {"off", "write", "batch", "ask", "log", "read",
                             "advance"}]
      /\ batch \in SUBSET Tasks
  OBVIOUS
<1>4. /\ runs \in [Tasks -> 0 .. MaxRuns]
      /\ mishaps \in 0 .. MaxMishaps
      /\ redone \in [Tasks -> 0 .. MaxMishaps]
      /\ stopped \in [Tasks -> Commands \cup {"none"}]
  OBVIOUS
<1>5. PhasesOK /\ JobsOK /\ MishapsCounted
  BY DEF PhasesOK, JobsOK, MishapsCounted
<1> QED
  BY <1>1, <1>2, <1>3, <1>4, <1>5 DEF TypeInv, TypeOK

LEMMA CommandTypes ==
    ASSUME TypeInv, Command
    PROVE  TypeInv'
<1> USE ThreadFacts, RowFacts DEF TypeInv, PhasesOK, JobsOK, MishapsCounted, obs
<1>1. ASSUME NEW c \in Callers, NEW t \in Tasks, CreateTask(c, t)
      PROVE  TypeInv'
  <2>1. rows' \in [Tasks -> Row]
    BY <1>1 DEF CreateTask, NextRun, TypeOK, Row
  <2> QED
    BY <1>1, <2>1 DEF CreateTask, TypeOK
<1>2. ASSUME NEW c \in Callers, NEW t \in Tasks, NEW command \in Commands,
             ReadTask(c, t, command)
      PROVE  TypeInv'
  <2>1. lock' \in Locals \cup {Poller, Nobody}
    BY <1>2 DEF ReadTask, Acquire, TypeOK
  <2>2. copy' \in [Threads -> Row]
    BY <1>2 DEF ReadTask, TypeOK
  <2>3. /\ job' \in [Threads -> [task : Tasks \cup {Nobody},
                                 command : Commands \cup {"none"}]]
        /\ job'[c] = [task |-> t, command |-> command]
        /\ \A x \in Threads \ {c} : job'[x] = job[x]
    BY <1>2 DEF ReadTask, TypeOK
  <2>4. /\ pc' \in [Threads -> {"off", "write", "batch", "ask", "log", "read",
                                "advance"}]
        /\ pc'[c] = "write"
        /\ \A x \in Threads \ {c} : pc'[x] = pc[x]
    BY <1>2 DEF ReadTask, Goto, TypeOK
  <2>5. TypeOK'
    BY <1>2, <2>1, <2>2, <2>3, <2>4 DEF ReadTask, TypeOK
  <2>6. PhasesOK' /\ JobsOK' /\ MishapsCounted'
    BY <1>2, <2>3, <2>4 DEF ReadTask
  <2> QED
    BY <2>5, <2>6
<1> QED
  BY <1>1, <1>2 DEF Command

LEMMA WriteTypes ==
    ASSUME TypeInv, NEW c \in Callers, WriteTask(c)
    PROVE  TypeInv'
<1> USE ThreadFacts, RowFacts
<1> DEFINE t == job[c].task
<1>1. t \in Tasks /\ job[c].command \in Commands /\ copy[c] \in Row
  BY DEF TypeInv, TypeOK, JobsOK, WriteTask
<1>2. rows' \in [Tasks -> Row]
  BY <1>1, ChangedType DEF WriteTask, TypeInv, TypeOK
<1>3. stopped' \in [Tasks -> Commands \cup {"none"}]
  BY <1>1 DEF WriteTask, TypeInv, TypeOK
<1>4. lock' \in Locals \cup {Poller, Nobody}
  BY DEF WriteTask, Release, TypeInv, TypeOK
<1>5. /\ copy' \in [Threads -> Row]
      /\ job' \in [Threads -> [task : Tasks \cup {Nobody},
                               command : Commands \cup {"none"}]]
      /\ \A x \in Threads \ {c} : job'[x] = job[x]
  BY DEF WriteTask, Drop, TypeInv, TypeOK
<1>6. /\ pc' \in [Threads -> {"off", "write", "batch", "ask", "log", "read",
                              "advance"}]
      /\ pc'[c] = "off"
      /\ \A x \in Threads \ {c} : pc'[x] = pc[x]
  BY DEF WriteTask, Goto, TypeInv, TypeOK
<1>7. TypeOK'
  BY <1>2, <1>3, <1>4, <1>5, <1>6 DEF WriteTask, TypeInv, TypeOK
<1>8. PhasesOK' /\ JobsOK' /\ MishapsCounted'
  BY <1>5, <1>6 DEF WriteTask, TypeInv, PhasesOK, JobsOK, MishapsCounted
<1> QED
  BY <1>7, <1>8 DEF TypeInv

LEMMA PollTypes ==
    ASSUME TypeInv, PollStep
    PROVE  TypeInv'
<1> USE ThreadFacts, RowFacts
        DEF TypeInv, PhasesOK, JobsOK, MishapsCounted, Goto, obs
<1>1. CASE Poll
  BY <1>1 DEF Poll, Due, TypeOK
<1>2. ASSUME NEW t \in Tasks, Execute(t) PROVE TypeInv'
  <2>1. /\ job' \in [Threads -> [task : Tasks \cup {Nobody},
                                 command : Commands \cup {"none"}]]
        /\ job'[Poller].task = t
        /\ \A x \in Threads \ {Poller} : job'[x] = job[x]
    BY <1>2 DEF Execute, TypeOK
  <2> QED
    BY <1>2, <2>1 DEF Execute, TypeOK
<1>3. CASE AskEnds
  BY <1>3 DEF AskEnds, TypeOK
<1>4. CASE LogRun
  <2>1. runs' \in [Tasks -> 0 .. MaxRuns]
    BY <1>4, ConstantsAssumption DEF LogRun, TypeOK
  <2> QED
    BY <1>4, <2>1 DEF LogRun, Acquire, TypeOK
<1>5. CASE ReadBack
  BY <1>5 DEF ReadBack, TypeOK
<1>6. CASE Advance
  <2>1. rows' \in [Tasks -> Row]
    BY <1>6 DEF Advance, NextRun, TypeOK, Row
  <2>2. /\ copy' \in [Threads -> Row]
        /\ job' \in [Threads -> [task : Tasks \cup {Nobody},
                                 command : Commands \cup {"none"}]]
        /\ \A x \in Threads \ {Poller} : job'[x] = job[x]
    BY <1>6 DEF Advance, Drop, TypeOK
  <2>3. lock' \in Locals \cup {Poller, Nobody}
    BY <1>6 DEF Advance, Release, TypeOK
  <2> QED
    BY <1>6, <2>1, <2>2, <2>3 DEF Advance, TypeOK
<1>7. CASE EndBatch
  BY <1>7 DEF EndBatch, TypeOK
<1> QED
  BY <1>1, <1>2, <1>3, <1>4, <1>5, <1>6, <1>7 DEF PollStep

LEMMA MishapTypes ==
    ASSUME TypeInv, Mishap
    PROVE  /\ mishaps' \in 0 .. MaxMishaps
           /\ redone' \in [Tasks -> 0 .. MaxMishaps]
           /\ MishapsCounted'
<1>1. mishaps' \in 0 .. MaxMishaps
  BY ConstantsAssumption DEF TypeInv, TypeOK, Mishap
<1>2. ASSUME NEW t \in Tasks
      PROVE  redone'[t] \in Nat /\ redone'[t] <= mishaps'
  BY ConstantsAssumption DEF TypeInv, TypeOK, MishapsCounted, Mishap
<1>3. redone' \in [Tasks -> 0 .. MaxMishaps]
  BY <1>1, <1>2, ConstantsAssumption DEF Mishap
<1> QED
  BY <1>1, <1>2, <1>3 DEF MishapsCounted

LEMMA OutsideTypes ==
    ASSUME TypeInv, (\E t \in Tasks : Tick(t)) \/ PollFails \/ Crash
    PROVE  TypeInv'
<1> USE ThreadFacts, RowFacts
<1>1. ASSUME NEW t \in Tasks, Tick(t) PROVE TypeInv'
  <2>1. rows' \in [Tasks -> Row]
    <3>1. rows[t] \in Row /\ [rows[t] EXCEPT !.next = "now"] \in Row
      BY DEF TypeInv, TypeOK, Row
    <3>2. rows' = [rows EXCEPT ![t] = [rows[t] EXCEPT !.next = "now"]]
      BY <1>1 DEF Tick, TypeInv, TypeOK
    <3> QED
      BY <3>1, <3>2 DEF TypeInv, TypeOK
  <2> QED
    BY <1>1, <2>1 DEF Tick, TypeInv, TypeOK, PhasesOK, JobsOK, MishapsCounted,
                      obs
<1>2. CASE PollFails
  <2>1. /\ mishaps' \in 0 .. MaxMishaps
        /\ redone' \in [Tasks -> 0 .. MaxMishaps]
        /\ MishapsCounted'
    BY <1>2, MishapTypes DEF PollFails
  <2>2. lock' \in Locals \cup {Poller, Nobody}
    BY <1>2 DEF PollFails, TypeInv, TypeOK
  <2>3. /\ copy' \in [Threads -> Row]
        /\ job' \in [Threads -> [task : Tasks \cup {Nobody},
                                 command : Commands \cup {"none"}]]
        /\ \A x \in Threads \ {Poller} : job'[x] = job[x]
    BY <1>2 DEF PollFails, Drop, TypeInv, TypeOK
  <2>4. /\ pc' \in [Threads -> {"off", "write", "batch", "ask", "log", "read",
                                "advance"}]
        /\ pc'[Poller] = "off"
        /\ \A x \in Threads \ {Poller} : pc'[x] = pc[x]
    BY <1>2 DEF PollFails, Goto, TypeInv, TypeOK
  <2>5. TypeOK'
    BY <1>2, <2>1, <2>2, <2>3, <2>4 DEF PollFails, Mishap, TypeInv, TypeOK
  <2>6. PhasesOK' /\ JobsOK'
    BY <2>3, <2>4 DEF TypeInv, PhasesOK, JobsOK
  <2> QED
    BY <2>1, <2>5, <2>6 DEF TypeInv
<1>3. CASE Crash
  <2>1. /\ mishaps' \in 0 .. MaxMishaps
        /\ redone' \in [Tasks -> 0 .. MaxMishaps]
        /\ MishapsCounted'
    BY <1>3, MishapTypes DEF Crash
  <2>2. copy' \in [Threads -> Row]
    BY <1>3 DEF Crash, TypeInv, TypeOK
  <2>3. job' \in [Threads -> [task : Tasks \cup {Nobody},
                              command : Commands \cup {"none"}]]
    BY <1>3 DEF Crash, TypeInv, TypeOK
  <2>4. pc' \in [Threads -> {"off", "write", "batch", "ask", "log", "read",
                             "advance"}]
    BY <1>3 DEF Crash, TypeInv, TypeOK
  <2>5. TypeOK'
    BY <1>3, <2>1, <2>2, <2>3, <2>4 DEF Crash, Mishap, TypeInv, TypeOK
  <2>6. PhasesOK' /\ JobsOK'
    BY <1>3 DEF Crash, TypeInv, TypeOK, PhasesOK, JobsOK
  <2> QED
    BY <2>1, <2>5, <2>6 DEF TypeInv
<1> QED
  BY <1>1, <1>2, <1>3

LEMMA NextTypes == TypeInv /\ [Next]_vars => TypeInv'
<1> SUFFICES ASSUME TypeInv, [Next]_vars PROVE TypeInv'
  OBVIOUS
<1>1. CASE UNCHANGED vars
  BY <1>1 DEF vars, TypeInv, TypeOK, PhasesOK, JobsOK, MishapsCounted
<1> QED
  BY <1>1, CommandTypes, WriteTypes, PollTypes, OutsideTypes DEF Next

\* Every reachable state is well typed: no command, run, failure or crash
\* stores a status or a next_run that the scheduler does not know
\* (scheduler.py:128-281).
THEOREM TypeInvariant == Spec => []TypeInv
BY InitTypes, NextTypes, PTL DEF Spec

THEOREM TypeCorrect == Spec => []TypeOK
<1>1. TypeInv => TypeOK
  BY DEF TypeInv
<1> QED
  BY <1>1, TypeInvariant, PTL

-----------------------------------------------------------------------------
(* The lock.  Without callers in other processes, whoever is between a     *)
(* read and a write holds the lock, and what was read is still in the row, *)
(* but for its next_run, which time may have reached.                      *)

Between == {"write", "read", "advance"}

LockHeld == \A x \in Threads : pc[x] \in Between => lock = x

ReadHolds ==
    \A x \in Threads : pc[x] \in {"write", "advance"} =>
        /\ copy[x].status = rows[job[x].task].status
        /\ copy[x].last = rows[job[x].task].last

LockInv == TypeInv /\ LockHeld /\ ReadHolds

LEMMA LockNext ==
    ASSUME Remotes = {}, LockInv, [Next]_vars
    PROVE  LockHeld' /\ ReadHolds'
<1> USE ThreadFacts DEF LockInv, LockHeld, ReadHolds, Between
<1>1. ASSUME NEW c \in Callers, NEW t \in Tasks, CreateTask(c, t)
      PROVE  LockHeld' /\ ReadHolds'
  <2>1. lock = Nobody
    BY <1>1 DEF CreateTask
  <2>2. \A x \in Threads : pc[x] \notin Between
    BY <2>1, ThreadsAssumption
  <2> QED
    BY <1>1, <2>2 DEF CreateTask
<1>2. ASSUME NEW c \in Callers, NEW t \in Tasks, NEW command \in Commands,
             ReadTask(c, t, command)
      PROVE  LockHeld' /\ ReadHolds'
  <2>1. lock = Nobody /\ lock' = c
    BY <1>2 DEF ReadTask, Acquire
  <2>2. \A x \in Threads : pc[x] \notin Between
    BY <2>1, ThreadsAssumption
  <2>3. \A x \in Threads \ {c} : pc'[x] \notin Between
    BY <1>2, <2>2 DEF ReadTask, Goto, TypeInv, TypeOK
  <2>4. job'[c].task = t /\ copy'[c] = rows'[t]
    BY <1>2 DEF ReadTask, TypeInv, TypeOK
  <2> QED
    BY <2>1, <2>3, <2>4
<1>3. ASSUME NEW c \in Callers, WriteTask(c) PROVE LockHeld' /\ ReadHolds'
  <2>1. \A x \in Threads \ {c} : pc[x] \notin Between
    BY <1>3 DEF WriteTask
  <2>2. \A x \in Threads : pc'[x] \notin Between
    BY <1>3, <2>1 DEF WriteTask, Goto, TypeInv, TypeOK
  <2> QED
    BY <2>2
<1>4. CASE Poll \/ (\E t \in Tasks : Execute(t)) \/ AskEnds \/ EndBatch
  <2>1. /\ UNCHANGED <<rows, lock, copy>>
        /\ pc[Poller] \notin Between
        /\ pc' \in [Threads -> {"off", "write", "batch", "ask", "log", "read",
                                "advance"}]
        /\ pc'[Poller] \notin Between
        /\ \A x \in Threads \ {Poller} : pc'[x] = pc[x] /\ job'[x] = job[x]
    BY <1>4 DEF Poll, Execute, AskEnds, EndBatch, Goto, TypeInv, TypeOK, obs
  <2> QED
    BY <2>1
<1>5. CASE LogRun
  <2>1. lock = Nobody /\ lock' = Poller
    BY <1>5 DEF LogRun, Acquire
  <2>2. \A x \in Threads : pc[x] \notin Between
    BY <2>1, ThreadsAssumption
  <2>3. /\ \A x \in Threads \ {Poller} : pc'[x] \notin Between
        /\ pc'[Poller] = "read"
    BY <1>5, <2>2 DEF LogRun, Goto, TypeInv, TypeOK
  <2> QED
    BY <2>1, <2>3
<1>6. CASE ReadBack
  <2>1. \A x \in Threads \ {Poller} : pc[x] \notin Between
    BY <1>6 DEF ReadBack
  <2>2. /\ \A x \in Threads \ {Poller} : pc'[x] \notin Between
        /\ lock' = Poller
        /\ copy'[Poller] = rows'[job'[Poller].task]
    BY <1>6, <2>1 DEF ReadBack, Goto, TypeInv, TypeOK
  <2> QED
    BY <2>2
<1>7. CASE Advance
  <2>1. \A x \in Threads \ {Poller} : pc[x] \notin Between
    BY <1>7 DEF Advance
  <2>2. \A x \in Threads : pc'[x] \notin Between
    BY <1>7, <2>1 DEF Advance, Goto, TypeInv, TypeOK
  <2> QED
    BY <2>2
<1>8. ASSUME NEW t \in Tasks, Tick(t) PROVE LockHeld' /\ ReadHolds'
  <2>1. \A u \in Tasks : /\ rows'[u].status = rows[u].status
                         /\ rows'[u].last = rows[u].last
    BY <1>8 DEF Tick, TypeInv, TypeOK, Row
  <2>2. \A x \in Threads : pc[x] \in {"write", "advance"} => job[x].task \in Tasks
    BY DEF TypeInv, JobsOK
  <2> QED
    BY <1>8, <2>1, <2>2 DEF Tick
<1>9. CASE PollFails
  <2>1. \A x \in Threads \ {Poller} : pc[x] \in Between => lock # Poller
    OBVIOUS
  <2>2. /\ \A x \in Threads \ {Poller} : /\ pc'[x] = pc[x] /\ job'[x] = job[x]
                                         /\ copy'[x] = copy[x]
        /\ pc'[Poller] = "off"
    BY <1>9 DEF PollFails, Drop, Goto, TypeInv, TypeOK
  <2>3. lock' = lock \/ lock = Poller
    BY <1>9 DEF PollFails
  <2>4. rows' = rows
    BY <1>9 DEF PollFails
  <2> QED
    BY <2>1, <2>2, <2>3, <2>4
<1>10. CASE Crash
  <2>1. \A x \in Threads : pc'[x] = "off"
    BY <1>10 DEF Crash
  <2> QED
    BY <2>1
<1>11. CASE UNCHANGED vars
  BY <1>11 DEF vars
<1> QED
  BY <1>1, <1>2, <1>3, <1>4, <1>5, <1>6, <1>7, <1>8, <1>9, <1>10, <1>11
     DEF Next, Command, PollStep

\* Without callers in other processes nobody writes a row that somebody else
\* has changed since it was read (scheduler.py:100-186 and 231-263).
THEOREM LockInvariant ==
    ASSUME Remotes = {}
    PROVE  Spec => []LockInv
<1>1. Init => LockInv
  BY InitTypes DEF Init, LockInv, LockHeld, ReadHolds, Between
<1>2. LockInv /\ [Next]_vars => LockInv'
  BY LockNext, NextTypes DEF LockInv
<1> QED
  BY <1>1, <1>2, PTL DEF Spec

-----------------------------------------------------------------------------
(* Stopped tasks.                                                          *)

\* A task whose last command was a pause or a cancel is not active: a run
\* that ends after the command keeps the status it reads back, or completes.
StoppedInactive ==
    \A t \in Tasks :
        /\ stopped[t] \in {"pause", "cancel"} => rows[t].status # "active"
        /\ rows[t].status = "none" => stopped[t] = "none"

LEMMA StoppedNext ==
    ASSUME LockInv, StoppedInactive, [Next]_vars
    PROVE  StoppedInactive'
<1> USE ThreadFacts DEF StoppedInactive
<1>1. ASSUME NEW c \in Callers, NEW t \in Tasks, CreateTask(c, t)
      PROVE  StoppedInactive'
  <2>1. rows[t].status = "none" /\ stopped' = stopped
    BY <1>1 DEF CreateTask, NoRow, obs
  <2>2. \A u \in Tasks \ {t} : rows'[u] = rows[u]
    BY <1>1 DEF CreateTask, LockInv, TypeInv, TypeOK
  <2> QED
    BY <1>1, <2>1, <2>2 DEF CreateTask, LockInv, TypeInv, TypeOK
<1>2. ASSUME NEW c \in Callers, WriteTask(c) PROVE StoppedInactive'
  <2> DEFINE t == job[c].task
  <2>1. t \in Tasks /\ job[c].command \in Commands /\ copy[c] \in Row
    BY <1>2 DEF LockInv, TypeInv, TypeOK, JobsOK, WriteTask
  <2>2. /\ rows'[t] = Changed(t, copy[c], job[c].command)
        /\ stopped'[t] = job[c].command
        /\ \A u \in Tasks \ {t} : rows'[u] = rows[u] /\ stopped'[u] = stopped[u]
    BY <1>2, <2>1 DEF WriteTask, LockInv, TypeInv, TypeOK
  <2>3. rows'[t].status # "none"
    BY <2>1, <2>2, ChangedType
  <2>4. job[c].command \in {"pause", "cancel"} => rows'[t].status # "active"
    BY <2>1, <2>2 DEF Changed, Row
  <2> QED
    BY <2>2, <2>3, <2>4
<1>3. CASE Advance
  <2> DEFINE t == job[Poller].task
  <2>1. t \in Tasks /\ copy[Poller].status = rows[t].status
    BY <1>3 DEF LockInv, TypeInv, JobsOK, ReadHolds, Advance
  <2>2. rows'[t].status \in {"completed", rows[t].status}
    BY <1>3, <2>1 DEF Advance, LockInv, TypeInv, TypeOK
  <2>3. /\ stopped' = stopped
        /\ \A u \in Tasks \ {t} : rows'[u] = rows[u]
    BY <1>3 DEF Advance, LockInv, TypeInv, TypeOK, obs
  <2> QED
    BY <2>1, <2>2, <2>3
<1>4. ASSUME NEW t \in Tasks, Tick(t) PROVE StoppedInactive'
  <2>1. \A u \in Tasks : rows'[u].status = rows[u].status
    BY <1>4 DEF Tick, LockInv, TypeInv, TypeOK, Row
  <2> QED
    BY <1>4, <2>1 DEF Tick, obs
<1>5. CASE \/ \E c \in Callers, t \in Tasks, command \in Commands :
                ReadTask(c, t, command)
           \/ Poll \/ (\E t \in Tasks : Execute(t)) \/ AskEnds \/ LogRun
           \/ ReadBack \/ EndBatch \/ PollFails \/ Crash \/ UNCHANGED vars
  <2>1. UNCHANGED <<rows, stopped>>
    BY <1>5 DEF ReadTask, Poll, Execute, AskEnds, LogRun, ReadBack, EndBatch,
                PollFails, Crash, vars, obs
  <2> QED
    BY <2>1
<1> QED
  BY <1>1, <1>2, <1>3, <1>4, <1>5 DEF Next, Command, PollStep

\* Without callers in other processes, no task whose last command was a pause
\* or a cancel is taken up again, whatever its runs, failures and crashes
\* write (scheduler.py:157-186 and 234-263).
THEOREM StoppedNotTaken ==
    ASSUME Remotes = {}
    PROVE  Spec => StoppedStaysStopped
<1>1. Init => StoppedInactive
  BY DEF Init, StoppedInactive, NoRow
<1>2. LockInv /\ StoppedInactive /\ [Next]_vars => StoppedInactive'
  BY StoppedNext
<1>3. Spec => []StoppedInactive
  BY <1>1, <1>2, LockInvariant, PTL DEF Spec
<1>4. ASSUME StoppedInactive, [Next]_vars PROVE TakesNoStopped \/ UNCHANGED vars
  <2>1. CASE Poll
    BY <1>4, <2>1 DEF Poll, Due, StoppedInactive, TakesNoStopped
  <2>2. ASSUME ~Poll PROVE batch' \subseteq batch
    <3> QED
      BY <1>4, <2>2 DEF Next, Command, CreateTask, ReadTask, WriteTask, Tick,
         PollStep, Execute, AskEnds, LogRun, ReadBack, Advance, EndBatch,
         PollFails, Crash, Mishap, vars
  <2> QED
    BY <2>1, <2>2 DEF TakesNoStopped
<1>5. StoppedInactive /\ [Next]_vars => [TakesNoStopped]_vars
  BY <1>4
<1> QED
  BY <1>3, <1>5, PTL DEF Spec, StoppedStaysStopped

-----------------------------------------------------------------------------
(* Tasks that are to run once.                                             *)

\* A run of t is logged and its row does not say so yet.
Logged(t) == pc[Poller] \in {"read", "advance"} /\ job[Poller].task = t

\* The poller has t in hand or before it.
Taken(t) ==
    \/ t \in batch
    \/ pc[Poller] \in {"ask", "log", "read", "advance"} /\ job[Poller].task = t

\* A row that counts its run has no next one, whoever changes it from a copy;
\* until then every logged run but the one in hand was hit by a mishap.
OnceInv ==
    /\ \A t \in Once :
          /\ rows[t].last => rows[t].next = "none" /\ ~Taken(t)
          /\ runs[t] <= 1 + redone[t]
          /\ ~rows[t].last /\ ~Logged(t) => runs[t] <= redone[t]
    /\ \A c \in Callers :
          pc[c] = "write" /\ job[c].task \in Once /\ copy[c].last
          => copy[c].next = "none"
    /\ pc[Poller] \in {"ask", "log", "read", "advance"}
       => job[Poller].task \notin batch

LEMMA CountFacts ==
    ASSUME TypeInv, NEW t \in Once
    PROVE  t \in Tasks /\ runs[t] \in Nat /\ redone[t] \in Nat
BY ConstantsAssumption DEF TypeInv, TypeOK, Tasks

LEMMA OnceByCallers ==
    ASSUME LockInv, OnceInv,
           \/ Command
           \/ \E c \in Callers : WriteTask(c)
    PROVE  OnceInv'
<1> USE ThreadFacts DEF Logged, Taken
<1>1. ASSUME NEW c \in Callers, NEW t \in Tasks, CreateTask(c, t)
      PROVE  OnceInv'
  <2>1. UNCHANGED <<pc, job, copy, batch, runs, redone>>
    BY <1>1 DEF CreateTask, obs
  <2>2. ~rows[t].last /\ ~rows'[t].last
    BY <1>1 DEF CreateTask, NoRow, LockInv, TypeInv, TypeOK
  <2>3. \A u \in Tasks \ {t} : rows'[u] = rows[u]
    BY <1>1 DEF CreateTask, LockInv, TypeInv, TypeOK
  <2> QED
    BY <2>1, <2>2, <2>3 DEF OnceInv, Tasks
<1>2. ASSUME NEW c \in Callers, NEW t \in Tasks, NEW command \in Commands,
             ReadTask(c, t, command)
      PROVE  OnceInv'
  <2>1. UNCHANGED <<rows, batch, runs, redone>>
    BY <1>2 DEF ReadTask, obs
  <2>2. /\ pc'[Poller] = pc[Poller] /\ job'[Poller] = job[Poller]
        /\ \A x \in Threads \ {c} : /\ pc'[x] = pc[x] /\ job'[x] = job[x]
                                    /\ copy'[x] = copy[x]
    BY <1>2 DEF ReadTask, Goto, LockInv, TypeInv, TypeOK
  <2>3. job'[c].task = t /\ copy'[c] = rows[t]
    BY <1>2 DEF ReadTask, LockInv, TypeInv, TypeOK
  <2> QED
    BY <2>1, <2>2, <2>3 DEF OnceInv
<1>3. ASSUME NEW c \in Callers, WriteTask(c) PROVE OnceInv'
  <2> DEFINE t == job[c].task
  <2>1. t \in Tasks /\ job[c].command \in Commands /\ copy[c] \in Row
    BY <1>3 DEF LockInv, TypeInv, TypeOK, JobsOK, WriteTask
  <2>2. /\ rows'[t] = Changed(t, copy[c], job[c].command)
        /\ \A u \in Tasks \ {t} : rows'[u] = rows[u]
    BY <1>3, <2>1 DEF WriteTask, LockInv, TypeInv, TypeOK
  <2>3. rows'[t].last = rows[t].last /\ copy[c].last = rows[t].last
    BY <1>3, <2>1, <2>2, ChangedType DEF LockInv, ReadHolds, WriteTask
  <2>4. t \in Once /\ copy[c].last => rows'[t].next = "none"
    <3> SUFFICES ASSUME t \in Once, copy[c].last PROVE rows'[t].next = "none"
      OBVIOUS
    <3>1. copy[c].next = "none"
      BY <1>3 DEF OnceInv, WriteTask
    <3> QED
      BY <2>1, <2>2, <3>1 DEF Changed, NextRun, Commands, Row
  <2>5. /\ pc'[Poller] = pc[Poller] /\ job'[Poller] = job[Poller]
        /\ pc'[c] = "off"
        /\ \A x \in Threads \ {c} : /\ pc'[x] = pc[x] /\ job'[x] = job[x]
                                    /\ copy'[x] = copy[x]
    BY <1>3 DEF WriteTask, Drop, Goto, LockInv, TypeInv, TypeOK
  <2>6. UNCHANGED <<batch, runs, redone>>
    BY <1>3 DEF WriteTask
  <2> QED
    BY <2>1, <2>2, <2>3, <2>4, <2>5, <2>6 DEF OnceInv, Tasks
<1> QED
  BY <1>1, <1>2, <1>3 DEF Command

\* Nothing that a caller read is disturbed by the poller.
LEMMA OnceByPoller ==
    ASSUME LockInv, OnceInv, PollStep
    PROVE  OnceInv'
<1> USE ThreadFacts DEF Logged, Taken, Goto
<1>1. \A c \in Callers : pc'[c] = pc[c] /\ job'[c] = job[c] /\ copy'[c] = copy[c]
  BY DEF PollStep, Poll, Execute, AskEnds, LogRun, ReadBack, Advance, EndBatch,
         Drop, LockInv, TypeInv, TypeOK
<1>2. redone' = redone
  BY DEF PollStep, Poll, Execute, AskEnds, LogRun, ReadBack, Advance, EndBatch, obs
<1>3. CASE Poll
  BY <1>1, <1>3 DEF Poll, Due, OnceInv, LockInv, TypeInv, TypeOK, obs
<1>4. ASSUME NEW t \in Tasks, Execute(t) PROVE OnceInv'
  <2>1. job'[Poller].task = t /\ pc'[Poller] = "ask"
    BY <1>4 DEF Execute, LockInv, TypeInv, TypeOK
  <2> QED
    BY <1>1, <1>4, <2>1 DEF Execute, OnceInv, obs
<1>5. CASE AskEnds \/ ReadBack \/ EndBatch
  BY <1>1, <1>5 DEF AskEnds, ReadBack, EndBatch, OnceInv, LockInv, TypeInv,
                    TypeOK, obs
<1>6. CASE LogRun
  <2> DEFINE t == job[Poller].task
  <2>1. t \in Tasks /\ pc'[Poller] = "read"
    BY <1>6 DEF LogRun, LockInv, TypeInv, TypeOK, JobsOK
  <2>2. runs[t] \in Nat /\ runs'[t] <= runs[t] + 1
    BY <1>6, <2>1, ConstantsAssumption DEF LogRun, LockInv, TypeInv, TypeOK
  <2>3. \A u \in Tasks \ {t} : runs'[u] = runs[u]
    BY <1>6, <2>1 DEF LogRun, LockInv, TypeInv, TypeOK
  <2>4. UNCHANGED <<rows, job, batch>>
    BY <1>6 DEF LogRun
  <2>5. ASSUME NEW u \in Once, u = t PROVE runs'[u] <= 1 + redone[u]
    <3>1. runs[u] <= redone[u]
      BY <1>6, <2>5 DEF OnceInv, LogRun
    <3>2. redone[u] \in Nat
      BY CountFacts DEF LockInv
    <3>3. runs'[u] <= runs[u] + 1 /\ runs[u] \in Nat
      BY <2>2, <2>5
    <3>4. runs'[u] \in Nat
      BY <1>6, <2>1, <2>5, ConstantsAssumption
      DEF LogRun, LockInv, TypeInv, TypeOK
    <3> QED
      BY <3>1, <3>2, <3>3, <3>4
  <2> QED
    BY <1>1, <1>2, <1>6, <2>1, <2>3, <2>4, <2>5 DEF OnceInv, LogRun, Tasks
<1>7. CASE Advance
  <2> DEFINE t == job[Poller].task
  <2>1. t \in Tasks /\ pc'[Poller] = "batch" /\ pc[Poller] = "advance"
    BY <1>7 DEF Advance, LockInv, TypeInv, TypeOK, JobsOK
  <2>2. /\ t \in Once => rows'[t].next = "none"
        /\ rows'[t].last = TRUE
        /\ \A u \in Tasks \ {t} : rows'[u] = rows[u]
    BY <1>7, <2>1 DEF Advance, NextRun, LockInv, TypeInv, TypeOK
  <2>3. UNCHANGED <<batch, runs>>
    BY <1>7 DEF Advance, obs
  <2>4. t \notin batch
    BY <2>1 DEF OnceInv
  <2>5. ASSUME NEW u \in Once
        PROVE  /\ rows'[u].last => rows'[u].next = "none" /\ ~Taken(u)'
               /\ runs'[u] <= 1 + redone'[u]
               /\ ~rows'[u].last /\ ~Logged(u)' => runs'[u] <= redone'[u]
    <3>1. CASE u = t
      BY <1>2, <2>1, <2>2, <2>3, <2>4, <2>5, <3>1 DEF OnceInv
    <3>2. CASE u # t
      <4>1. rows'[u] = rows[u]
        BY <2>2, <2>5, <3>2 DEF Tasks
      <4>2. ~Logged(u) /\ (Taken(u)' => Taken(u))
        BY <2>1, <2>3, <3>2
      <4> QED
        BY <1>2, <2>3, <4>1, <4>2, <2>5 DEF OnceInv
    <3> QED
      BY <3>1, <3>2
  <2> QED
    BY <1>1, <2>1, <2>5 DEF OnceInv
<1> QED
  BY <1>3, <1>4, <1>5, <1>6, <1>7 DEF PollStep

LEMMA OnceOutside ==
    ASSUME LockInv, OnceInv,
           \/ \E t \in Tasks : Tick(t)
           \/ PollFails \/ Crash \/ UNCHANGED vars
    PROVE  OnceInv'
<1> USE ThreadFacts DEF Logged, Taken
<1>1. ASSUME NEW t \in Tasks, Tick(t) PROVE OnceInv'
  <2>1. UNCHANGED <<pc, job, copy, batch, runs, redone>>
    BY <1>1 DEF Tick, obs
  <2>2. /\ \A u \in Tasks \ {t} : rows'[u] = rows[u]
        /\ rows[t].next = "later" /\ rows'[t].last = rows[t].last
    BY <1>1 DEF Tick, LockInv, TypeInv, TypeOK, Row
  <2>3. \A u \in Once : /\ rows'[u].last = rows[u].last
                        /\ rows'[u].next = rows[u].next \/ ~rows[u].last
    BY <2>2 DEF OnceInv, Tasks
  <2>4. ASSUME NEW u \in Once
        PROVE  /\ rows'[u].last => rows'[u].next = "none" /\ ~Taken(u)'
               /\ runs'[u] <= 1 + redone'[u]
               /\ ~rows'[u].last /\ ~Logged(u)' => runs'[u] <= redone'[u]
    <3>1. /\ rows[u].last => rows[u].next = "none" /\ ~Taken(u)
          /\ runs[u] <= 1 + redone[u]
          /\ ~rows[u].last /\ ~Logged(u) => runs[u] <= redone[u]
      BY <2>4 DEF OnceInv
    <3>2. rows'[u].last = rows[u].last
      BY <2>3, <2>4
    <3>3. rows[u].last => rows'[u].next = "none"
      BY <2>3, <2>4, <3>1
    <3> QED
      BY <2>1, <3>1, <3>2, <3>3
  <2> QED
    BY <2>1, <2>4 DEF OnceInv
<1>2. ASSUME Mishap, UNCHANGED <<rows, runs>>,
             pc'[Poller] = "off",
             \A c \in Callers : \/ pc'[c] = "off"
                               \/ /\ pc'[c] = pc[c] /\ job'[c] = job[c]
                                  /\ copy'[c] = copy[c]
      PROVE  OnceInv'
  <2>1. ASSUME NEW u \in Once
        PROVE  /\ runs'[u] <= 1 + redone'[u]
               /\ ~rows'[u].last => runs'[u] <= redone'[u]
    <3>1. runs[u] \in Nat /\ redone[u] \in Nat /\ u \in Tasks
      BY <2>1, CountFacts DEF LockInv
    <3>2. redone'[u] = IF Logged(u) THEN redone[u] + 1 ELSE redone[u]
      BY <1>2, <3>1 DEF Mishap
    <3>3. /\ runs[u] <= 1 + redone[u]
          /\ ~rows[u].last /\ ~Logged(u) => runs[u] <= redone[u]
      BY <2>1 DEF OnceInv
    <3> HIDE DEF Logged
    <3> QED
      BY <1>2, <3>1, <3>2, <3>3
  <2> QED
    BY <1>2, <2>1 DEF OnceInv, Mishap
<1>3. CASE PollFails
  <2>1. /\ pc'[Poller] = "off"
        /\ \A c \in Callers : /\ pc'[c] = pc[c] /\ job'[c] = job[c]
                              /\ copy'[c] = copy[c]
    BY <1>3 DEF PollFails, Goto, Drop, LockInv, TypeInv, TypeOK
  <2> QED
    BY <1>2, <1>3, <2>1 DEF PollFails
<1>4. CASE Crash
  <2>1. \A x \in Threads : x \notin Remotes => pc'[x] = "off"
    BY <1>4 DEF Crash
  <2>2. \A x \in Remotes : x \in Threads =>
           pc'[x] = pc[x] /\ job'[x] = job[x] /\ copy'[x] = copy[x]
    BY <1>4 DEF Crash
  <2> QED
    BY <1>2, <1>4, <2>1, <2>2 DEF Crash
<1>5. CASE UNCHANGED vars
  BY <1>5 DEF vars, OnceInv
<1> QED
  BY <1>1, <1>3, <1>4, <1>5

\* Without callers in other processes, a task that is to run once is logged
\* at most once for itself and once for every crash or failed statement that
\* came between its log and its row (scheduler.py:204-281).
THEOREM OnceRunsAtMostOnce ==
    ASSUME Remotes = {}
    PROVE  Spec => []OnceRunsOnce
<1>1. Init => OnceInv
  <2> SUFFICES ASSUME Init PROVE OnceInv
    OBVIOUS
  <2>1. \A t \in Once : /\ ~rows[t].last /\ ~Taken(t)
                        /\ runs[t] = 0 /\ redone[t] = 0
    BY ThreadFacts DEF Init, NoRow, Tasks, Taken
  <2>2. \A x \in Threads : pc[x] = "off"
    BY DEF Init
  <2> QED
    BY <2>1, <2>2, ThreadFacts DEF OnceInv
<1>2. LockInv /\ OnceInv /\ [Next]_vars => OnceInv'
  BY OnceByCallers, OnceByPoller, OnceOutside DEF Next
<1>3. OnceInv => OnceRunsOnce
  BY DEF OnceInv, OnceRunsOnce
<1> QED
  BY <1>1, <1>2, <1>3, LockInvariant, PTL DEF Spec

-----------------------------------------------------------------------------
(* The promise of TaskPromise.  A command is the write of its row: the     *)
(* lock has kept the row as it was read, its next_run too, but for the     *)
(* time, which the promise does not see.  The end of a run is the advance. *)

\* A row that was created keeps a status; what a caller or the poller works on
\* was created; what was read has a next run if the row has one.
PlansHold ==
    /\ \A t \in Tasks : rows[t].status = "none" => rows[t] = NoRow
    /\ \A c \in Callers : pc[c] = "write" =>
          /\ job[c].task \in Promise!Known
          /\ copy[c].next = "none" <=> rows[job[c].task].next = "none"

\* The poller works on one task at a time, and its batch ends with the poll.
OneAtATime ==
    /\ UnderWay \subseteq Promise!Known
    /\ pc[Poller] = "off" => batch = {}
    /\ pc[Poller] \in {"ask", "log", "read", "advance"}
       => job[Poller].task \notin batch

PromiseInv == LockInv /\ PlansHold /\ OneAtATime

LEMMA KnownFacts ==
    /\ Promise!Known = {t \in Tasks : rows[t].status # "none"}
    /\ Promise!Tasks = Tasks
BY DEF Promise!Known, Promise!Tasks, Tasks, Status

\* What the promise sees of a row that is written.
LEMMA RowSeen ==
    ASSUME rows \in [Tasks -> Row], NEW t \in Tasks, NEW row \in Row,
           rows' = [rows EXCEPT ![t] = row]
    PROVE  /\ Promise!Say(t, row.status)
           /\ Planned' = IF row.next = "none" THEN Planned \ {t}
                                              ELSE Planned \cup {t}
           /\ HaveRun' = IF row.last THEN HaveRun \cup {t} ELSE HaveRun \ {t}
<1>1. rows'[t] = row /\ \A u \in Tasks \ {t} : rows'[u] = rows[u]
  OBVIOUS
<1>2. Promise!Say(t, row.status)
  BY <1>1 DEF Promise!Say, Status
<1>3. Planned' = IF row.next = "none" THEN Planned \ {t} ELSE Planned \cup {t}
  BY <1>1 DEF Planned
<1>4. HaveRun' = IF row.last THEN HaveRun \cup {t} ELSE HaveRun \ {t}
  BY <1>1 DEF HaveRun
<1> QED
  BY <1>2, <1>3, <1>4

\* Created rows stay created.
LEMMA KnownStays ==
    ASSUME rows \in [Tasks -> Row], NEW t \in Tasks, NEW row \in Row,
           rows' = [rows EXCEPT ![t] = row],
           row.status # "none" \/ row = rows[t]
    PROVE  Promise!Known \subseteq Promise!Known'
BY DEF Promise!Known, Promise!Tasks, Tasks, Status

\* Callers leave the poller alone.
LEMMA PromiseByCreate ==
    ASSUME PromiseInv, NEW c \in Callers, NEW t \in Tasks, CreateTask(c, t)
    PROVE  PlansHold' /\ OneAtATime' /\ Promise!Create(t)
<1> DEFINE row == [status |-> "active", next |-> NextRun(t, FALSE), last |-> FALSE]
<1>1. /\ row \in Row /\ row.status = "active" /\ row.next = "later" /\ ~row.last
      /\ rows \in [Tasks -> Row] /\ rows' = [rows EXCEPT ![t] = row]
      /\ rows[t] = NoRow
  BY DEF CreateTask, NextRun, Row, PromiseInv, LockInv, TypeInv, TypeOK
<1> HIDE DEF row
<1>2. UNCHANGED <<pc, job, copy, batch>>
  BY DEF CreateTask
<1>3. t \notin Promise!Known /\ t \notin HaveRun
  BY <1>1, KnownFacts DEF NoRow, HaveRun
<1>4. /\ Promise!Say(t, "active") /\ Planned' = Planned \cup {t}
      /\ HaveRun' = HaveRun
  <2>1. /\ Promise!Say(t, row.status)
        /\ Planned' = IF row.next = "none" THEN Planned \ {t} ELSE Planned \cup {t}
        /\ HaveRun' = IF row.last THEN HaveRun \cup {t} ELSE HaveRun \ {t}
    BY <1>1, RowSeen
  <2>2. Promise!Say(t, "active")
    BY <1>1, <2>1 DEF Promise!Say
  <2> QED
    BY <1>1, <1>3, <2>1, <2>2
<1>5. UnderWay' = UnderWay /\ Promise!Known \subseteq Promise!Known'
  BY <1>1, <1>2, KnownStays DEF UnderWay
<1>6. Promise!Create(t)
  BY <1>3, <1>4, <1>5 DEF Promise!Create
<1>7. PlansHold'
  <2>1. \A u \in Tasks \ {t} : rows'[u] = rows[u]
    BY <1>1
  <2>2. \A u \in Tasks : rows'[u].status = "none" => rows'[u] = NoRow
    BY <1>1, <2>1 DEF PromiseInv, PlansHold
  <2>3. ASSUME NEW d \in Callers, pc'[d] = "write"
        PROVE  /\ job'[d].task \in Promise!Known'
               /\ copy'[d].next = "none" <=> rows'[job'[d].task].next = "none"
    <3>1. job[d].task \in Promise!Known /\ job[d].task # t
      BY <1>2, <1>3, <2>3 DEF PromiseInv, PlansHold
    <3>2. job[d].task \in Tasks \ {t}
      BY <3>1, KnownFacts
    <3> QED
      BY <1>2, <1>5, <2>1, <2>3, <3>1, <3>2 DEF PromiseInv, PlansHold
  <2> QED
    BY <2>2, <2>3 DEF PlansHold
<1>8. OneAtATime'
  BY <1>2, <1>5 DEF PromiseInv, OneAtATime
<1> QED
  BY <1>6, <1>7, <1>8

LEMMA PromiseByRead ==
    ASSUME PromiseInv, NEW c \in Callers, NEW t \in Tasks,
           NEW command \in Commands, ReadTask(c, t, command)
    PROVE  PlansHold' /\ OneAtATime' /\ UNCHANGED Promise!vars
<1> USE ThreadFacts
<1>1. /\ UNCHANGED <<rows, batch>> /\ rows[t] # NoRow
      /\ pc'[c] = "write" /\ job'[c].task = t /\ copy'[c] = rows[t]
      /\ \A x \in Threads \ {c} : /\ pc'[x] = pc[x] /\ job'[x] = job[x]
                                  /\ copy'[x] = copy[x]
  BY DEF ReadTask, Goto, PromiseInv, LockInv, TypeInv, TypeOK
<1>2. UnderWay' = UnderWay /\ Promise!Known' = Promise!Known
  BY <1>1 DEF UnderWay, Promise!Known, Status
<1>3. UNCHANGED Promise!vars
  BY <1>1, <1>2 DEF Promise!vars, Status, Planned, HaveRun
<1>4. t \in Promise!Known
  BY <1>1, KnownFacts DEF PromiseInv, PlansHold
<1>5. PlansHold'
  BY <1>1, <1>2, <1>4 DEF PromiseInv, PlansHold
<1>6. OneAtATime'
  BY <1>1, <1>2 DEF PromiseInv, OneAtATime
<1> QED
  BY <1>3, <1>5, <1>6

\* The row that a command writes: what was read is what is there.
LEMMA PromiseByWrite ==
    ASSUME Remotes = {}, PromiseInv, NEW c \in Callers, WriteTask(c)
    PROVE  /\ PlansHold' /\ OneAtATime'
           /\ \E t \in Tasks : Promise!Pause(t) \/ Promise!Resume(t) \/ Promise!Cancel(t)
<1> USE ThreadFacts
<1> DEFINE t == job[c].task
           row == Changed(t, copy[c], job[c].command)
<1>1. /\ t \in Tasks /\ job[c].command \in Commands /\ copy[c] \in Row
      /\ rows \in [Tasks -> Row] /\ rows[t] \in Row /\ pc[c] = "write"
  BY DEF PromiseInv, LockInv, TypeInv, TypeOK, JobsOK, WriteTask
<1>2. /\ rows' = [rows EXCEPT ![t] = row]
      /\ row \in Row /\ row.status # "none" /\ row.last = copy[c].last
  BY <1>1, ChangedType DEF WriteTask
<1>3. /\ copy[c].last = rows[t].last /\ t \in Promise!Known
      /\ copy[c].next = "none" <=> rows[t].next = "none"
  BY <1>1 DEF PromiseInv, LockInv, ReadHolds, PlansHold
<1>4. /\ pc'[c] = "off" /\ batch' = batch
      /\ \A x \in Threads \ {c} : /\ pc'[x] = pc[x] /\ job'[x] = job[x]
                                  /\ copy'[x] = copy[x]
  BY DEF WriteTask, Drop, Goto, PromiseInv, LockInv, TypeInv, TypeOK
<1>5. \A x \in Callers \ {c} : pc'[x] # "write"
  BY <1>1, <1>4 DEF PromiseInv, LockInv, LockHeld, Between
<1>6. UnderWay' = UnderWay
  BY <1>4 DEF UnderWay
<1>7. /\ Promise!Say(t, row.status)
      /\ Planned' = IF row.next = "none" THEN Planned \ {t} ELSE Planned \cup {t}
      /\ HaveRun' = HaveRun
  BY <1>1, <1>2, <1>3, RowSeen DEF HaveRun
<1>8. Promise!Pause(t) \/ Promise!Resume(t) \/ Promise!Cancel(t)
  <2>1. CASE job[c].command = "pause"
    <3>1. row.status = "paused" /\ row.next = copy[c].next
      BY <1>1, <2>1 DEF Changed, Row
    <3>2. Planned' = Planned
      BY <1>1, <1>3, <1>7, <3>1 DEF Planned
    <3> QED
      BY <1>3, <1>6, <1>7, <3>1, <3>2 DEF Promise!Pause
  <2>2. CASE job[c].command = "resume"
    <3>1. /\ row.status = "active"
          /\ row.next = "none" <=> t \in Once /\ copy[c].last
      BY <1>1, <2>2 DEF Changed, NextRun, Row
    <3>2. t \in HaveRun <=> copy[c].last
      BY <1>1, <1>3 DEF HaveRun
    <3> QED
      BY <1>3, <1>6, <1>7, <3>1, <3>2 DEF Promise!Resume
  <2>3. CASE job[c].command = "cancel"
    <3>1. row.status = "cancelled" /\ row.next = "none"
      BY <1>1, <2>3 DEF Changed, Row
    <3> QED
      BY <1>3, <1>6, <1>7, <3>1 DEF Promise!Cancel
  <2> QED
    BY <1>1, <2>1, <2>2, <2>3 DEF Commands
<1> HIDE DEF t, row
<1>9. Promise!Known \subseteq Promise!Known'
  BY <1>1, <1>2, KnownStays
<1>10. PlansHold'
  <2>1. \A u \in Tasks : rows'[u].status = "none" => rows'[u] = NoRow
    BY <1>1, <1>2 DEF PromiseInv, PlansHold
  <2> QED
    BY <1>4, <1>5, <2>1 DEF PlansHold
<1>11. OneAtATime'
  BY <1>4, <1>6, <1>9 DEF PromiseInv, OneAtATime
<1> QED
  BY <1>1, <1>8, <1>10, <1>11

\* The poll thread up to its advance: taking a batch is what the promise sees.
LEMMA PromiseByPoll ==
    ASSUME PromiseInv,
           \/ Poll \/ (\E t \in Tasks : Execute(t)) \/ AskEnds \/ LogRun
           \/ ReadBack \/ EndBatch
    PROVE  PlansHold' /\ OneAtATime' /\ (Promise!Take \/ UNCHANGED Promise!vars)
<1> USE ThreadFacts
<1>1. /\ rows' = rows
      /\ \A c \in Callers : /\ pc'[c] = pc[c] /\ job'[c] = job[c]
                            /\ copy'[c] = copy[c]
  BY DEF Poll, Execute, AskEnds, LogRun, ReadBack, EndBatch, Goto,
         PromiseInv, LockInv, TypeInv, TypeOK
<1>2. UNCHANGED <<Status, Planned, HaveRun>> /\ Promise!Known' = Promise!Known
  BY <1>1 DEF Status, Planned, HaveRun, Promise!Known
<1>3. PlansHold'
  BY <1>1, <1>2 DEF PromiseInv, PlansHold
<1>4. CASE Poll
  <2>1. /\ pc[Poller] = "off" /\ pc'[Poller] = "batch" /\ batch' = Due
    BY <1>4 DEF Poll, Goto, PromiseInv, LockInv, TypeInv, TypeOK
  <2>2. UnderWay = {} /\ UnderWay' = Due
    BY <2>1 DEF UnderWay, PromiseInv, OneAtATime
  <2>3. Due \subseteq {t \in Planned : Status[t] = "active"}
    BY DEF Due, Planned, Status
  <2>4. Due \subseteq Promise!Known
    BY KnownFacts DEF Due
  <2> QED
    BY <1>2, <1>3, <2>1, <2>2, <2>3, <2>4 DEF OneAtATime, Promise!Take
<1>5. ASSUME NEW t \in Tasks, Execute(t)
      PROVE  OneAtATime' /\ UnderWay' = UnderWay
  <2>1. /\ pc[Poller] = "batch" /\ pc'[Poller] = "ask" /\ job'[Poller].task = t
        /\ t \in batch /\ batch' = batch \ {t}
    BY <1>5 DEF Execute, Goto, PromiseInv, LockInv, TypeInv, TypeOK
  <2>2. UnderWay' = UnderWay
    BY <2>1 DEF UnderWay
  <2> QED
    BY <1>2, <2>1, <2>2 DEF PromiseInv, OneAtATime
<1>6. CASE AskEnds \/ LogRun \/ ReadBack
  <2>1. /\ UNCHANGED <<job, batch>>
        /\ pc[Poller] \in {"ask", "log", "read"}
        /\ pc'[Poller] \in {"log", "read", "advance"}
    BY <1>6 DEF AskEnds, LogRun, ReadBack, Goto, PromiseInv, LockInv, TypeInv, TypeOK
  <2>2. UnderWay' = UnderWay
    BY <2>1 DEF UnderWay
  <2> QED
    BY <1>2, <1>3, <2>1, <2>2 DEF PromiseInv, OneAtATime, Promise!vars
<1>7. CASE EndBatch
  <2>1. /\ UNCHANGED <<job, batch>> /\ batch = {}
        /\ pc[Poller] = "batch" /\ pc'[Poller] = "off"
    BY <1>7 DEF EndBatch, Goto, PromiseInv, LockInv, TypeInv, TypeOK
  <2>2. UnderWay' = UnderWay
    BY <2>1 DEF UnderWay
  <2> QED
    BY <1>2, <1>3, <2>1, <2>2 DEF PromiseInv, OneAtATime, Promise!vars
<1> QED
  BY <1>2, <1>3, <1>4, <1>5, <1>6, <1>7 DEF Promise!vars

\* The advance ends the run of the task as the row has become.
LEMMA PromiseByAdvance ==
    ASSUME PromiseInv, Advance
    PROVE  PlansHold' /\ OneAtATime' /\ \E t \in Tasks : Promise!End(t)
<1> USE ThreadFacts
<1> DEFINE t == job[Poller].task
           next == NextRun(t, TRUE)
           row == [status |-> IF next = "none" THEN "completed"
                                               ELSE copy[Poller].status,
                   next |-> next, last |-> TRUE]
<1>1. /\ t \in Tasks /\ pc[Poller] = "advance" /\ t \notin batch
      /\ rows \in [Tasks -> Row] /\ rows[t] \in Row
  BY DEF PromiseInv, OneAtATime, LockInv, TypeInv, TypeOK, JobsOK, Advance
<1>2. copy[Poller].status = rows[t].status /\ t \in UnderWay
  BY <1>1 DEF PromiseInv, LockInv, ReadHolds, UnderWay
<1>3. rows[t].status # "none"
  BY <1>2, KnownFacts DEF PromiseInv, OneAtATime
<1>4. next = IF t \in Once THEN "none" ELSE "later"
  BY DEF NextRun
<1>5. /\ row \in Row /\ row.status # "none" /\ row.last
      /\ rows' = [rows EXCEPT ![t] = row]
      /\ row.next = IF t \in Once THEN "none" ELSE "later"
      /\ row.status = IF t \in Once THEN "completed" ELSE rows[t].status
  BY <1>1, <1>2, <1>3, <1>4 DEF Advance, Row
<1>6. /\ pc'[Poller] = "batch" /\ batch' = batch
      /\ \A c \in Callers : /\ pc'[c] = pc[c] /\ job'[c] = job[c]
                            /\ copy'[c] = copy[c]
  BY DEF Advance, Drop, Goto, PromiseInv, LockInv, TypeInv, TypeOK
<1>7. UnderWay' = UnderWay \ {t}
  BY <1>1, <1>6 DEF UnderWay
<1> HIDE DEF row, next, t
<1>8. /\ Promise!Say(t, row.status) /\ HaveRun' = HaveRun \cup {t}
      /\ Planned' = IF t \in Once THEN Planned \ {t} ELSE Planned \cup {t}
  BY <1>1, <1>5, RowSeen
<1>9. t \notin Once => Status' = Status
  <2>1. ASSUME t \notin Once, NEW u \in Tasks PROVE rows'[u].status = rows[u].status
    BY <1>1, <1>5, <2>1
  <2> QED
    BY <2>1 DEF Status
<1>10. Promise!End(t)
  BY <1>2, <1>5, <1>7, <1>8, <1>9 DEF Promise!End
<1>11. Promise!Known \subseteq Promise!Known'
  BY <1>1, <1>5, KnownStays
<1>12. PlansHold'
  <2>1. \A u \in Tasks : rows'[u].status = "none" => rows'[u] = NoRow
    BY <1>1, <1>5 DEF PromiseInv, PlansHold
  <2>2. \A c \in Callers : pc[c] # "write"
    BY <1>1 DEF PromiseInv, LockInv, LockHeld, Between
  <2> QED
    BY <1>6, <2>1, <2>2 DEF PlansHold
<1>13. OneAtATime'
  BY <1>6, <1>7, <1>11 DEF PromiseInv, OneAtATime
<1> QED
  BY <1>1, <1>10, <1>12, <1>13

LEMMA PromiseOutside ==
    ASSUME Remotes = {}, PromiseInv,
           (\E t \in Tasks : Tick(t)) \/ PollFails \/ Crash \/ UNCHANGED vars
    PROVE  PlansHold' /\ OneAtATime' /\ (Promise!Fail \/ UNCHANGED Promise!vars)
<1> USE ThreadFacts
<1>1. ASSUME NEW t \in Tasks, Tick(t)
      PROVE  PlansHold' /\ OneAtATime' /\ UNCHANGED Promise!vars
  <2>1. UNCHANGED <<pc, job, copy, batch>>
    BY <1>1 DEF Tick
  <2>2. \A u \in Tasks : /\ rows'[u].status = rows[u].status
                         /\ rows'[u].last = rows[u].last
                         /\ rows'[u].next = "none" <=> rows[u].next = "none"
                         /\ rows[u] = NoRow => rows'[u] = rows[u]
    BY <1>1 DEF Tick, NoRow, Row, PromiseInv, LockInv, TypeInv, TypeOK
  <2>3. /\ UNCHANGED <<Status, Planned, HaveRun, UnderWay>>
        /\ Promise!Known' = Promise!Known
    BY <2>1, <2>2, KnownFacts DEF Status, Planned, HaveRun, UnderWay, Promise!Known
  <2>4. PlansHold'
    <3>1. \A u \in Tasks : rows'[u].status = "none" => rows'[u] = NoRow
      BY <2>2 DEF PromiseInv, PlansHold
    <3>2. \A u \in Promise!Known : u \in Tasks
      BY KnownFacts
    <3> QED
      BY <2>1, <2>2, <2>3, <3>1, <3>2 DEF PromiseInv, PlansHold
  <2>5. OneAtATime'
    BY <2>1, <2>3 DEF PromiseInv, OneAtATime
  <2> QED
    BY <2>3, <2>4, <2>5 DEF Promise!vars
<1>2. CASE PollFails \/ Crash
  <2>1. /\ rows' = rows /\ batch' = {} /\ pc'[Poller] = "off"
        /\ \A c \in Callers : \/ pc'[c] = "off"
                              \/ /\ pc'[c] = pc[c] /\ job'[c] = job[c]
                                 /\ copy'[c] = copy[c]
    BY <1>2 DEF PollFails, Crash, Mishap, Drop, Goto, PromiseInv, LockInv,
                TypeInv, TypeOK
  <2>2. UnderWay' = {} /\ UNCHANGED <<Status, Planned, HaveRun>>
    BY <2>1 DEF UnderWay, Status, Planned, HaveRun
  <2>3. Promise!Known' = Promise!Known
    BY <2>2 DEF Promise!Known
  <2>4. PlansHold' /\ OneAtATime'
    BY <2>1, <2>2, <2>3 DEF PromiseInv, PlansHold, OneAtATime
  <2> QED
    BY <2>2, <2>4 DEF Promise!Fail
<1>3. CASE UNCHANGED vars
  BY <1>3 DEF vars, PromiseInv, PlansHold, OneAtATime, UnderWay, Promise!Known,
              Status, Planned, HaveRun, Promise!vars
<1> QED
  BY <1>1, <1>2, <1>3

\* Without callers in other processes, the scheduler keeps the promise of
\* TaskPromise: each command and each end of a run, a read and a write of a
\* whole row, is one step on the task as it is at that step
\* (scheduler.py:157-186 and 213-281).
THEOREM SchedulerKeepsPromise ==
    ASSUME Remotes = {}
    PROVE  Spec => KeepsPromise
<1>1. Init => Promise!Init /\ PlansHold /\ OneAtATime
  <2> SUFFICES ASSUME Init PROVE Promise!Init /\ PlansHold /\ OneAtATime
    OBVIOUS
  <2>1. UnderWay = {} /\ Planned = {} /\ HaveRun = {}
    BY ThreadFacts DEF Init, UnderWay, Planned, HaveRun, NoRow
  <2>2. Status = [t \in Promise!Tasks |-> "none"]
    BY DEF Init, Status, NoRow, Promise!Tasks, Tasks
  <2>3. PlansHold /\ OneAtATime
    BY <2>1, ThreadFacts DEF Init, PlansHold, OneAtATime
  <2> QED
    BY <2>1, <2>2, <2>3 DEF Promise!Init
<1>2. PromiseInv /\ [Next]_vars
        => PlansHold' /\ OneAtATime' /\ [Promise!Next]_(Promise!vars)
  <2> SUFFICES ASSUME PromiseInv, [Next]_vars
               PROVE  PlansHold' /\ OneAtATime' /\ [Promise!Next]_(Promise!vars)
    OBVIOUS
  <2> USE KnownFacts DEF Promise!Next
  <2>1. ASSUME NEW c \in Callers, NEW t \in Tasks, CreateTask(c, t)
        PROVE  PlansHold' /\ OneAtATime' /\ Promise!Next
    BY <2>1, PromiseByCreate
  <2>2. ASSUME NEW c \in Callers, WriteTask(c)
        PROVE  PlansHold' /\ OneAtATime' /\ Promise!Next
    BY <2>2, PromiseByWrite
  <2>3. CASE Advance
    BY <2>3, PromiseByAdvance
  <2> QED
    BY <2>1, <2>2, <2>3, PromiseByRead, PromiseByPoll, PromiseOutside
    DEF Next, Command, PollStep
<1> QED
  BY <1>1, <1>2, LockInvariant, PTL
     DEF Spec, PromiseInv, KeepsPromise, Promise!Spec

=============================================================================
