----------------------------- MODULE TaskPromise -----------------------------
(***************************************************************************)
(* What the scheduler promises about its tasks (scheduler/scheduler.py):   *)
(* a command changes a task in one step, a run is taken only of a task     *)
(* that is active and has a next run, and the end of a run is one step,    *)
(* which acts on the task as it has become in the meantime.  TaskSchedule  *)
(* describes the lock, the reads and the writes that are to keep this      *)
(* promise.                                                                *)
(***************************************************************************)
CONSTANTS
    Once,        \* tasks that are to run once
    Recurring    \* tasks that are to run again and again

VARIABLES
    status,      \* what the callers have been told of each task
    planned,     \* tasks that have a next run
    ran,         \* tasks that have run to the end
    taken        \* tasks whose run has been taken up and has not ended

Tasks == Once \cup Recurring
vars  == <<status, planned, ran, taken>>

Known == {t \in Tasks : status[t] # "none"}

Init ==
    /\ status = [t \in Tasks |-> "none"]
    /\ planned = {} /\ ran = {} /\ taken = {}

Say(t, s) == status' = [status EXCEPT ![t] = s]

Create(t) ==
    /\ t \notin Known
    /\ Say(t, "active")
    /\ planned' = planned \cup {t}
    /\ UNCHANGED <<ran, taken>>

Pause(t) ==
    /\ t \in Known
    /\ Say(t, "paused")
    /\ UNCHANGED <<planned, ran, taken>>

\* There is a next run, but for a task that was to run once and has.
Resume(t) ==
    /\ t \in Known
    /\ Say(t, "active")
    /\ planned' = IF t \in Once \cap ran THEN planned \ {t} ELSE planned \cup {t}
    /\ UNCHANGED <<ran, taken>>

Cancel(t) ==
    /\ t \in Known
    /\ Say(t, "cancelled")
    /\ planned' = planned \ {t}
    /\ UNCHANGED <<ran, taken>>

Take ==
    /\ taken = {}
    /\ taken' \in SUBSET {t \in planned : status[t] = "active"}
    /\ UNCHANGED <<status, planned, ran>>

\* What was paused or cancelled during the run stays so, but a task that was
\* to run once is completed.
End(t) ==
    /\ t \in taken
    /\ taken' = taken \ {t} /\ ran' = ran \cup {t}
    /\ \/ /\ t \in Once
          /\ Say(t, "completed") /\ planned' = planned \ {t}
       \/ /\ t \notin Once
          /\ planned' = planned \cup {t} /\ UNCHANGED status

\* The scheduler dies or a statement of its fails: the runs are not counted.
Fail ==
    /\ taken' = {}
    /\ UNCHANGED <<status, planned, ran>>

Next ==
    \/ \E t \in Tasks : Create(t) \/ Pause(t) \/ Resume(t) \/ Cancel(t) \/ End(t)
    \/ Take \/ Fail

Spec == Init /\ [][Next]_vars

=============================================================================
