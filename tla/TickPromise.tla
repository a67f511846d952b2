----------------------------- MODULE TickPromise -----------------------------
(***************************************************************************)
(* What the row and the message queue of a managed agent promise those who *)
(* use them (agents/manager.py): a tick that is taken in one step by one   *)
(* worker and comes free again when the worker ends it, or when the boot   *)
(* that follows the worker's death sweeps it; and messages that wait until *)
(* the worker in charge has put them into a prompt.  AgentTick describes   *)
(* the statements that are to keep this promise.                           *)
(***************************************************************************)
CONSTANTS
    Workers,     \* who may execute a tick
    Messages     \* what the user may send

VARIABLES
    holder,      \* the worker that has the tick, if there is one
    wrecked,     \* the worker that had it died
    waiting,     \* messages sent and not yet delivered
    asked,       \* messages that were part of a prompt
    answered     \* messages that a run answered

queue == <<waiting, asked, answered>>
vars  == <<holder, wrecked, queue>>

Init ==
    /\ holder = {} /\ wrecked = FALSE
    /\ waiting = {} /\ asked = {} /\ answered = {}

Send(m) ==
    /\ m \notin waiting \cup asked
    /\ waiting' = waiting \cup {m}
    /\ UNCHANGED <<holder, wrecked, asked, answered>>

\* The read and the write of start_tick as the one step they are meant to be.
Take(w) ==
    /\ holder = {} /\ ~wrecked
    /\ holder' = {w}
    /\ UNCHANGED <<wrecked, queue>>

Ask(w) ==
    /\ holder = {w}
    /\ asked' = asked \cup waiting
    /\ UNCHANGED <<holder, wrecked, waiting, answered>>

Deliver(w) ==
    /\ holder = {w}
    /\ \E given \in SUBSET (waiting \cap asked) : waiting' = waiting \ given
    /\ UNCHANGED <<holder, wrecked, asked, answered>>

Answer(w) ==
    /\ holder = {w}
    /\ \E given \in SUBSET (asked \ waiting) : answered' = answered \cup given
    /\ UNCHANGED <<holder, wrecked, waiting, asked>>

Release(w) ==
    /\ holder = {w} /\ holder' = {}
    /\ UNCHANGED <<wrecked, queue>>

Die(w) ==
    /\ holder = {w} /\ holder' = {}
    /\ wrecked' = TRUE
    /\ UNCHANGED queue

\* The boot of the server.
Sweep ==
    /\ wrecked /\ wrecked' = FALSE
    /\ UNCHANGED <<holder, queue>>

Next ==
    \/ \E m \in Messages : Send(m)
    \/ \E w \in Workers : \/ Take(w) \/ Ask(w) \/ Deliver(w) \/ Answer(w)
                          \/ Release(w) \/ Die(w)
    \/ Sweep

Spec == Init /\ [][Next]_vars

=============================================================================
