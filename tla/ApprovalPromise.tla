--------------------------- MODULE ApprovalPromise ---------------------------
(***************************************************************************)
(* What the table of actions promises the user (tools/approval_store.py):  *)
(* an item becomes one action at most, and the status of an action says    *)
(* what has happened to it.  It is approved only by somebody's consent,    *)
(* executed only after it was performed, performed only with consent, and  *)
(* it expires only while it says pending.  ApprovalFlow describes the      *)
(* runs, tools and requests that write the table.                          *)
(***************************************************************************)
CONSTANTS
    Rows,        \* rows of the table
    Items,       \* what actions may be about
    NoItem       \* none of them

VARIABLES
    item,        \* what each row is about
    free,        \* rows that need no answer, being trivial
    stage,       \* status of each row
    agreed,      \* rows that somebody has consented to
    performed    \* rows whose action was performed

vars == <<item, free, stage, agreed, performed>>

Proposed == {a \in Rows : stage[a] # "none"}

Init ==
    /\ item = [a \in Rows |-> NoItem]
    /\ stage = [a \in Rows |-> "none"]
    /\ free = {} /\ agreed = {} /\ performed = {}

Write(a, s) ==
    /\ a \in Proposed
    /\ stage' = [stage EXCEPT ![a] = s]
    /\ UNCHANGED <<item, free>>

Propose(a) ==
    /\ a \notin Proposed
    /\ \E i \in Items : /\ \A b \in Proposed : item[b] # i
                        /\ item' = [item EXCEPT ![a] = i]
    /\ stage' = [stage EXCEPT ![a] = "pending"]
    /\ free' \in {free, free \cup {a}}
    /\ UNCHANGED <<agreed, performed>>

Agree(a) ==
    /\ Write(a, "approved")
    /\ agreed' = agreed \cup {a}
    /\ UNCHANGED performed

Refuse(a) == Write(a, "denied") /\ UNCHANGED <<agreed, performed>>

\* The loop that flags notifications; it leaves alone what nobody was asked.
Reopen(a) ==
    /\ a \notin free
    /\ Write(a, "pending")
    /\ UNCHANGED <<agreed, performed>>

Perform(a) ==
    /\ a \in agreed
    /\ performed' = performed \cup {a}
    /\ UNCHANGED <<item, free, stage, agreed>>

Record(a) ==
    /\ a \in performed
    /\ Write(a, "executed")
    /\ UNCHANGED <<agreed, performed>>

Lapse ==
    /\ \E late \in SUBSET {a \in Rows : stage[a] = "pending"} :
          stage' = [a \in Rows |-> IF a \in late THEN "expired" ELSE stage[a]]
    /\ UNCHANGED <<item, free, agreed, performed>>

Next ==
    \/ \E a \in Rows : \/ Propose(a) \/ Agree(a) \/ Refuse(a) \/ Reopen(a)
                       \/ Perform(a) \/ Record(a)
    \/ Lapse

Spec == Init /\ [][Next]_vars

=============================================================================
