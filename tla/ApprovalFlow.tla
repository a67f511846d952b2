----------------------------- MODULE ApprovalFlow -----------------------------
(***************************************************************************)
(* How an action proposed by the proactive agent is approved and executed: *)
(* the pending_actions and permission_memory tables                        *)
(* (tools/approval_store.py), the agent's daily run                        *)
(* (agents/proactive_agent.py), the tools that execute and decide          *)
(* (tools/proactive_tools.py), the user's replies to the notification and  *)
(* the approval routes of the API server (server/approval_routes.py).      *)
(*                                                                         *)
(* All of them open the same database from different threads and           *)
(* processes and every statement commits on its own: one action is one     *)
(* statement and the decision it is taken on.  The digest, the language    *)
(* model and what executing an action does in the world are choices of the *)
(* environment; the language model proposes at most one action for each    *)
(* item of a digest and copies its doc_id, as its prompt says.             *)
(***************************************************************************)
EXTENDS Naturals

CONSTANTS
    Items,       \* items of the connected sources, each with its doc_id
    NoItem,      \* none of them
    Keys,        \* permission keys
    Tiers,       \* tiers the language model uses, a subset of AllTiers
    Runners,     \* proactive agents (the cron task runs one)
    Execs,       \* other agents that call execute_pending_actions
    Repliers,    \* handlers of a reply, or of a record_decision call
    MaxActions,  \* rows of pending_actions
    Channel,     \* TRUE iff a notification channel is configured
    Crashes      \* TRUE iff processes may die

Actions == 1 .. MaxActions
Agents  == Runners \cup Execs
Procs   == Agents \cup Repliers

AllTiers == {"trivial", "low", "medium", "high"}

ASSUME ConstantsAssumption ==
    /\ MaxActions \in Nat /\ Tiers \subseteq AllTiers
    /\ Channel \in BOOLEAN /\ Crashes \in BOOLEAN

ASSUME ProcsAssumption ==
    /\ Runners \cap Execs = {} /\ Runners \cap Repliers = {}
    /\ Execs \cap Repliers = {}
    /\ NoItem \notin Items

VARIABLES
    count,      \* rows of pending_actions; their uuids are 1, 2, ... by age
    state,      \* status of each row
    about,      \* item, tier and permission_key of each row
    stale,      \* rows whose expires_at has passed
    memory,     \* permission_memory: the remembered decision of each key
    pc,         \* what each process does next
    unseen,     \* items of the runner's digest it has still to route
    plan,       \* the proposal the runner is routing; whether it approves it
    auto,       \* auto_approve_ids of the runner
    open,       \* pending_actions of the runner: what it will ask the user
    todo,       \* rows the process has listed and has still to handle
    reply,      \* decision of a replier and the tiers it remembers it for
    \* Observations, read by properties only:
    consented,  \* rows the user, their rule or a trivial tier has approved
    ran         \* rows whose action was executed

table == <<count, state, about, stale>>
local == <<pc, unseen, plan, auto, open, todo, reply>>
obs   == <<consented, ran>>
vars  == <<table, memory, local, obs>>

Proposals == [item : Items, tier : Tiers, key : Keys]
Statuses  == {"pending", "approved", "denied", "expired", "executed"}
Replies   == [yes : BOOLEAN, remember : SUBSET AllTiers]

NoProposal == [item |-> NoItem]
NoPlan     == [what |-> NoProposal, auto |-> FALSE]
NoReply    == [yes |-> FALSE, remember |-> {}]

Queued == 1 .. count

Phases == {"off", "collect", "route", "queue", "approve", "notify", "flag",
           "list", "exec", "mark", "decide", "remember"}

TypeOK ==
    /\ count \in 0 .. MaxActions
    /\ state \in [Actions -> Statuses \cup {"none"}]
    /\ about \in [Actions -> Proposals \cup {NoProposal}]
    /\ stale \in SUBSET Queued
    /\ memory \in [Keys -> {"ask", "always_approve", "always_deny"}]
    /\ pc \in [Procs -> Phases]
    /\ unseen \in [Runners -> SUBSET Items]
    /\ plan \in [Runners -> [what : Proposals \cup {NoProposal}, auto : BOOLEAN]]
    /\ auto \in [Runners -> SUBSET Queued] /\ open \in [Runners -> SUBSET Queued]
    /\ todo \in [Procs -> SUBSET Queued]
    /\ reply \in [Repliers -> Replies]
    /\ consented \in SUBSET Queued /\ ran \in SUBSET Queued

Init ==
    /\ count = 0
    /\ state = [a \in Actions |-> "none"]
    /\ about = [a \in Actions |-> NoProposal]
    /\ stale = {}
    /\ memory = [k \in Keys |-> "ask"]
    /\ pc = [p \in Procs |-> "off"]
    /\ unseen = [r \in Runners |-> {}]
    /\ plan = [r \in Runners |-> NoPlan]
    /\ auto = [r \in Runners |-> {}]
    /\ open = [r \in Runners |-> {}]
    /\ todo = [p \in Procs |-> {}]
    /\ reply = [p \in Repliers |-> NoReply]
    /\ consented = {} /\ ran = {}

Goto(p, phase) == pc' = [pc EXCEPT ![p] = phase]

\* Rows are listed by created_at and handled in that order.
First(rows) == CHOOSE a \in rows : \A b \in rows : a <= b

Handled(p) == todo' = [todo EXCEPT ![p] = @ \ {First(@)}]

-----------------------------------------------------------------------------
(* Statements of the store.                                                *)

\* UPDATE ... WHERE id = ?, whatever the status was.
UpdateStatus(a, s) ==
    /\ state' = [state EXCEPT ![a] = s]
    /\ UNCHANGED <<count, about, stale>>

Pending == {a \in Queued : state[a] = "pending"}

\* list_pending leaves out the rows past their time.
ListPending == Pending \ stale

ExpireStale ==
    /\ state' = [a \in Actions |-> IF a \in Pending \cap stale
                                   THEN "expired" ELSE state[a]]
    /\ UNCHANGED <<count, about, stale>>

\* Mutated: only what is still open counts as seen.
SeenOpen ==
    {about[a].item : a \in {b \in Queued : state[b] \in {"pending", "approved"}}}

\* get_seen_ids: the items of all rows, in any status.
SeenItems == {about[a].item : a \in Queued}

\* Mutated: everything that was not turned down.
ListOpen == {a \in Queued : state[a] \in {"pending", "approved"}}

ListApproved == {a \in Queued : state[a] = "approved"}

-----------------------------------------------------------------------------
(* ProactiveAgent.run.                                                     *)

\* Mutated: the run leaves expiry to whoever lists the pending actions.
BeginRunOnly(r) ==
    /\ pc[r] = "off"
    /\ Goto(r, "collect")
    /\ UNCHANGED <<table, memory, unseen, plan, auto, open, todo, reply, obs>>

BeginRun(r) ==
    /\ pc[r] = "off"
    /\ ExpireStale
    /\ Goto(r, "collect")
    /\ UNCHANGED <<memory, unseen, plan, auto, open, todo, reply, obs>>

\* The digest leaves out the seen items; nothing new ends the run.
Collect(r) ==
    /\ pc[r] = "collect"
    /\ unseen' = [unseen EXCEPT ![r] = Items \ SeenItems]
    /\ Goto(r, IF unseen'[r] = {} THEN "off" ELSE "route")
    /\ UNCHANGED <<table, memory, plan, auto, open, todo, reply, obs>>

\* The language model proposes nothing for this item, or something that the
\* user always denies.
SkipItem(r) ==
    /\ pc[r] = "route"
    /\ \E i \in unseen[r] : unseen' = [unseen EXCEPT ![r] = @ \ {i}]
    /\ UNCHANGED <<table, memory, pc, plan, auto, open, todo, reply, obs>>

\* get_permission, and what follows from the rule it returns.
Route(r) ==
    /\ pc[r] = "route" /\ count < MaxActions
    /\ \E p \in Proposals :
          /\ p.item \in unseen[r] /\ memory[p.key] # "always_deny"
          /\ unseen' = [unseen EXCEPT ![r] = @ \ {p.item}]
          /\ plan' = [plan EXCEPT ![r] =
                [what |-> p, auto |-> \/ p.tier = "trivial"
                                      \/ memory[p.key] = "always_approve"]]
    /\ Goto(r, "queue")
    /\ UNCHANGED <<table, memory, auto, open, todo, reply, obs>>

\* queue_action: a new row, pending whatever its tier.
QueueAction(r) ==
    /\ pc[r] = "queue" /\ count < MaxActions
    /\ count' = count + 1
    /\ state' = [state EXCEPT ![count + 1] = "pending"]
    /\ about' = [about EXCEPT ![count + 1] = plan[r].what]
    /\ \/ /\ plan[r].auto
          /\ auto' = [auto EXCEPT ![r] = @ \cup {count + 1}]
          /\ todo' = [todo EXCEPT ![r] = {count + 1}]
          /\ Goto(r, "approve")
          /\ UNCHANGED open
       \/ /\ ~plan[r].auto
          /\ open' = [open EXCEPT ![r] = @ \cup {count + 1}]
          /\ Goto(r, "route")
          /\ UNCHANGED <<auto, todo>>
    /\ plan' = [plan EXCEPT ![r] = NoPlan]
    /\ UNCHANGED <<stale, memory, unseen, reply, obs>>

\* The row just queued is approved by a second statement.
AutoApprove(r) ==
    /\ pc[r] = "approve"
    /\ UpdateStatus(First(todo[r]), "approved")
    /\ consented' = consented \cup {First(todo[r])}
    /\ Handled(r)
    /\ Goto(r, "route")
    /\ UNCHANGED <<memory, unseen, plan, auto, open, reply, ran>>

RoutingDone(r) ==
    /\ pc[r] = "route" /\ unseen[r] = {}
    /\ Goto(r, IF auto[r] = {} THEN "notify" ELSE "list")
    /\ UNCHANGED <<table, memory, unseen, plan, auto, open, todo, reply, obs>>

\* Mutated: every row of the run is flagged, not only those to ask about.
NotifyAll(r) ==
    /\ pc[r] = "notify"
    /\ todo' = [todo EXCEPT ![r] = IF Channel THEN open[r] \cup auto[r] ELSE {}]
    /\ Goto(r, "flag")
    /\ UNCHANGED <<table, memory, unseen, plan, auto, open, reply, obs>>

\* The notification goes out if there is a channel; only then is it recorded.
Notify(r) ==
    /\ pc[r] = "notify"
    /\ todo' = [todo EXCEPT ![r] = IF Channel THEN open[r] ELSE {}]
    /\ Goto(r, "flag")
    /\ UNCHANGED <<table, memory, unseen, plan, auto, open, reply, obs>>

\* notification_sent is written together with the status that queue_action
\* returned when the row was made.
FlagSent(r) ==
    /\ pc[r] = "flag" /\ todo[r] # {}
    /\ UpdateStatus(First(todo[r]), "pending")
    /\ Handled(r)
    /\ UNCHANGED <<memory, pc, unseen, plan, auto, open, reply, obs>>

EndRun(r) ==
    /\ pc[r] = "flag" /\ todo[r] = {}
    /\ auto' = [auto EXCEPT ![r] = {}]
    /\ open' = [open EXCEPT ![r] = {}]
    /\ Goto(r, "off")
    /\ UNCHANGED <<table, memory, unseen, plan, todo, reply, obs>>

-----------------------------------------------------------------------------
(* ExecutePendingActionsTool.execute.                                      *)

\* Another agent calls the tool, without action_ids.
CallExecute(e) ==
    /\ pc[e] = "off" /\ ListApproved # {}
    /\ todo' = [todo EXCEPT ![e] = ListApproved]
    /\ Goto(e, "exec")
    /\ UNCHANGED <<table, memory, unseen, plan, auto, open, reply, obs>>

\* The run calls it with its auto_approve_ids.
ListToExecute(r) ==
    /\ pc[r] = "list"
    /\ todo' = [todo EXCEPT ![r] = ListApproved \cap auto[r]]
    /\ Goto(r, "exec")
    /\ UNCHANGED <<table, memory, unseen, plan, auto, open, reply, obs>>

\* _run_action, on the row as it was listed; an error is a result like any.
RunAction(p) ==
    /\ pc[p] = "exec" /\ todo[p] # {}
    /\ ran' = ran \cup {First(todo[p])}
    /\ Goto(p, "mark")
    /\ UNCHANGED <<table, memory, unseen, plan, auto, open, todo, reply,
                   consented>>

MarkExecuted(p) ==
    /\ pc[p] = "mark"
    /\ UpdateStatus(First(todo[p]), "executed")
    /\ Handled(p)
    /\ Goto(p, "exec")
    /\ UNCHANGED <<memory, unseen, plan, auto, open, reply, obs>>

ExecuteDone(p) ==
    /\ pc[p] = "exec" /\ todo[p] = {}
    /\ Goto(p, IF p \in Runners THEN "notify" ELSE "off")
    /\ UNCHANGED <<table, memory, unseen, plan, auto, open, todo, reply, obs>>

-----------------------------------------------------------------------------
(* The user.                                                               *)

\* `always` remembers a reply for two tiers, record_decision's remember for
\* any.
Remembering == {{}, {"low", "medium"}}

\* parse_approval_response with an action_id, or record_decision: any row.
ReplyOne(p) ==
    /\ pc[p] = "off"
    /\ \E a \in Queued : todo' = [todo EXCEPT ![p] = {a}]
    /\ \E yes \in BOOLEAN, tiers \in Remembering \cup {AllTiers} :
          reply' = [reply EXCEPT ![p] = [yes |-> yes, remember |-> tiers]]
    /\ Goto(p, "decide")
    /\ UNCHANGED <<table, memory, unseen, plan, auto, open, obs>>

\* parse_approval_response with `all`: what is pending now.
ReplyAll(p) ==
    /\ pc[p] = "off" /\ ListPending # {}
    /\ todo' = [todo EXCEPT ![p] = ListPending]
    /\ \E yes \in BOOLEAN, tiers \in Remembering :
          reply' = [reply EXCEPT ![p] = [yes |-> yes, remember |-> tiers]]
    /\ Goto(p, "decide")
    /\ UNCHANGED <<table, memory, unseen, plan, auto, open, obs>>

Verdict(yes) == IF yes THEN "approved" ELSE "denied"

Decided(a, yes) ==
    /\ UpdateStatus(a, Verdict(yes))
    /\ consented' = IF yes THEN consented \cup {a} ELSE consented
    /\ UNCHANGED ran

\* update_status; set_permission follows for the tiers to remember.
Decide(p) ==
    /\ pc[p] = "decide" /\ todo[p] # {}
    /\ LET a == First(todo[p]) IN
       /\ Decided(a, reply[p].yes)
       /\ \/ /\ about[a].tier \in reply[p].remember
             /\ Goto(p, "remember") /\ UNCHANGED todo
          \/ /\ about[a].tier \notin reply[p].remember
             /\ Handled(p) /\ UNCHANGED pc
    /\ UNCHANGED <<memory, unseen, plan, auto, open, reply>>

Remember(p) ==
    /\ pc[p] = "remember"
    /\ memory' = [memory EXCEPT ![about[First(todo[p])].key] =
                    IF reply[p].yes THEN "always_approve" ELSE "always_deny"]
    /\ Handled(p)
    /\ Goto(p, "decide")
    /\ UNCHANGED <<table, unseen, plan, auto, open, reply, obs>>

ReplyDone(p) ==
    /\ pc[p] = "decide" /\ todo[p] = {}
    /\ reply' = [reply EXCEPT ![p] = NoReply]
    /\ Goto(p, "off")
    /\ UNCHANGED <<table, memory, unseen, plan, auto, open, todo, obs>>

\* POST approve and deny: the row must exist, that is all they ask.
PostDecision(a, yes) ==
    /\ a \in Queued
    /\ Decided(a, yes)
    /\ UNCHANGED <<memory, local>>

\* GET pending expires before it lists.
GetPending ==
    /\ ExpireStale
    /\ UNCHANGED <<memory, local, obs>>

-----------------------------------------------------------------------------
(* Time and failures.                                                      *)

\* ttl_hours after it was queued.
Age(a) ==
    /\ a \in Queued \ stale
    /\ stale' = stale \cup {a}
    /\ UNCHANGED <<count, state, about, memory, local, obs>>

Crash(p) ==
    /\ Crashes /\ pc[p] # "off"
    /\ Goto(p, "off")
    /\ todo' = [todo EXCEPT ![p] = {}]
    /\ unseen' = [r \in Runners |-> IF r = p THEN {} ELSE unseen[r]]
    /\ plan' = [r \in Runners |-> IF r = p THEN NoPlan ELSE plan[r]]
    /\ auto' = [r \in Runners |-> IF r = p THEN {} ELSE auto[r]]
    /\ open' = [r \in Runners |-> IF r = p THEN {} ELSE open[r]]
    /\ reply' = [q \in Repliers |-> IF q = p THEN NoReply ELSE reply[q]]
    /\ UNCHANGED <<table, memory, obs>>

-----------------------------------------------------------------------------
ExecuteStep(p) == RunAction(p) \/ MarkExecuted(p) \/ ExecuteDone(p)

RunStep(r) ==
    \/ BeginRun(r) \/ Collect(r) \/ SkipItem(r) \/ Route(r) \/ QueueAction(r)
    \/ AutoApprove(r) \/ RoutingDone(r) \/ ListToExecute(r) \/ ExecuteStep(r)
    \/ Notify(r) \/ FlagSent(r) \/ EndRun(r)

ReplyStep(p) == Decide(p) \/ Remember(p) \/ ReplyDone(p)

User ==
    \/ \E p \in Repliers : ReplyOne(p) \/ ReplyAll(p)
    \/ \E a \in Actions, yes \in BOOLEAN : PostDecision(a, yes)
    \/ GetPending

Next ==
    \/ \E r \in Runners : RunStep(r)
    \/ \E e \in Execs : CallExecute(e) \/ ExecuteStep(e)
    \/ \E p \in Repliers : ReplyStep(p)
    \/ User
    \/ \E a \in Actions : Age(a)
    \/ \E p \in Procs : Crash(p)

Spec == Init /\ [][Next]_vars

(* The cron task runs the agent every day and its run goes on until it is    *)
(* done; tool calls and handlers that began go on; time passes.  Nobody has  *)
(* to reply, to look at the list or to call the execute tool.                *)
Fairness ==
    /\ \A r \in Runners : WF_vars(RunStep(r))
    /\ \A e \in Execs : WF_vars(ExecuteStep(e))
    /\ \A p \in Repliers : WF_vars(ReplyStep(p))
    /\ \A a \in Actions : WF_vars(Age(a))

FairSpec == Spec /\ Fairness

-----------------------------------------------------------------------------
(* What the code gets right.                                               *)

\* Nothing is executed that nobody agreed to: every action that ran was
\* approved by the user, by the user's rule for its key or by its trivial
\* tier, whatever the processes that write its status did in between
\* (approval_store.py:253-282, proactive_agent.py:447-476).
RanWasConsented == ran \subseteq consented

\* No two proposals are about the same item, whatever became of the first and
\* wherever a run died: a user is not asked again about an item that was
\* decided or that expired (approval_store.py:364-386).
ProposedOnce ==
    \A a, b \in Queued : about[a].item = about[b].item => a = b

\* A proposal does not stay pending: the next run expires what nobody
\* answered, also what the notification loop put back to pending
\* (proactive_agent.py:372, approval_store.py:284-293).
NothingPendsForever ==
    \A a \in Actions : state[a] = "pending" ~> state[a] # "pending"

About == [a \in Actions |-> about[a].item]
Free  == {a \in Queued : about[a].tier = "trivial"}

Promise == INSTANCE ApprovalPromise WITH
    Rows <- Actions, item <- About, free <- Free, stage <- state,
    agreed <- consented, performed <- ran

\* The statuses can be believed, although five writers replace them without a
\* look: the table keeps the promise of ApprovalPromise.  Only the loop that
\* flags notifications takes a status back, and never that of a trivial action
\* (approval_store.py:253-293, proactive_agent.py:447-499,
\* proactive_tools.py:379-390).
KeepsPromise == Promise!Spec

-----------------------------------------------------------------------------
(* What its texts say and the code does not do.                            *)

\* An approved action is executed (proactive_agent.py:15 "Execute all approved
\* actions via ``execute_pending_actions``").
ApprovedRuns ==
    \A a \in Actions : state[a] = "approved" ~> state[a] # "approved"

\* What was decided does not become pending again (proactive_tools.py:198
\* "Return all pending (not yet decided) actions").
DecisionStands ==
    [][\A a \in Actions : state[a] \in {"approved", "denied"}
                          => state'[a] # "pending"]_vars

=============================================================================
