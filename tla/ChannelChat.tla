----------------------------- MODULE ChannelChat -----------------------------
(***************************************************************************)
(* Messages that come in over a channel: the SendBlue webhook               *)
(* (server/webhook_routes.py) hands each to a thread of its own, which      *)
(* acknowledges it, lets the ChannelBridge (server/channel_bridge.py)       *)
(* answer it with the sender's session (server/session_store.py) and sends  *)
(* the reply, while a second thread reminds the sender that work goes on.   *)
(*                                                                         *)
(* The threads share the session's row, of which the conversation is one    *)
(* column, read and written in two statements.                              *)
(*                                                                         *)
(* Abstractions.  The row is that of one channel; rows of other channels    *)
(* are rows of other senders.  An answer is short, too long for one message *)
(* or, from JarvisSystem, empty; errors of the agent are answers.  The       *)
(* DeepResearch agent, where the bridge has one, is asked with the message   *)
(* alone; the context is for JarvisSystem.  Commands other than /more do    *)
(* not touch the row's conversation and are left out, as are notifications. *)
(***************************************************************************)
EXTENDS Naturals, Sequences, FiniteSets

CONSTANTS
    MaxMessages,   \* bound: messages that arrive
    Slow,          \* those whose answer may take longer than 60 seconds
    Starved,       \* those whose reminder thread may not start
    Agents,        \* what a bridge may have: "research", "system", "none"
    Senders,
    Patient,       \* senders who write only when no thread of theirs is left
    Nobody,
    Workers,       \* max_workers of the loop's default executor
    MaxHistory     \* _MAX_HISTORY_TURNS

Messages == 1..MaxMessages   \* in the order in which they arrive
NoMessage == 0

ASSUME ChatAssumption ==
    /\ MaxMessages \in Nat
    /\ Slow \subseteq Messages /\ Starved \subseteq Messages
    /\ Agents \subseteq {"research", "system", "none"}
    /\ Patient \subseteq Senders
    /\ Nobody \notin Senders
    /\ Workers \in Nat \ {0}
    /\ MaxHistory \in Nat \ {0}

VARIABLES
    bridge,    \* the agent it asks: _deep_research_agent, _system or none
    sender,    \* of a message: from_number
    asks,      \* it is a "chat" or the command "more"
    pc,        \* what its thread does next
    outcome,   \* of handle_incoming: "none" yet, "reply" or "raise"; or "stranded" before
    copy,      \* the conversation its thread has read
    answer,    \* to it: "none" yet, "short", "long" or "empty"
    gave,      \* the message whose answer its /more hands out
    reminder,  \* its reminder thread: "off", "sleep", "awake", "over"
    pending,   \* of a sender: messages in the queue
    exists,    \* senders with a row in channel_sessions
    history,   \* conversation_history
    waiting,   \* pending_response, as the message it answers
    \* Observations, read by properties only:
    said,      \* of a patient sender: the messages that reached the bridge, with their answers
    base,      \* the row's conversation when the sender's last messages began to arrive
    sent,      \* the messages that were replied to
    owed,      \* and the answer whose rest it was last promised
    late       \* reminders sent after the reply

thread == <<outcome, copy, answer, gave>>
row == <<exists, history, waiting>>
seen == <<said, base, sent, owed, late>>
vars == <<bridge, sender, asks, pc, thread, reminder, pending, row, seen>>

Entries == {"user", "assistant"} \X Messages

Init ==
    /\ bridge \in Agents
    /\ sender = [m \in Messages |-> Nobody]
    /\ asks = [m \in Messages |-> "chat"]
    /\ pc = [m \in Messages |-> "off"]
    /\ outcome = [m \in Messages |-> "none"]
    /\ copy = [m \in Messages |-> <<>>]
    /\ answer = [m \in Messages |-> "none"]
    /\ gave = [m \in Messages |-> NoMessage]
    /\ reminder = [m \in Messages |-> "off"]
    /\ pending = [s \in Senders |-> 0]
    /\ exists = {}
    /\ history = [s \in Senders |-> <<>>]
    /\ waiting = [s \in Senders |-> NoMessage]
    /\ said = [s \in Senders |-> <<>>]
    /\ base = [s \in Senders |-> <<>>]
    /\ sent = {}
    /\ owed = [s \in Senders |-> NoMessage]
    /\ late = [m \in Messages |-> 0]

Goto(m, step) == pc' = [pc EXCEPT ![m] = step]

InFlight(m) == pc[m] \notin {"off", "over"}
Quiet(s) == \A m \in Messages : sender[m] = s => ~InFlight(m)

\* What role says in the conversation of a patient sender of m.
Said(m, role) ==
    said' = IF sender[m] \in Patient /\ asks[m] = "chat"
            THEN [said EXCEPT ![sender[m]] = Append(@, <<role, m>>)] ELSE said

\* Such a sender is told that rest, the answer or NoMessage, is left of it for /more.
Owe(m, rest) ==
    owed' = IF sender[m] \in Patient THEN [owed EXCEPT ![sender[m]] = rest] ELSE owed

-----------------------------------------------------------------------------
(* The webhook's thread: _handle_and_reply.                                 *)

Arrive(m, s, what) ==
    /\ pc[m] = "off"
    /\ \A n \in Messages : n < m => pc[n] # "off"
    /\ s \in Patient => Quiet(s)
    /\ sender' = [sender EXCEPT ![m] = s]
    /\ asks' = [asks EXCEPT ![m] = what]
    /\ Goto(m, "queued")
    /\ base' = IF Quiet(s) THEN [base EXCEPT ![s] = history[s]] ELSE base
    /\ UNCHANGED <<bridge, thread, reminder, pending, row, said, sent, owed, late>>

Working == {m \in Messages : pc[m] \notin {"off", "queued", "over"}}

\* A worker takes the first message that waits and counts it, under the lock of
\* _sendblue_queues.
CountIn(m) ==
    /\ pc[m] = "queued"
    /\ Cardinality(Working) < Workers
    /\ \A n \in Messages : n < m => pc[n] # "queued"
    /\ pending' = [pending EXCEPT ![sender[m]] = @ + 1]
    /\ Goto(m, "ack")
    /\ UNCHANGED <<bridge, sender, asks, thread, reminder, row, seen>>

\* The acknowledgment and the start of the reminder thread, which is left out where
\* it has nothing to send.
Acknowledge(m) ==
    /\ pc[m] = "ack"
    /\ reminder' = IF m \in Slow THEN [reminder EXCEPT ![m] = "sleep"] ELSE reminder
    /\ Goto(m, "session")
    /\ Said(m, "user")
    /\ UNCHANGED <<bridge, sender, asks, thread, pending, row, base, sent, owed, late>>

\* reminder.start() raises, before the try: the thread ends and counts nobody out.
Strand(m) ==
    /\ pc[m] = "ack"
    /\ m \in Starved
    /\ outcome' = [outcome EXCEPT ![m] = "stranded"]
    /\ Goto(m, "over")
    /\ UNCHANGED <<bridge, sender, asks, copy, answer, gave, reminder, pending, row, seen>>

\* done_event is set when handle_incoming has returned or raised.
EndIncoming(m) ==
    /\ pc[m] = "finish"
    /\ Goto(m, "uncount")
    /\ UNCHANGED <<bridge, sender, asks, thread, reminder, pending, row, seen>>

\* Mutated: the queue is left only on the way to the reply.
CountOutOnReply(m) ==
    /\ pc[m] = "uncount"
    /\ pending' = IF outcome[m] = "reply" THEN [pending EXCEPT ![sender[m]] = @ - 1]
                                          ELSE pending
    /\ Goto(m, IF outcome[m] = "reply" THEN "send" ELSE "over")
    /\ UNCHANGED <<bridge, sender, asks, thread, reminder, row, seen>>

\* The rest of the finally block; an exception then ends the thread.
CountOut(m) ==
    /\ pc[m] = "uncount"
    /\ pending' = [pending EXCEPT ![sender[m]] = IF @ > 0 THEN @ - 1 ELSE 0]
    /\ Goto(m, IF outcome[m] = "reply" THEN "send" ELSE "over")
    /\ UNCHANGED <<bridge, sender, asks, thread, reminder, row, seen>>

\* "if response and reply_channel": a long answer is sent cut off, with "reply /more for
\* full response".
SendReply(m) ==
    /\ pc[m] = "send"
    /\ answer[m] # "empty"
    /\ sent' = sent \cup {m}
    /\ Goto(m, "over")
    /\ Said(m, "assistant")
    /\ IF answer[m] = "long" THEN Owe(m, m)
       ELSE IF gave[m] # NoMessage THEN Owe(m, NoMessage) ELSE UNCHANGED owed
    /\ answer' = [answer EXCEPT ![m] = "none"]
    /\ gave' = [gave EXCEPT ![m] = NoMessage]
    /\ UNCHANGED <<bridge, sender, asks, outcome, copy, reminder, pending, row, base, late>>

\* An empty answer is in the conversation, but nothing is sent.
SendNothing(m) ==
    /\ pc[m] = "send"
    /\ answer[m] = "empty"
    /\ Said(m, "assistant")
    /\ Goto(m, "over")
    /\ UNCHANGED <<bridge, sender, asks, thread, reminder, pending, row, base, sent, owed, late>>

-----------------------------------------------------------------------------
(* _send_reminders.                                                        *)

\* Mutated: nobody sets done_event.
NeverSet(m) == FALSE

EventSet(m) == pc[m] \in {"uncount", "send", "over"}

\* done_event.wait(60) runs out.
WaitRunsOut(m) ==
    /\ reminder[m] = "sleep"
    /\ ~EventSet(m)
    /\ reminder' = [reminder EXCEPT ![m] = "awake"]
    /\ UNCHANGED <<bridge, sender, asks, pc, thread, pending, row, seen>>

\* The count stops at two.
Remind(m) ==
    /\ reminder[m] = "awake"
    /\ reminder' = [reminder EXCEPT ![m] = "sleep"]
    /\ late' = IF pc[m] = "over" /\ late[m] < 2 THEN [late EXCEPT ![m] = @ + 1]
                                                ELSE late
    /\ UNCHANGED <<bridge, sender, asks, pc, thread, pending, row, said, base, sent, owed>>

StopReminding(m) ==
    /\ reminder[m] = "sleep"
    /\ EventSet(m)
    /\ reminder' = [reminder EXCEPT ![m] = "over"]
    /\ UNCHANGED <<bridge, sender, asks, pc, thread, pending, row, seen>>

-----------------------------------------------------------------------------
(* handle_incoming.                                                        *)

Route(m) == IF asks[m] = "chat" THEN "readq" ELSE "more"

\* Mutated: every message makes a row.
AlwaysInserts(m) ==
    /\ pc[m] = "session"
    /\ Goto(m, "insert")
    /\ UNCHANGED <<bridge, sender, asks, thread, reminder, pending, row, seen>>

\* get_or_create, the SELECT.
LookUp(m) ==
    /\ pc[m] = "session"
    /\ Goto(m, IF sender[m] \in exists THEN Route(m) ELSE "insert")
    /\ UNCHANGED <<bridge, sender, asks, thread, reminder, pending, row, seen>>

\* get_or_create, the INSERT: the primary key refuses a second row, and nobody
\* catches the error.
Insert(m) ==
    /\ pc[m] = "insert"
    /\ exists' = exists \cup {sender[m]}
    /\ IF sender[m] \in exists
       THEN outcome' = [outcome EXCEPT ![m] = "raise"] /\ Goto(m, "finish")
       ELSE UNCHANGED outcome /\ Goto(m, Route(m))
    /\ UNCHANGED <<bridge, sender, asks, copy, answer, gave, reminder, pending,
                   history, waiting, seen>>

\* _handle_more: get_or_create again, then clear_pending_response.
ReadPending(m) ==
    /\ pc[m] = "more"
    /\ gave' = [gave EXCEPT ![m] = waiting[sender[m]]]
    /\ outcome' = [outcome EXCEPT ![m] = "reply"]
    /\ Goto(m, IF waiting[sender[m]] = NoMessage THEN "finish" ELSE "clear")
    /\ UNCHANGED <<bridge, sender, asks, copy, answer, reminder, pending, row, seen>>

ClearPending(m) ==
    /\ pc[m] = "clear"
    /\ waiting' = [waiting EXCEPT ![sender[m]] = NoMessage]
    /\ Goto(m, "finish")
    /\ UNCHANGED <<bridge, sender, asks, thread, reminder, pending, exists, history, seen>>

\* Mutated: the answer is appended to what was read for the context.
ReadForQuestion(m) ==
    /\ pc[m] \in {"readq", "reada"}
    /\ LET s == history[sender[m]]
       IN  copy' = [copy EXCEPT ![m] = IF pc[m] = "readq" THEN s
                                       ELSE SubSeq(s, 1, Len(s) - 1)]
    /\ Goto(m, IF pc[m] = "readq" THEN "writeq" ELSE "writea")
    /\ UNCHANGED <<bridge, sender, asks, outcome, answer, gave, reminder, pending, row, seen>>

\* append_message, the SELECT: for the question and for the answer.
ReadHistory(m) ==
    /\ pc[m] \in {"readq", "reada"}
    /\ copy' = [copy EXCEPT ![m] = history[sender[m]]]
    /\ Goto(m, IF pc[m] = "readq" THEN "writeq" ELSE "writea")
    /\ UNCHANGED <<bridge, sender, asks, outcome, answer, gave, reminder, pending, row, seen>>

\* history[-_MAX_HISTORY_TURNS:]
Latest(s) == IF Len(s) > MaxHistory
             THEN SubSeq(s, Len(s) - MaxHistory + 1, Len(s)) ELSE s

\* append_message, the UPDATE.
WriteHistory(m) ==
    /\ pc[m] \in {"writeq", "writea"}
    /\ LET role == IF pc[m] = "writeq" THEN "user" ELSE "assistant"
       IN  history' = [history EXCEPT ![sender[m]] = Latest(Append(copy[m], <<role, m>>))]
    /\ IF pc[m] = "writeq"
       THEN UNCHANGED outcome /\ Goto(m, "context")
       ELSE outcome' = [outcome EXCEPT ![m] = "reply"] /\ Goto(m, "finish")
    /\ copy' = [copy EXCEPT ![m] = <<>>]
    /\ UNCHANGED <<bridge, sender, asks, answer, gave, reminder, pending, exists, waiting, seen>>

Earlier(s) == SubSeq(s, 1, Len(s) - 1)

\* The context of the question: history[:-1] of the session, read again.  Only
\* JarvisSystem is asked with it.
ReadContext(m) ==
    /\ pc[m] = "context"
    /\ copy' = [copy EXCEPT ![m] = IF bridge = "system" THEN Earlier(history[sender[m]])
                                                        ELSE <<>>]
    /\ Goto(m, "ask")
    /\ UNCHANGED <<bridge, sender, asks, outcome, answer, gave, reminder, pending, row, seen>>

\* The agent answers, or its error is made an answer; the DeepResearch agent's is never
\* empty ("No results found."), without an agent it is an error.
Ask(m) ==
    /\ pc[m] = "ask"
    /\ \E what \in {"short", "long", "empty"} :
         /\ what = "long" => bridge # "none"
         /\ what = "empty" => bridge = "system"
         /\ answer' = [answer EXCEPT ![m] = what]
         /\ Goto(m, IF what = "long" THEN "stash" ELSE "reada")
    /\ copy' = [copy EXCEPT ![m] = <<>>]
    /\ UNCHANGED <<bridge, sender, asks, outcome, gave, reminder, pending, row, seen>>

\* Mutated: an answer that waits is not replaced.
SetFirstPending(m) ==
    /\ pc[m] = "stash"
    /\ waiting' = [waiting EXCEPT ![sender[m]] = IF @ = NoMessage THEN m ELSE @]
    /\ Goto(m, "reada")
    /\ UNCHANGED <<bridge, sender, asks, thread, reminder, pending, exists, history, seen>>

\* _format_response stores the whole of a long answer for /more.
SetPending(m) ==
    /\ pc[m] = "stash"
    /\ waiting' = [waiting EXCEPT ![sender[m]] = m]
    /\ Goto(m, "reada")
    /\ UNCHANGED <<bridge, sender, asks, thread, reminder, pending, exists, history, seen>>

-----------------------------------------------------------------------------
Incoming(m) ==
    \/ LookUp(m) \/ Insert(m) \/ ReadPending(m) \/ ClearPending(m)
    \/ ReadHistory(m) \/ WriteHistory(m) \/ ReadContext(m) \/ Ask(m) \/ SetPending(m)

HandleAndReply(m) ==
    CountIn(m) \/ Acknowledge(m) \/ Strand(m) \/ Incoming(m)
        \/ EndIncoming(m) \/ CountOut(m) \/ SendReply(m) \/ SendNothing(m)

SendReminders(m) == WaitRunsOut(m) \/ Remind(m) \/ StopReminding(m)

Next ==
    \E m \in Messages :
        \/ \E s \in Senders, what \in {"chat", "more"} : Arrive(m, s, what)
        \/ HandleAndReply(m)
        \/ SendReminders(m)

Spec == Init /\ [][Next]_vars

\* The thread of a message goes on: agents and SendBlue's API answer or time out,
\* and the lock is held for an assignment; the executor's queue is served in order.
FairSpec == Spec /\ \A m \in Messages : WF_vars(HandleAndReply(m))

-----------------------------------------------------------------------------
(* Properties.                                                             *)

TypeOK ==
    /\ bridge \in Agents
    /\ sender \in [Messages -> Senders \cup {Nobody}]
    /\ asks \in [Messages -> {"chat", "more"}]
    /\ pc \in [Messages -> {"off", "queued", "ack", "session", "insert", "more", "clear",
                            "readq", "writeq", "context", "ask", "stash", "reada",
                            "writea", "finish", "uncount", "send", "over"}]
    /\ \A m \in Messages : pc[m] # "off" => sender[m] \in Senders
    /\ outcome \in [Messages -> {"none", "reply", "raise", "stranded"}]
    /\ copy \in [Messages -> Seq(Entries)]
    /\ answer \in [Messages -> {"none", "short", "long", "empty"}]
    /\ gave \in [Messages -> Messages \cup {NoMessage}]
    /\ reminder \in [Messages -> {"off", "sleep", "awake", "over"}]
    /\ pending \in [Senders -> Nat]
    /\ exists \subseteq Senders
    /\ history \in [Senders -> Seq(Entries)]
    /\ waiting \in [Senders -> Messages \cup {NoMessage}]
    /\ said \in [Senders -> Seq(Entries)]
    /\ base \in [Senders -> Seq(Entries)]
    /\ sent \subseteq Messages
    /\ owed \in [Senders -> Messages \cup {NoMessage}]
    /\ late \in [Messages -> 0..2]

\* The number a sender is told, "Message n in queue", counts the messages that are
\* being worked on, those whose thread will die of an exception of the bridge included,
\* and for ever those whose reminder could not be started (webhook_routes.py:398-439).
InQueue(s) ==
    {m \in Messages : /\ sender[m] = s
                      /\ \/ pc[m] \notin {"off", "queued", "send", "over"}
                         \/ outcome[m] = "stranded"}

QueueCounted == \A s \in Senders : pending[s] = Cardinality(InQueue(s))

\* h is b with new entries behind it, and without k of its oldest if these fill the window.
Extends(h, b) ==
    \E k \in 0..Len(b) :
        /\ k > 0 => Len(h) = MaxHistory
        /\ Len(b) - k <= Len(h)
        /\ \A i \in DOMAIN h :
             IF i <= Len(b) - k THEN h[i] = b[k + i] ELSE \A j \in DOMAIN b : h[i] # b[j]

\* Messages of a sender that overlap lose entries of each other, but of what the row held
\* before the first of them only what their own push out of the window.  A patient sender
\* loses nothing: between messages the row holds the end of the conversation, and
\* JarvisSystem, where it is asked, is asked with what came before the question
\* (channel_bridge.py:235-295, session_store.py:87-112).
ConversationKept ==
    /\ \A s \in Senders : Extends(history[s], base[s])
    /\ \A s \in Patient :
         /\ Quiet(s) => history[s] = Latest(said[s])
         /\ bridge = "system" =>
              \A m \in Messages :
                sender[m] = s /\ pc[m] = "ask" => copy[m] = Earlier(Latest(said[s]))

\* What /more hands to such a sender is the answer that was cut off last and has not
\* been handed out, and between messages that is what waits (channel_bridge.py:176-182
\* and 297-311).
RestKept ==
    \A s \in Patient :
        /\ Quiet(s) => waiting[s] = owed[s]
        /\ \A m \in Messages :
             sender[m] = s /\ asks[m] = "more" /\ pc[m] = "send" => gave[m] = owed[s]

\* After the reply at most one "Still working" arrives: the one whose wait had run out
\* before done_event was set (webhook_routes.py:419-437).
OneLateReminder == \A m \in Messages : late[m] <= 1

\* A message that has arrived is replied to, unless JarvisSystem's answer is empty or the
\* reminder cannot be started; the thread of an impatient sender's may also end without
\* a reply when two first messages make the row (session_store.py:61-71).
Answered ==
    \A m \in Messages :
        pc[m] = "queued" ~>
            /\ pc[m] = "over"
            /\ \/ m \in sent
               \/ bridge = "system" /\ answer[m] = "empty"
               \/ outcome[m] = "stranded"
               \/ outcome[m] = "raise" /\ sender[m] \notin Patient

\* channel_bridge.py:248 "exclude the message we just appended".
ContextExcludesOwn ==
    \A m \in Messages : pc[m] = "ask" =>
        \A i \in DOMAIN copy[m] : copy[m][i] # <<"user", m>>
=============================================================================
