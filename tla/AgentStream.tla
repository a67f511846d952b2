---------------------------- MODULE AgentStream ----------------------------
(***************************************************************************)
(* The chat requests of the API server that go to its agent                 *)
(* (server/routes.py, server/stream_bridge.py) and the event bus between    *)
(* the agent's threads and the event loop (core/events.py).  A streaming    *)
(* request listens on the bus, runs the one agent of the server in a worker *)
(* thread and shows what the loop hands to its queue; a plain request runs  *)
(* the agent on the event loop itself.                                      *)
(*                                                                         *)
(* Abstractions.  A run publishes numbered events from its own thread and   *)
(* from the threads of its tools.  The event types are one: a stream takes  *)
(* and leaves all of them without giving up the loop.  The answer that is   *)
(* streamed after the run, its errors included, is one step.  The compliance *)
(* gate, metrics and requests that go to the engine directly are left out.  *)
(***************************************************************************)
EXTENDS Naturals, Sequences, FiniteSets, Functions

CONSTANTS
    Requests,
    Streams,    \* those with stream = true
    Default,    \* the model the agent was created with
    NoModel,
    Asked,      \* what requests name as their model: models, or NoModel for ""
    Parallel,   \* the requests in whose runs a tool has a thread of its own
    Workers,    \* max_workers of the loop's default executor
    MaxEvents   \* bound: events of all the runs together

ASSUME StreamAssumption ==
    /\ Streams \subseteq Requests /\ Parallel \subseteq Requests
    /\ Default # NoModel
    /\ Workers \in Nat \ {0} /\ MaxEvents \in Nat

VARIABLES
    gen,        \* of a request: "off", "open", "answer", "closed", "gone", "left"
    thread,     \* its run: "off", "queued", "save", "override", "run", "ended"
    wants,      \* its model
    saved,      \* original_model
    model,      \* agent._model
    sent,       \* events published by the run
    pub,        \* what each of its threads publishes, and whom it has still to call
    subs,       \* the bus's _subscribers, in order of registration
    blocked,    \* the plain requests that run on the loop: at most one
    ready,      \* the loop's ready queue
    queue,      \* _queue of a stream
    shown       \* the events of its own run that a stream has yielded

override == <<wants, saved, model>>
bus == <<sent, pub, subs>>
loop == <<blocked, ready, queue, shown>>
streamVars == <<gen, thread, override, bus, loop>>

-----------------------------------------------------------------------------
(* What the loop is given to do: put an item into a stream's queue, or pass   *)
(* the end of a run on, from the executor's future to the task, whose done    *)
(* callback puts DONE.                                                      *)

Done == <<>>
Put(r, item) == [do |-> "put", of |-> r, item |-> item]
Hop(step, r) == [do |-> step, of |-> r, item |-> Done]
Threads == {"agent", "tool"}
Events == Requests \X Threads \X (Nat \ {0})
Callbacks == [do : {"put", "settle", "done"}, of : Streams, item : Events \cup {Done}]
Idle == [event |-> 0, calls |-> <<>>]

LoopFree == blocked = {}
Running == {r \in Streams : thread[r] \in {"save", "override", "run"}}

StreamInit ==
    /\ gen = [r \in Requests |-> "off"]
    /\ thread = [r \in Requests |-> "off"]
    /\ wants = [r \in Requests |-> NoModel]
    /\ saved = [r \in Requests |-> NoModel]
    /\ model = Default
    /\ sent = [r \in Requests |-> 0]
    /\ pub = [r \in Requests |-> [t \in Threads |-> Idle]]
    /\ subs = <<>>
    /\ blocked = {}
    /\ ready = <<>>
    /\ queue = [r \in Streams |-> <<>>]
    /\ shown = [r \in Streams |-> <<>>]

-----------------------------------------------------------------------------
(* Requests.                                                               *)

\* stream begins: _subscribe_all, then agent.run goes to the executor.
OpenStream(r, m) ==
    /\ LoopFree
    /\ r \in Streams
    /\ gen[r] = "off"
    /\ wants' = [wants EXCEPT ![r] = m]
    /\ subs' = Append(subs, r)
    /\ gen' = [gen EXCEPT ![r] = "open"]
    /\ thread' = [thread EXCEPT ![r] = "queued"]
    /\ UNCHANGED <<saved, model, sent, pub, loop>>

\* _handle_agent runs the agent without leaving the loop.
HandleAgent(r, m) ==
    /\ LoopFree
    /\ r \in Requests \ Streams
    /\ gen[r] = "off"
    /\ wants' = [wants EXCEPT ![r] = m]
    /\ gen' = [gen EXCEPT ![r] = "open"]
    /\ thread' = [thread EXCEPT ![r] = "save"]
    /\ blocked' = {r}
    /\ UNCHANGED <<saved, model, bus, ready, queue, shown>>

\* A worker takes the run.
TakeWorker(r) ==
    /\ thread[r] = "queued"
    /\ Cardinality(Running) < Workers
    /\ thread' = [thread EXCEPT ![r] = "save"]
    /\ UNCHANGED <<gen, override, bus, loop>>

-----------------------------------------------------------------------------
(* The run, in its thread.                                                  *)

\* original_model = self._agent._model
SaveModel(r) ==
    /\ thread[r] = "save"
    /\ saved' = [saved EXCEPT ![r] = model]
    /\ thread' = [thread EXCEPT ![r] = "override"]
    /\ UNCHANGED <<gen, wants, model, bus, loop>>

\* The agent's model is the request's, if it names one.
OverrideModel(r) ==
    /\ thread[r] = "override"
    /\ model' = IF wants[r] # NoModel THEN wants[r] ELSE model
    /\ thread' = [thread EXCEPT ![r] = "run"]
    /\ UNCHANGED <<gen, wants, saved, bus, loop>>

\* publish copies the listeners under the lock and calls them without it.
Publish(r, t) ==
    /\ thread[r] = "run"
    /\ t = "tool" => r \in Parallel
    /\ pub[r][t].calls = <<>>
    /\ SumFunction(sent) < MaxEvents
    /\ sent' = [sent EXCEPT ![r] = @ + 1]
    /\ pub' = [pub EXCEPT ![r][t] =
                  IF subs = <<>> THEN Idle ELSE [event |-> sent[r] + 1, calls |-> subs]]
    /\ UNCHANGED <<gen, thread, override, subs, loop>>

\* A listener's callback: call_soon_threadsafe(put_nowait), also for a stream that
\* has unsubscribed meanwhile.
CallListener(r, t) ==
    LET p == pub[r][t] IN
    /\ p.calls # <<>>
    /\ ready' = Append(ready, Put(Head(p.calls), <<r, t, p.event>>))
    /\ pub' = [pub EXCEPT ![r][t] =
                  IF Len(p.calls) = 1 THEN Idle
                  ELSE [event |-> p.event, calls |-> Tail(p.calls)]]
    /\ UNCHANGED <<gen, thread, override, sent, subs, blocked, queue, shown>>

Joined(r) == \A t \in Threads : pub[r][t].calls = <<>>

\* Mutated: the worker thread puts DONE into the queue by itself.
EndRunPuts(r) ==
    /\ thread[r] = "run"
    /\ r \in Streams
    /\ Joined(r)
    /\ model' = saved[r]
    /\ thread' = [thread EXCEPT ![r] = "ended"]
    /\ queue' = [queue EXCEPT ![r] = Append(@, Done)]
    /\ UNCHANGED <<gen, wants, saved, bus, blocked, ready, shown>>

\* The run returns or raises, with its tools' threads joined; the model is restored
\* and the executor's future reports to the loop.
EndRun(r) ==
    /\ thread[r] = "run"
    /\ r \in Streams
    /\ Joined(r)
    /\ model' = saved[r]
    /\ thread' = [thread EXCEPT ![r] = "ended"]
    /\ ready' = Append(ready, Hop("settle", r))
    /\ UNCHANGED <<gen, wants, saved, bus, blocked, queue, shown>>

\* The same on the loop: the request is answered and the loop goes on.
EndHandled(r) ==
    /\ thread[r] = "run"
    /\ r \notin Streams
    /\ Joined(r)
    /\ model' = saved[r]
    /\ thread' = [thread EXCEPT ![r] = "ended"]
    /\ gen' = [gen EXCEPT ![r] = "closed"]
    /\ blocked' = {}
    /\ UNCHANGED <<wants, saved, bus, ready, queue, shown>>

-----------------------------------------------------------------------------
(* The event loop and the stream's generator on it.                         *)

\* Nobody reads the queue of a stream that is over: it is left out.
Over == {"closed", "left"}

Forget(r) ==
    /\ queue' = [queue EXCEPT ![r] = <<>>]
    /\ shown' = [shown EXCEPT ![r] = <<>>]
    /\ UNCHANGED <<blocked, ready>>

Without(s, i) == [k \in 1..(Len(s) - 1) |-> s[IF k < i THEN k ELSE k + 1]]

\* listeners.remove(callback): the first of its places, if it has one.
Unsubscribed(r) ==
    LET places == {i \in DOMAIN subs : subs[i] = r}
        first == CHOOSE i \in places : \A j \in places : i <= j
    IN  IF places = {} THEN subs ELSE Without(subs, first)

Handle ==
    /\ LoopFree
    /\ ready # <<>>
    /\ LET h == Head(ready)
           Then(step) == Append(Tail(ready), step)
       IN  \/ /\ h.do = "put"
              /\ queue' = IF gen[h.of] \in Over THEN queue
                          ELSE [queue EXCEPT ![h.of] = Append(@, h.item)]
              /\ ready' = Tail(ready)
           \/ /\ h.do = "settle" /\ ready' = Then(Hop("done", h.of)) /\ UNCHANGED queue
           \/ /\ h.do = "done" /\ ready' = Then(Put(h.of, Done)) /\ UNCHANGED queue
    /\ UNCHANGED <<gen, thread, override, bus, blocked, shown>>

\* queue.get: an event is yielded, of whichever run; DONE ends the wait.
Take(r) ==
    /\ LoopFree
    /\ gen[r] = "open"
    /\ queue[r] # <<>>
    /\ queue' = [queue EXCEPT ![r] = Tail(@)]
    /\ IF Head(queue[r]) = Done
       THEN gen' = [gen EXCEPT ![r] = "answer"] /\ UNCHANGED shown
       ELSE /\ shown' = IF Head(queue[r])[1] = r
                         THEN [shown EXCEPT ![r] = Append(@, Head(queue[r]))] ELSE shown
            /\ UNCHANGED gen
    /\ UNCHANGED <<thread, override, bus, blocked, ready>>

\* The answer, or the error, is streamed; the finally block unsubscribes.
Answer(r) ==
    /\ LoopFree
    /\ gen[r] = "answer"
    /\ subs' = Unsubscribed(r)
    /\ gen' = [gen EXCEPT ![r] = "closed"]
    /\ Forget(r)
    /\ UNCHANGED <<thread, override, sent, pub>>

\* The client goes away, or an event cannot be written; the run goes on.
Disconnect(r) ==
    /\ r \in Streams
    /\ gen[r] \in {"open", "answer"}
    /\ gen' = [gen EXCEPT ![r] = "gone"]
    /\ UNCHANGED <<thread, override, bus, loop>>

\* Mutated: only a stream that comes to its end unsubscribes.
FinalizeKeeps(r) ==
    /\ LoopFree
    /\ gen[r] = "gone"
    /\ gen' = [gen EXCEPT ![r] = "left"]
    /\ Forget(r)
    /\ UNCHANGED <<thread, override, bus>>

\* The generator is cancelled or closed: the finally block alone.
Finalize(r) ==
    /\ LoopFree
    /\ gen[r] = "gone"
    /\ subs' = Unsubscribed(r)
    /\ gen' = [gen EXCEPT ![r] = "left"]
    /\ Forget(r)
    /\ UNCHANGED <<thread, override, sent, pub>>

-----------------------------------------------------------------------------
Arrive(r) == \E m \in Asked : OpenStream(r, m) \/ HandleAgent(r, m)

ThreadStep(r) ==
    \/ TakeWorker(r) \/ SaveModel(r) \/ OverrideModel(r) \/ EndRun(r) \/ EndHandled(r)
    \/ \E t \in Threads : Publish(r, t) \/ CallListener(r, t)

Generator(r) == Take(r) \/ Answer(r) \/ Finalize(r)

StreamNext ==
    \/ Handle
    \/ \E r \in Requests : Arrive(r) \/ ThreadStep(r)
    \/ \E r \in Streams : Generator(r) \/ Disconnect(r)

StreamSpec == StreamInit /\ [][StreamNext]_streamVars

\* Runs go on and end, the loop turns.  Clients need not come or go.
StreamFairSpec ==
    /\ StreamSpec
    /\ WF_streamVars(Handle)
    /\ \A r \in Requests : WF_streamVars(ThreadStep(r))
    /\ \A r \in Streams : WF_streamVars(Generator(r))

-----------------------------------------------------------------------------
(* Properties.                                                             *)

StreamTypeOK ==
    /\ gen \in [Requests -> {"off", "open", "answer", "closed", "gone", "left"}]
    /\ thread \in [Requests -> {"off", "queued", "save", "override", "run", "ended"}]
    /\ wants \in [Requests -> Asked \cup {NoModel}]
    /\ saved \in [Requests -> Asked \cup {Default, NoModel}]
    /\ model \in (Asked \ {NoModel}) \cup {Default}
    /\ sent \in [Requests -> Nat]
    /\ pub \in [Requests -> [Threads -> [event : Nat, calls : Seq(Streams)]]]
    /\ subs \in Seq(Streams)
    /\ blocked \subseteq Requests \ Streams /\ Cardinality(blocked) <= 1
    /\ Cardinality(Running) <= Workers
    /\ ready \in Seq(Callbacks)
    /\ queue \in [Streams -> Seq(Events \cup {Done})]
    /\ shown \in [Streams -> Seq(Events)]

\* A stream that has taken DONE has shown every event of its own run exactly once,
\* those of one thread in the order they were published, however the threads, other
\* runs and the loop interleave (stream_bridge.py:151-187).
OwnEventsShown ==
    \A r \in Streams : gen[r] = "answer" =>
        LET At(k) == {i \in DOMAIN shown[r] : shown[r][i][3] = k}
        IN  /\ \A k \in 1..sent[r] : Cardinality(At(k)) = 1
            /\ \A k, n \in 1..sent[r] : k < n =>
                 \A i \in At(k), j \in At(n) : shown[r][i][2] = shown[r][j][2] => i < j

\* A stream ends, also when its client has gone, its run waits for a worker or a
\* plain request holds the loop; and it leaves nothing on the bus (stream_bridge.py:
\* 345-350).
StreamEnds ==
    \A r \in Streams :
        gen[r] = "open" ~> /\ gen[r] \in {"closed", "left"}
                           /\ \A i \in DOMAIN subs : subs[i] # r

\* stream_bridge.py:136 "Override agent model for this request": when no run is
\* under way the agent has its own model again.
OverrideEnds ==
    (\A r \in Requests : thread[r] \in {"off", "queued", "ended"}) => model = Default
=============================================================================
