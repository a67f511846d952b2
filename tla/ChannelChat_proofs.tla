-------------------------- MODULE ChannelChat_proofs --------------------------
(***************************************************************************)
(* Proofs about ChannelChat, for any number of messages, senders and worker  *)
(* threads and any length of the history.                                    *)
(***************************************************************************)
EXTENDS ChannelChat, FiniteSetTheorems, SequenceTheorems, TLAPS

-----------------------------------------------------------------------------
(* The window on a conversation.                                            *)

\* The window is a conversation.
LEMMA LatestType ==
    ASSUME NEW s \in Seq(Entries)
    PROVE  Latest(s) \in Seq(Entries)
<1> USE ChatAssumption
<1>1. CASE Len(s) > MaxHistory
  BY <1>1 DEF Latest
<1>2. CASE ~(Len(s) > MaxHistory)
  BY <1>2 DEF Latest
<1> QED BY <1>1, <1>2

\* All but the last entry is a conversation.
LEMMA EarlierType ==
    ASSUME NEW s \in Seq(Entries)
    PROVE  Earlier(s) \in Seq(Entries)
BY DEF Earlier

\* append_message may cut before it appends as well as after.
LEMMA LatestAppend ==
    ASSUME NEW s \in Seq(Entries), NEW e \in Entries
    PROVE  Latest(Append(Latest(s), e)) = Latest(Append(s, e))
<1> USE ChatAssumption
<1> DEFINE N == MaxHistory
           L == Len(s)
           w == Latest(s)
           a == Append(w, e)
           b == Append(s, e)
<1>0. N \in Nat \ {0} /\ L \in Nat
  OBVIOUS
<1>1. CASE L <= N
  <2>1. w = s
    BY <1>1 DEF Latest
  <2> QED BY <2>1
<1>2. CASE L > N
  <2>1. w = SubSeq(s, L - N + 1, L)
    BY <1>2 DEF Latest
  <2>2. w \in Seq(Entries) /\ Len(w) = N /\ \A i \in 1..N : w[i] = s[L - N + i]
    BY <2>1, <1>2, <1>0
  <2>3. a \in Seq(Entries) /\ Len(a) = N + 1 /\ a[N + 1] = e /\ \A i \in 1..N : a[i] = w[i]
    BY <2>2, <1>0
  <2>4. b \in Seq(Entries) /\ Len(b) = L + 1 /\ b[L + 1] = e /\ \A i \in 1..L : b[i] = s[i]
    BY <1>0
  <2>5. Latest(a) = SubSeq(a, 2, N + 1)
    BY <2>3, <1>0 DEF Latest
  <2>6. Latest(b) = SubSeq(b, L + 2 - N, L + 1)
    BY <2>4, <1>0, <1>2 DEF Latest
  <2>7. /\ Latest(a) \in Seq(Entries) /\ Len(Latest(a)) = N
        /\ \A i \in 1..N : Latest(a)[i] = a[i + 1]
    <3>1. \A i \in 2..(N + 1) : a[i] \in Entries
      BY <2>3, <1>0
    <3> HIDE DEF a, b, w
    <3> QED BY <3>1, <2>5, <1>0, SubSeqProperties
  <2>8. /\ Latest(b) \in Seq(Entries) /\ Len(Latest(b)) = N
        /\ \A i \in 1..N : Latest(b)[i] = b[L + 1 - N + i]
    <3>1. \A i \in (L + 2 - N)..(L + 1) : b[i] \in Entries
      BY <2>4, <1>0, <1>2
    <3> HIDE DEF a, b, w
    <3> QED BY <3>1, <2>6, <1>0, <1>2, SubSeqProperties
  <2>9. ASSUME NEW i \in 1..N
        PROVE  Latest(a)[i] = Latest(b)[i]
    <3>1. CASE i = N
      BY <3>1, <2>7, <2>8, <2>3, <2>4, <1>0, <1>2
    <3>2. CASE i < N
      <4>1. a[i + 1] = s[L - N + (i + 1)]
        BY <3>2, <2>2, <2>3, <1>0
      <4>2. b[L + 1 - N + i] = s[L + 1 - N + i]
        BY <3>2, <2>4, <1>0, <1>2
      <4>3. L - N + (i + 1) = L + 1 - N + i
        BY <1>0
      <4> HIDE DEF a, b, w
      <4> QED BY <4>1, <4>2, <4>3, <2>7, <2>8
    <3> QED BY <3>1, <3>2, <1>0
  <2>10. Latest(a) = Latest(b)
    <3> HIDE DEF a, b, w
    <3> QED BY <2>7, <2>8, <2>9, SeqEqual
  <2> QED BY <2>10
<1> QED BY <1>1, <1>2, <1>0

-----------------------------------------------------------------------------
(* Types.                                                                  *)

ThreadOK ==
    /\ outcome \in [Messages -> {"none", "reply", "raise", "stranded"}]
    /\ copy \in [Messages -> Seq(Entries)]
    /\ answer \in [Messages -> {"none", "short", "long", "empty"}]
    /\ gave \in [Messages -> Messages \cup {NoMessage}]

RequestOK ==
    /\ bridge \in Agents
    /\ sender \in [Messages -> Senders \cup {Nobody}]
    /\ asks \in [Messages -> {"chat", "more"}]
    /\ pc \in [Messages -> {"off", "queued", "ack", "session", "insert", "more", "clear",
                            "readq", "writeq", "context", "ask", "stash", "reada",
                            "writea", "finish", "uncount", "send", "over"}]
    /\ \A m \in Messages : pc[m] # "off" => sender[m] \in Senders
    /\ reminder \in [Messages -> {"off", "sleep", "awake", "over"}]

RowOK ==
    /\ pending \in [Senders -> Nat]
    /\ exists \subseteq Senders
    /\ history \in [Senders -> Seq(Entries)]
    /\ waiting \in [Senders -> Messages \cup {NoMessage}]

SeenOK ==
    /\ said \in [Senders -> Seq(Entries)]
    /\ base \in [Senders -> Seq(Entries)]
    /\ sent \subseteq Messages
    /\ owed \in [Senders -> Messages \cup {NoMessage}]
    /\ late \in [Messages -> 0..2]

LEMMA TypeSplit == TypeOK <=> RequestOK /\ ThreadOK /\ RowOK /\ SeenOK
BY DEF TypeOK, RequestOK, ThreadOK, RowOK, SeenOK

LEMMA TypeSplitNext == TypeOK' <=> RequestOK' /\ ThreadOK' /\ RowOK' /\ SeenOK'
BY DEF TypeOK, RequestOK, ThreadOK, RowOK, SeenOK

LEMMA InitTypes == Init => TypeOK
<1> SUFFICES ASSUME Init PROVE TypeOK
  OBVIOUS
<1>0. <<>> \in Seq(Entries)
  OBVIOUS
<1>1. RequestOK BY DEF Init, RequestOK
<1>2. ThreadOK BY <1>0 DEF Init, ThreadOK
<1>3. RowOK BY <1>0 DEF Init, RowOK
<1>4. SeenOK BY <1>0 DEF Init, SeenOK
<1> QED BY <1>1, <1>2, <1>3, <1>4, TypeSplit

\* What is added to a conversation is an entry.
LEMMA SaidType ==
    ASSUME SeenOK, NEW m \in Messages, sender[m] \in Senders,
           NEW role \in {"user", "assistant"}, Said(m, role)
    PROVE  said' \in [Senders -> Seq(Entries)]
<1>1. <<role, m>> \in Entries
  BY DEF Entries
<1>2. Append(said[sender[m]], <<role, m>>) \in Seq(Entries)
  BY <1>1 DEF SeenOK
<1> QED BY <1>2 DEF SeenOK, Said

LEMMA StepTypes == TypeOK /\ [Next]_vars => TypeOK'
<1> SUFFICES ASSUME TypeOK, [Next]_vars PROVE TypeOK'
  OBVIOUS
<1>0. RequestOK /\ ThreadOK /\ RowOK /\ SeenOK
  BY TypeSplit
<1> USE <1>0
<1>1. CASE UNCHANGED vars
  BY <1>1, TypeSplitNext DEF vars, thread, row, seen, RequestOK, ThreadOK, RowOK, SeenOK
<1>2. ASSUME NEW m \in Messages, NEW s \in Senders, NEW what \in {"chat", "more"},
             Arrive(m, s, what)
      PROVE  TypeOK'
  <2>1. RequestOK' /\ ThreadOK' /\ RowOK'
    BY <1>2 DEF Arrive, Goto, thread, row, RequestOK, ThreadOK, RowOK
  <2>2. base' \in [Senders -> Seq(Entries)]
    BY <1>2 DEF Arrive, SeenOK, RowOK
  <2>3. SeenOK'
    BY <1>2, <2>2 DEF Arrive, SeenOK
  <2> QED BY <2>1, <2>3, TypeSplitNext
<1>3. ASSUME NEW m \in Messages, HandleAndReply(m)
      PROVE  TypeOK'
  <2>1. CASE CountIn(m) \/ Strand(m) \/ LookUp(m) \/ EndIncoming(m) \/ CountOut(m)
    <3>1. pc[m] # "off" /\ sender[m] \in Senders /\ sender' = sender /\ asks' = asks
      BY <2>1 DEF CountIn, Strand, LookUp, EndIncoming, CountOut, RequestOK
    <3>2. RequestOK'
      BY <2>1, <3>1 DEF CountIn, Strand, LookUp, EndIncoming, CountOut, Goto, Route, RequestOK
    <3>3. ThreadOK' /\ SeenOK'
      BY <2>1 DEF CountIn, Strand, LookUp, EndIncoming, CountOut, thread, seen,
                  ThreadOK, SeenOK
    <3>4. RowOK'
      <4>1. pending' \in [Senders -> Nat]
        BY <2>1, <3>1 DEF CountIn, Strand, LookUp, EndIncoming, CountOut, RowOK
      <4> QED BY <2>1, <4>1 DEF CountIn, Strand, LookUp, EndIncoming, CountOut, row, RowOK
    <3> QED BY <3>2, <3>3, <3>4, TypeSplitNext
  <2>2. CASE Insert(m) \/ ReadPending(m) \/ ClearPending(m) \/ SetPending(m)
    <3>1. pc[m] # "off" /\ sender[m] \in Senders /\ sender' = sender /\ asks' = asks
      BY <2>2 DEF Insert, ReadPending, ClearPending, SetPending, RequestOK
    <3>2. RequestOK'
      BY <2>2, <3>1 DEF Insert, ReadPending, ClearPending, SetPending, Goto, Route, RequestOK
    <3>3. ThreadOK'
      BY <2>2, <3>1 DEF Insert, ReadPending, ClearPending, SetPending, thread, ThreadOK, RowOK
    <3>4. RowOK'
      BY <2>2, <3>1 DEF Insert, ReadPending, ClearPending, SetPending, row, RowOK
    <3>5. SeenOK'
      BY <2>2 DEF Insert, ReadPending, ClearPending, SetPending, seen, SeenOK
    <3> QED BY <3>2, <3>3, <3>4, <3>5, TypeSplitNext
  <2>3. CASE ReadHistory(m) \/ ReadContext(m) \/ Ask(m)
    <3>1. pc[m] # "off" /\ sender[m] \in Senders /\ sender' = sender /\ asks' = asks
      BY <2>3 DEF ReadHistory, ReadContext, Ask, RequestOK
    <3>2. RequestOK'
      BY <2>3, <3>1 DEF ReadHistory, ReadContext, Ask, Goto, RequestOK
    <3>3. history[sender[m]] \in Seq(Entries) /\ Earlier(history[sender[m]]) \in Seq(Entries)
      BY <3>1, EarlierType DEF RowOK
    <3>4. ThreadOK'
      <4>1. CASE ReadHistory(m)
        BY <4>1, <3>3 DEF ReadHistory, ThreadOK
      <4>2. CASE ReadContext(m)
        BY <4>2, <3>3 DEF ReadContext, ThreadOK
      <4>3. CASE Ask(m)
        BY <4>3 DEF Ask, ThreadOK
      <4> QED BY <2>3, <4>1, <4>2, <4>3
    <3>5. RowOK' /\ SeenOK'
      BY <2>3 DEF ReadHistory, ReadContext, Ask, row, seen, RowOK, SeenOK
    <3> QED BY <3>2, <3>4, <3>5, TypeSplitNext
  <2>4. CASE WriteHistory(m)
    <3>1. pc[m] # "off" /\ sender[m] \in Senders /\ sender' = sender /\ asks' = asks
      BY <2>4 DEF WriteHistory, RequestOK
    <3>2. RequestOK'
      BY <2>4, <3>1 DEF WriteHistory, Goto, RequestOK
    <3>3. ThreadOK'
      <4>1. <<>> \in Seq(Entries)
        OBVIOUS
      <4> QED BY <2>4, <4>1 DEF WriteHistory, ThreadOK
    <3>4. \A r \in {"user", "assistant"} : Latest(Append(copy[m], <<r, m>>)) \in Seq(Entries)
      <4>1. \A r \in {"user", "assistant"} : Append(copy[m], <<r, m>>) \in Seq(Entries)
        BY DEF ThreadOK, Entries
      <4> QED BY <4>1, LatestType
    <3>5. RowOK'
      BY <2>4, <3>1, <3>4 DEF WriteHistory, RowOK
    <3>6. SeenOK'
      BY <2>4 DEF WriteHistory, seen, SeenOK
    <3> QED BY <3>2, <3>3, <3>5, <3>6, TypeSplitNext
  <2>5. CASE Acknowledge(m)
    <3>1. pc[m] # "off" /\ sender[m] \in Senders /\ said' \in [Senders -> Seq(Entries)]
      BY <2>5, SaidType DEF Acknowledge, RequestOK
    <3>2. RequestOK' /\ RowOK' /\ ThreadOK'
      BY <2>5, <3>1 DEF Acknowledge, Goto, row, thread, RequestOK, RowOK, ThreadOK
    <3>3. SeenOK'
      BY <2>5, <3>1 DEF Acknowledge, SeenOK
    <3> QED BY <3>2, <3>3, TypeSplitNext
  <2>6. CASE SendReply(m) \/ SendNothing(m)
    <3>1. pc[m] # "off" /\ sender[m] \in Senders /\ said' \in [Senders -> Seq(Entries)]
      BY <2>6, SaidType DEF SendReply, SendNothing, RequestOK
    <3>2. RequestOK' /\ RowOK'
      BY <2>6, <3>1 DEF SendReply, SendNothing, Goto, row, RequestOK, RowOK
    <3>3. ThreadOK'
      BY <2>6 DEF SendReply, SendNothing, thread, ThreadOK
    <3>4. owed' \in [Senders -> Messages \cup {NoMessage}]
      BY <2>6 DEF SendReply, SendNothing, Owe, SeenOK
    <3>5. SeenOK'
      BY <2>6, <3>1, <3>4 DEF SendReply, SendNothing, SeenOK
    <3> QED BY <3>2, <3>3, <3>5, TypeSplitNext
  <2> QED BY <1>3, <2>1, <2>2, <2>3, <2>4, <2>5, <2>6 DEF HandleAndReply, Incoming
<1>4. ASSUME NEW m \in Messages, SendReminders(m)
      PROVE  TypeOK'
  <2>1. RequestOK' /\ ThreadOK' /\ RowOK'
    BY <1>4 DEF SendReminders, WaitRunsOut, Remind, StopReminding, thread, row,
                RequestOK, ThreadOK, RowOK
  <2>2. SeenOK'
    BY <1>4 DEF SendReminders, WaitRunsOut, Remind, StopReminding, seen, SeenOK
  <2> QED BY <2>1, <2>2, TypeSplitNext
<1> QED BY <1>1, <1>2, <1>3, <1>4 DEF Next

\* Requests, threads, rows and what the senders see keep their types.
THEOREM TypeCorrect == Spec => []TypeOK
<1>1. Init => TypeOK BY InitTypes
<1>2. TypeOK /\ [Next]_vars => TypeOK' BY StepTypes
<1> QED BY <1>1, <1>2, PTL DEF Spec

\* A step of the thread of m, as the others see it.
Aside(m) ==
    /\ UNCHANGED <<bridge, sender, asks, base>>
    /\ InFlight(m) /\ pc'[m] # "off"
    /\ \A n \in Messages : n # m =>
         /\ pc'[n] = pc[n] /\ outcome'[n] = outcome[n] /\ copy'[n] = copy[n]
         /\ answer'[n] = answer[n] /\ gave'[n] = gave[n]
    /\ \A s \in Senders : s # sender[m] =>
         /\ history'[s] = history[s] /\ waiting'[s] = waiting[s]
         /\ said'[s] = said[s] /\ owed'[s] = owed[s]
         /\ s \in exists' <=> s \in exists

\* A thread touches its own message and the row of its sender only.
LEMMA ThreadAside ==
    ASSUME TypeOK, NEW m \in Messages, HandleAndReply(m)
    PROVE  Aside(m)
<1>1. pc[m] \notin {"off", "over"} /\ sender[m] \in Senders
  BY DEF HandleAndReply, Incoming, CountIn, Acknowledge, Strand, EndIncoming, CountOut,
         SendReply, SendNothing, LookUp, Insert, ReadPending, ClearPending, ReadHistory,
         WriteHistory, ReadContext, Ask, SetPending, TypeOK
<1>2. CASE CountIn(m) \/ Strand(m) \/ EndIncoming(m) \/ CountOut(m) \/ LookUp(m)
  BY <1>1, <1>2 DEF CountIn, Strand, EndIncoming, CountOut, LookUp, Goto, Route,
                    thread, row, seen, Aside, InFlight, TypeOK
<1>3. CASE Insert(m) \/ ReadPending(m) \/ ClearPending(m) \/ SetPending(m)
  BY <1>1, <1>3 DEF Insert, ReadPending, ClearPending, SetPending, Goto, Route,
                    thread, row, seen, Aside, InFlight, TypeOK
<1>4. CASE ReadHistory(m) \/ WriteHistory(m) \/ ReadContext(m) \/ Ask(m)
  BY <1>1, <1>4 DEF ReadHistory, WriteHistory, ReadContext, Ask, Goto,
                    row, seen, Aside, InFlight, TypeOK
<1>5. CASE Acknowledge(m)
  BY <1>1, <1>5 DEF Acknowledge, Said, Goto, thread, row, Aside, InFlight, TypeOK
<1>6. CASE SendReply(m) \/ SendNothing(m)
  BY <1>1, <1>6 DEF SendReply, SendNothing, Said, Owe, Goto, thread, row, Aside, InFlight,
                    TypeOK
<1> QED BY <1>2, <1>3, <1>4, <1>5, <1>6 DEF HandleAndReply, Incoming

-----------------------------------------------------------------------------
(* The queue.                                                              *)

LEMMA QueueFinite ==
    ASSUME NEW s \in Senders
    PROVE  IsFiniteSet(InQueue(s)) /\ Cardinality(InQueue(s)) \in Nat
<1>1. IsFiniteSet(Messages)
  BY ChatAssumption, FS_Interval DEF Messages
<1>2. InQueue(s) \subseteq Messages
  BY DEF InQueue
<1> QED BY <1>1, <1>2, FS_Subset, FS_CardinalityType

\* A thread without a reminder ends at once.
StrandedOver == \A m \in Messages : outcome[m] = "stranded" => pc[m] = "over"

LEMMA StrandedStep == TypeOK /\ StrandedOver /\ [Next]_vars => StrandedOver'
<1> SUFFICES ASSUME TypeOK, StrandedOver, [Next]_vars PROVE StrandedOver'
  OBVIOUS
<1>1. CASE UNCHANGED vars
  BY <1>1 DEF vars, thread, StrandedOver
<1>2. ASSUME NEW m \in Messages, NEW s \in Senders, NEW what \in {"chat", "more"},
             Arrive(m, s, what)
      PROVE  StrandedOver'
  BY <1>2 DEF Arrive, Goto, thread, StrandedOver, TypeOK
<1>3. ASSUME NEW m \in Messages, HandleAndReply(m)
      PROVE  StrandedOver'
  <2>1. pc[m] # "over" /\ \A n \in Messages : n # m => pc'[n] = pc[n] /\ outcome'[n] = outcome[n]
    BY <1>3, ThreadAside DEF Aside, InFlight
  <2>2. pc'[m] = "over" \/ outcome'[m] # "stranded"
    <3>1. outcome[m] # "stranded"
      BY <2>1 DEF StrandedOver
    <3>2. CASE Strand(m)
      BY <3>2 DEF Strand, Goto, TypeOK
    <3>3. CASE CountIn(m) \/ Acknowledge(m) \/ Incoming(m) \/ EndIncoming(m) \/ CountOut(m)
                \/ SendReply(m) \/ SendNothing(m)
      BY <3>1, <3>3 DEF CountIn, Acknowledge, Incoming, EndIncoming, CountOut, SendReply,
                SendNothing, LookUp, Insert, ReadPending, ClearPending, ReadHistory,
                WriteHistory, ReadContext, Ask, SetPending, thread, TypeOK
    <3> QED BY <1>3, <3>2, <3>3 DEF HandleAndReply
  <2> QED BY <2>1, <2>2 DEF StrandedOver
<1>4. ASSUME NEW m \in Messages, SendReminders(m)
      PROVE  StrandedOver'
  BY <1>4 DEF SendReminders, WaitRunsOut, Remind, StopReminding, thread, StrandedOver
<1> QED BY <1>1, <1>2, <1>3, <1>4 DEF Next

\* Only CountIn and CountOut move a message into the queue or out of it.
LEMMA QueueStep == TypeOK /\ StrandedOver /\ QueueCounted /\ [Next]_vars => QueueCounted'
<1> SUFFICES ASSUME TypeOK, StrandedOver, QueueCounted, [Next]_vars, NEW s \in Senders
             PROVE  pending'[s] = Cardinality(InQueue(s)')
  BY DEF QueueCounted
<1> DEFINE Counted(m) == /\ sender[m] = s
                         /\ \/ pc[m] \notin {"off", "queued", "send", "over"}
                            \/ outcome[m] = "stranded"
<1>0. pending[s] = Cardinality(InQueue(s)) /\ pending \in [Senders -> Nat]
  BY DEF QueueCounted, TypeOK
<1>1. ASSUME UNCHANGED pending, \A n \in Messages : Counted(n)' <=> Counted(n)
      PROVE  pending'[s] = Cardinality(InQueue(s)')
  <2>1. InQueue(s)' = InQueue(s)
    BY <1>1 DEF InQueue
  <2> QED BY <1>0, <1>1, <2>1
<1>2. CASE UNCHANGED vars
  BY <1>1, <1>2 DEF vars, thread
<1>3. ASSUME NEW m \in Messages, NEW t \in Senders, NEW what \in {"chat", "more"},
             Arrive(m, t, what)
      PROVE  pending'[s] = Cardinality(InQueue(s)')
  <2>1. \A n \in Messages : Counted(n)' <=> Counted(n)
    BY <1>3 DEF Arrive, Goto, thread, StrandedOver, TypeOK
  <2> QED BY <1>1, <1>3, <2>1 DEF Arrive
<1>4. ASSUME NEW m \in Messages, CountIn(m)
      PROVE  pending'[s] = Cardinality(InQueue(s)')
  <2>1. CASE sender[m] # s
    <3>1. \A n \in Messages : Counted(n)' <=> Counted(n)
      BY <1>4, <2>1 DEF CountIn, Goto, thread, TypeOK
    <3>2. pending'[s] = pending[s] /\ InQueue(s)' = InQueue(s)
      BY <1>4, <2>1, <3>1, <1>0 DEF CountIn, InQueue
    <3> QED BY <3>2, <1>0
  <2>2. CASE sender[m] = s
    <3>1. m \notin InQueue(s) /\ InQueue(s)' = InQueue(s) \cup {m}
      BY <1>4, <2>2 DEF CountIn, Goto, thread, StrandedOver, InQueue, TypeOK
    <3>2. Cardinality(InQueue(s)') = Cardinality(InQueue(s)) + 1
      BY <3>1, QueueFinite, FS_AddElement
    <3>3. pending'[s] = pending[s] + 1
      BY <1>4, <2>2, <1>0 DEF CountIn
    <3> QED BY <3>2, <3>3, <1>0
  <2> QED BY <2>1, <2>2
<1>5. ASSUME NEW m \in Messages, CountOut(m)
      PROVE  pending'[s] = Cardinality(InQueue(s)')
  <2>1. CASE sender[m] # s
    <3>1. \A n \in Messages : Counted(n)' <=> Counted(n)
      BY <1>5, <2>1 DEF CountOut, Goto, thread, TypeOK
    <3>2. pending'[s] = pending[s] /\ InQueue(s)' = InQueue(s)
      BY <1>5, <2>1, <3>1, <1>0 DEF CountOut, InQueue
    <3> QED BY <3>2, <1>0
  <2>2. CASE sender[m] = s
    <3>1. m \in InQueue(s) /\ InQueue(s)' = InQueue(s) \ {m}
      BY <1>5, <2>2 DEF CountOut, Goto, thread, StrandedOver, InQueue, TypeOK
    <3>2. /\ Cardinality(InQueue(s)') = Cardinality(InQueue(s)) - 1
          /\ Cardinality(InQueue(s)) > 0
      <4>1. IsFiniteSet(InQueue(s)) /\ Cardinality(InQueue(s)) \in Nat
        BY QueueFinite
      <4>2. Cardinality(InQueue(s)) # 0
        BY <3>1, <4>1, FS_EmptySet
      <4>3. Cardinality(InQueue(s) \ {m}) = Cardinality(InQueue(s)) - 1
        BY <3>1, <4>1, FS_RemoveElement
      <4>4. Cardinality(InQueue(s)) > 0
        BY <4>1, <4>2
      <4> QED BY <3>1, <4>3, <4>4
    <3>3. pending'[s] = pending[s] - 1
      BY <1>5, <2>2, <3>2, <1>0 DEF CountOut
    <3> QED BY <3>2, <3>3, <1>0
  <2> QED BY <2>1, <2>2
<1>6. ASSUME NEW m \in Messages,
             \/ Acknowledge(m) \/ Incoming(m) \/ EndIncoming(m)
             \/ SendReply(m) \/ SendNothing(m)
      PROVE  pending'[s] = Cardinality(InQueue(s)')
  <2>1. UNCHANGED <<pending, sender>>
    BY <1>6 DEF Acknowledge, Incoming, EndIncoming, SendReply, SendNothing, LookUp, Insert,
                ReadPending, ClearPending, ReadHistory, WriteHistory, ReadContext, Ask,
                SetPending
  <2>2. /\ pc[m] \notin {"off", "queued", "over"}
        /\ pc[m] = "send" <=> pc'[m] \in {"send", "over"}
        /\ pc'[m] \notin {"off", "queued"}
    BY <1>6 DEF Acknowledge, Incoming, EndIncoming, SendReply, SendNothing, LookUp, Insert,
                ReadPending, ClearPending, ReadHistory, WriteHistory, ReadContext, Ask,
                SetPending, Goto, Route, TypeOK
  <2>3. \A n \in Messages : n # m => pc'[n] = pc[n] /\ outcome'[n] = outcome[n]
    BY <1>6, ThreadAside DEF Aside, HandleAndReply
  <2>4. outcome[m] # "stranded" /\ outcome'[m] # "stranded"
    <3>1. outcome[m] # "stranded"
      BY <2>2 DEF StrandedOver
    <3> QED BY <1>6, <3>1 DEF Acknowledge, Incoming, EndIncoming, SendReply, SendNothing, LookUp,
                Insert, ReadPending, ClearPending, ReadHistory, WriteHistory, ReadContext,
                Ask, SetPending, thread, TypeOK
  <2>5. \A n \in Messages : Counted(n)' <=> Counted(n)
    BY <2>1, <2>2, <2>3, <2>4
  <2> QED BY <1>1, <2>1, <2>5
<1>7. ASSUME NEW m \in Messages, SendReminders(m)
      PROVE  pending'[s] = Cardinality(InQueue(s)')
  BY <1>1, <1>7 DEF SendReminders, WaitRunsOut, Remind, StopReminding, thread
<1>8. ASSUME NEW m \in Messages, Strand(m)
      PROVE  pending'[s] = Cardinality(InQueue(s)')
  <2>1. \A n \in Messages : Counted(n)' <=> Counted(n)
    BY <1>8 DEF Strand, Goto, TypeOK
  <2> QED BY <1>1, <1>8, <2>1 DEF Strand
<1> QED BY <1>2, <1>3, <1>4, <1>5, <1>6, <1>7, <1>8 DEF Next, HandleAndReply

\* For any number of senders, messages and workers, the number told to a sender is
\* that of its messages in work (webhook_routes.py:398-439).
THEOREM QueueIsCounted == Spec => []QueueCounted
<1>1. Init => QueueCounted
  <2> SUFFICES ASSUME Init, NEW s \in Senders
               PROVE  pending[s] = Cardinality(InQueue(s))
    BY DEF QueueCounted
  <2>1. InQueue(s) = {} /\ pending[s] = 0
    BY DEF Init, InQueue
  <2> QED BY <2>1, FS_EmptySet
<1>2. Init => StrandedOver
  BY DEF Init, StrandedOver
<1>3. TypeOK /\ StrandedOver /\ [Next]_vars => StrandedOver'
  BY StrandedStep
<1>4. TypeOK /\ StrandedOver /\ QueueCounted /\ [Next]_vars => QueueCounted'
  BY QueueStep
<1> QED BY <1>1, <1>2, <1>3, <1>4, TypeCorrect, PTL DEF Spec

-----------------------------------------------------------------------------
(* The reminders.                                                          *)

\* A reminder that is still to be sent is the first after the reply.
LateInv ==
    \A m \in Messages :
        /\ late[m] \in 0..1
        /\ pc[m] # "over" => late[m] = 0
        /\ reminder[m] = "awake" => late[m] = 0

LEMMA LateStep == TypeOK /\ LateInv /\ [Next]_vars => LateInv'
<1> SUFFICES ASSUME TypeOK, LateInv, [Next]_vars PROVE LateInv'
  OBVIOUS
<1>1. CASE UNCHANGED vars
  BY <1>1 DEF vars, seen, LateInv
<1>2. ASSUME NEW m \in Messages,
             \/ \E s \in Senders, what \in {"chat", "more"} : Arrive(m, s, what)
             \/ HandleAndReply(m)
      PROVE  LateInv'
  <2>1. late' = late
    BY <1>2 DEF Arrive, HandleAndReply, CountIn, Acknowledge, Strand, Incoming,
                EndIncoming, CountOut, SendReply, SendNothing, LookUp, Insert,
                ReadPending, ClearPending, ReadHistory,
                WriteHistory, ReadContext, Ask, SetPending, seen
  <2>2. pc[m] # "over" /\ \A n \in Messages : n # m => pc'[n] = pc[n]
    BY <1>2 DEF Arrive, HandleAndReply, CountIn, Acknowledge, Strand, Incoming,
                EndIncoming, CountOut, SendReply, SendNothing, LookUp, Insert,
                ReadPending, ClearPending, ReadHistory,
                WriteHistory, ReadContext, Ask, SetPending, Goto, TypeOK
  <2>3. \A n \in Messages : reminder'[n] = "awake" => reminder[n] = "awake"
    BY <1>2 DEF Arrive, HandleAndReply, CountIn, Acknowledge, Strand, Incoming,
                EndIncoming, CountOut, SendReply, SendNothing, LookUp, Insert,
                ReadPending, ClearPending, ReadHistory,
                WriteHistory, ReadContext, Ask, SetPending, TypeOK
  <2> QED BY <2>1, <2>2, <2>3 DEF LateInv
<1>3. ASSUME NEW m \in Messages, WaitRunsOut(m)
      PROVE  LateInv'
  BY <1>3 DEF WaitRunsOut, EventSet, LateInv, TypeOK, seen
<1>4. ASSUME NEW m \in Messages, Remind(m)
      PROVE  LateInv'
  BY <1>4 DEF Remind, LateInv, TypeOK
<1>5. ASSUME NEW m \in Messages, StopReminding(m)
      PROVE  LateInv'
  BY <1>5 DEF StopReminding, LateInv, TypeOK, seen
<1> QED BY <1>1, <1>2, <1>3, <1>4, <1>5 DEF Next, SendReminders

\* Whatever the threads interleave, a reply is followed by at most one reminder
\* (webhook_routes.py:419-437).
THEOREM AtMostOneLate == Spec => []OneLateReminder
<1>1. Init => LateInv
  BY DEF Init, LateInv
<1>2. TypeOK /\ LateInv /\ [Next]_vars => LateInv'
  BY LateStep
<1>3. LateInv => OneLateReminder
  BY DEF LateInv, OneLateReminder
<1> QED BY <1>1, <1>2, <1>3, TypeCorrect, PTL DEF Spec

-----------------------------------------------------------------------------
(* The conversation and the rest of an answer, of a sender who waits.       *)

Before == {"queued", "ack", "session", "insert"}
Ending == {"finish", "uncount", "send"}

\* Where the conversation of the sender of m stands in the row.
HistoryOf(m) ==
    LET s == sender[m]
    IN  \/ /\ asks[m] = "chat"
           /\ pc[m] \in {"queued", "ack"}
           /\ history[s] = Latest(said[s])
        \/ /\ asks[m] = "chat"
           /\ pc[m] \in {"session", "insert", "readq", "writeq"}
           /\ said[s] = Append(Earlier(said[s]), <<"user", m>>)
           /\ history[s] = Latest(Earlier(said[s]))
           /\ pc[m] = "writeq" => copy[m] = history[s]
        \/ /\ asks[m] = "chat"
           /\ pc[m] \in {"context", "ask", "stash", "reada", "writea"}
           /\ history[s] = Latest(said[s])
           /\ pc[m] = "ask" /\ bridge = "system" => copy[m] = Earlier(history[s])
           /\ pc[m] = "writea" => copy[m] = history[s]
        \/ /\ asks[m] = "chat"
           /\ pc[m] \in Ending
           /\ history[s] = Latest(Append(said[s], <<"assistant", m>>))
        \/ /\ asks[m] = "more"
           /\ pc[m] \in Before \cup Ending \cup {"more", "clear"}
           /\ history[s] = Latest(said[s])

\* What waits in the row for /more while m is in flight.
RestOf(m) ==
    LET s == sender[m]
    IN  /\ pc[m] = "insert" => s \notin exists
        /\ outcome[m] = IF pc[m] \in Ending \cup {"clear"} THEN "reply" ELSE "none"
        /\ asks[m] = "chat" =>
             /\ gave[m] = NoMessage
             /\ waiting[s] = IF answer[m] = "long" /\ pc[m] # "stash" THEN m ELSE owed[s]
             /\ pc[m] \in Before \cup {"readq", "writeq", "context", "ask"} => answer[m] = "none"
             /\ pc[m] = "stash" => answer[m] = "long"
        /\ asks[m] = "more" =>
             /\ answer[m] = "none"
             /\ pc[m] \in Before \cup {"more"} => gave[m] = NoMessage /\ waiting[s] = owed[s]
             /\ pc[m] = "clear" =>
                  gave[m] # NoMessage /\ gave[m] = owed[s] /\ waiting[s] = owed[s]
             /\ pc[m] \in Ending => gave[m] = owed[s] /\ waiting[s] = NoMessage

Fresh(m) == outcome[m] = "none" /\ answer[m] = "none" /\ gave[m] = NoMessage

Settled(s) == history[s] = Latest(said[s]) /\ waiting[s] = owed[s]

KeptInv ==
    /\ \A m \in Messages : pc[m] = "off" => Fresh(m)
    /\ \A s \in Patient : Quiet(s) => Settled(s)
    /\ \A m \in Messages : sender[m] \in Patient /\ InFlight(m) =>
         /\ HistoryOf(m)
         /\ RestOf(m)
         /\ \A n \in Messages : sender[n] = sender[m] /\ InFlight(n) => n = m

\* It is enough to look at the message whose thread takes the step.
LEMMA KeptFrame ==
    ASSUME TypeOK, KeptInv, NEW m \in Messages, Aside(m),
           sender[m] \in Patient =>
             \/ InFlight(m)' /\ HistoryOf(m)' /\ RestOf(m)'
             \/ ~InFlight(m)' /\ Settled(sender[m])'
    PROVE  KeptInv'
<1>1. ASSUME NEW n \in Messages, pc'[n] = "off"
      PROVE  Fresh(n)'
  BY <1>1 DEF Aside, KeptInv, Fresh
<1>2. ASSUME NEW s \in Patient, Quiet(s)'
      PROVE  Settled(s)'
  <2>0. s \in Senders
    BY ChatAssumption
  <2>1. CASE s = sender[m]
    BY <1>2, <2>1 DEF Quiet, Aside
  <2>2. CASE s # sender[m]
    <3>1. Quiet(s)
      BY <1>2, <2>2 DEF Quiet, Aside, InFlight
    <3> QED BY <2>0, <2>2, <3>1 DEF KeptInv, Aside, Settled
  <2> QED BY <2>1, <2>2
<1>3. ASSUME NEW n \in Messages, sender'[n] \in Patient, InFlight(n)'
      PROVE  /\ HistoryOf(n)' /\ RestOf(n)'
             /\ \A k \in Messages : sender'[k] = sender'[n] /\ InFlight(k)' => k = n
  <2>1. \A k \in Messages : InFlight(k)' => InFlight(k)
    BY DEF Aside, InFlight
  <2>2. \A k \in Messages : sender'[k] = sender'[n] /\ InFlight(k)' => k = n
    BY <1>3, <2>1 DEF Aside, KeptInv
  <2>3. HistoryOf(n)' /\ RestOf(n)'
    <3>1. CASE n = m
      BY <1>3, <3>1 DEF Aside
    <3>2. CASE n # m
      <4>1. sender[n] \in Patient /\ InFlight(n) /\ InFlight(m) /\ HistoryOf(n) /\ RestOf(n)
        BY <1>3, <2>1 DEF Aside, KeptInv
      <4>2. sender[n] # sender[m] /\ sender[n] \in Senders
        BY <3>2, <4>1, ChatAssumption DEF KeptInv
      <4>3. HistoryOf(n)'
        BY <3>2, <4>1, <4>2 DEF Aside, HistoryOf
      <4>4. RestOf(n)'
        BY <3>2, <4>1, <4>2 DEF Aside, RestOf
      <4> QED BY <4>3, <4>4
    <3> QED BY <3>1, <3>2
  <2> QED BY <2>2, <2>3
<1> QED BY <1>1, <1>2, <1>3 DEF KeptInv

\* A message arrives for a sender without others in flight.
LEMMA KeptArrive ==
    ASSUME TypeOK, KeptInv, NEW m \in Messages, NEW s \in Senders,
           NEW what \in {"chat", "more"}, Arrive(m, s, what)
    PROVE  KeptInv'
<1>1. /\ pc[m] = "off" /\ pc'[m] = "queued" /\ sender'[m] = s /\ asks'[m] = what
      /\ \A n \in Messages : n # m =>
           pc'[n] = pc[n] /\ sender'[n] = sender[n] /\ asks'[n] = asks[n]
      /\ UNCHANGED <<bridge, outcome, copy, answer, gave, exists, history, waiting, said, owed>>
  BY DEF Arrive, Goto, TypeOK, thread, row
<1>3. ASSUME NEW n \in Messages, pc'[n] = "off"
      PROVE  Fresh(n)'
  BY <1>1, <1>3 DEF KeptInv, Fresh
<1>4. ASSUME NEW t \in Patient, Quiet(t)'
      PROVE  Settled(t)'
  <2>1. t # s /\ t \in Senders
    BY <1>1, <1>4, ChatAssumption DEF Quiet, InFlight
  <2>2. Quiet(t)
    <3> SUFFICES ASSUME NEW n \in Messages, sender[n] = t PROVE ~InFlight(n)
      BY DEF Quiet
    <3> QED BY <1>1, <1>4 DEF Quiet, InFlight
  <2> QED BY <1>1, <2>1, <2>2 DEF KeptInv, Settled
<1>5. ASSUME NEW n \in Messages, sender'[n] \in Patient, InFlight(n)'
      PROVE  /\ HistoryOf(n)' /\ RestOf(n)'
             /\ \A k \in Messages : sender'[k] = sender'[n] /\ InFlight(k)' => k = n
  <2>1. CASE n = m
    <3>1. s \in Patient /\ Quiet(s)
      BY <1>1, <1>5, <2>1 DEF Arrive
    <3>2. Settled(s) /\ Fresh(m)
      BY <1>1, <3>1 DEF KeptInv
    <3>5. HistoryOf(m)'
      BY <1>1, <3>2 DEF HistoryOf, Settled, Before
    <3>6. RestOf(m)'
      BY <1>1, <3>2 DEF RestOf, Settled, Fresh, Before, Ending
    <3>7. \A k \in Messages : sender'[k] = s /\ InFlight(k)' => k = m
      BY <1>1, <3>1 DEF Quiet, InFlight
    <3> QED BY <1>1, <2>1, <3>5, <3>6, <3>7
  <2>2. CASE n # m
    <3>1. /\ sender[n] \in Patient /\ InFlight(n) /\ HistoryOf(n) /\ RestOf(n)
          /\ sender[n] \in Senders
      BY <1>1, <1>5, <2>2, ChatAssumption DEF KeptInv, InFlight
    <3>2. sender[n] # s
      BY <3>1 DEF Arrive, Quiet
    <3>3. HistoryOf(n)' /\ RestOf(n)'
      BY <1>1, <2>2, <3>1, <3>2 DEF HistoryOf, RestOf
    <3>4. \A k \in Messages : sender'[k] = sender'[n] /\ InFlight(k)' => k = n
      BY <1>1, <2>2, <3>1, <3>2 DEF KeptInv, InFlight
    <3> QED BY <3>3, <3>4
  <2> QED BY <2>1, <2>2
<1> QED BY <1>3, <1>4, <1>5 DEF KeptInv

\* What its thread leaves of a patient sender's conversation and of the rest of an answer.
Ahead(m) ==
    \/ InFlight(m)' /\ HistoryOf(m)' /\ RestOf(m)'
    \/ ~InFlight(m)' /\ Settled(sender[m])'

LEMMA KeptThread ==
    ASSUME TypeOK, NEW m \in Messages, sender[m] \in Patient, HistoryOf(m), RestOf(m),
           HandleAndReply(m)
    PROVE  Ahead(m)
<1> DEFINE s == sender[m]
<1>0. /\ s \in Senders /\ sender' = sender /\ asks' = asks /\ bridge' = bridge
      /\ history[s] \in Seq(Entries) /\ said[s] \in Seq(Entries)
      /\ asks[m] \in {"chat", "more"}
  BY ThreadAside, ChatAssumption DEF Aside, TypeOK
<1>1. CASE CountIn(m) \/ LookUp(m)
  <2>1. /\ pc[m] \in {"queued", "session"}
        /\ pc[m] = "queued" => pc'[m] = "ack"
        /\ pc[m] = "session" => pc'[m] \in {"insert", "readq", "more"}
        /\ pc'[m] = "insert" => s \notin exists
        /\ pc'[m] = "readq" => asks[m] = "chat"
        /\ pc'[m] = "more" => asks[m] = "more"
        /\ UNCHANGED <<thread, row, seen>>
    BY <1>1 DEF CountIn, LookUp, Goto, Route, TypeOK
  <2>2. HistoryOf(m)'
    BY <1>0, <2>1 DEF HistoryOf, Before, Ending, thread, row, seen
  <2>3. RestOf(m)'
    BY <1>0, <2>1 DEF RestOf, Before, Ending, thread, row, seen
  <2> QED BY <2>1, <2>2, <2>3 DEF Ahead, InFlight
<1>2. CASE Acknowledge(m)
  <2>1. /\ pc[m] = "ack" /\ pc'[m] = "session"
        /\ UNCHANGED <<thread, row, owed>>
        /\ said'[s] = IF asks[m] = "chat" THEN Append(said[s], <<"user", m>>) ELSE said[s]
    BY <1>0, <1>2 DEF Acknowledge, Said, Goto, TypeOK
  <2>2. history[s] = Latest(said[s])
    BY <2>1 DEF HistoryOf, Before, Ending
  <2>3. asks[m] = "chat" => Earlier(said'[s]) = said[s]
    BY <1>0, <2>1 DEF Earlier
  <2>4. HistoryOf(m)'
    BY <1>0, <2>1, <2>2, <2>3 DEF HistoryOf, Before, Ending, row
  <2>5. RestOf(m)'
    BY <1>0, <2>1 DEF RestOf, Before, Ending, thread, row
  <2> QED BY <2>1, <2>4, <2>5 DEF Ahead, InFlight
<1>3. CASE Strand(m)
  <2>1. /\ pc[m] = "ack" /\ pc'[m] = "over" /\ UNCHANGED <<row, seen>>
    BY <1>3 DEF Strand, Goto, TypeOK
  <2>2. history[s] = Latest(said[s]) /\ waiting[s] = owed[s]
    BY <1>0, <2>1 DEF HistoryOf, RestOf, Before, Ending
  <2> QED BY <1>0, <2>1, <2>2 DEF Ahead, InFlight, Settled, row, seen
<1>4. CASE Insert(m)
  <2>1. s \notin exists
    BY <1>4 DEF Insert, RestOf
  <2>2. /\ pc[m] = "insert" /\ pc'[m] = IF asks[m] = "chat" THEN "readq" ELSE "more"
        /\ UNCHANGED <<outcome, copy, answer, gave, history, waiting, seen>>
    BY <1>4, <2>1 DEF Insert, Goto, Route, TypeOK
  <2>3. HistoryOf(m)'
    BY <1>0, <2>2 DEF HistoryOf, Before, Ending, seen
  <2>4. RestOf(m)'
    BY <1>0, <2>2 DEF RestOf, Before, Ending, seen
  <2> QED BY <2>2, <2>3, <2>4 DEF Ahead, InFlight
<1>5. CASE ReadPending(m)
  <2>1. /\ pc[m] = "more" /\ pc'[m] = IF waiting[s] = NoMessage THEN "finish" ELSE "clear"
        /\ gave'[m] = waiting[s] /\ outcome'[m] = "reply"
        /\ UNCHANGED <<copy, answer, row, seen>>
    BY <1>5 DEF ReadPending, Goto, TypeOK
  <2>2. HistoryOf(m)'
    BY <1>0, <2>1 DEF HistoryOf, Before, Ending, row, seen
  <2>3. asks[m] = "more"
    BY <2>1 DEF HistoryOf, Before, Ending
  <2>4. RestOf(m)'
    BY <1>0, <2>1, <2>3 DEF RestOf, Before, Ending, row, seen
  <2> QED BY <2>1, <2>2, <2>4 DEF Ahead, InFlight
<1>6. CASE ClearPending(m)
  <2>1. /\ pc[m] = "clear" /\ pc'[m] = "finish" /\ waiting'[s] = NoMessage
        /\ UNCHANGED <<thread, history, exists, seen>>
    BY <1>0, <1>6 DEF ClearPending, Goto, TypeOK
  <2>2. HistoryOf(m)'
    BY <1>0, <2>1 DEF HistoryOf, Before, Ending, thread, seen
  <2>3. asks[m] = "more"
    BY <2>1 DEF HistoryOf, Before, Ending
  <2>4. RestOf(m)'
    BY <1>0, <2>1, <2>3 DEF RestOf, Before, Ending, thread, seen
  <2> QED BY <2>1, <2>2, <2>4 DEF Ahead, InFlight
<1>7. CASE ReadHistory(m)
  <2>1. /\ \/ pc[m] = "readq" /\ pc'[m] = "writeq"
           \/ pc[m] = "reada" /\ pc'[m] = "writea"
        /\ copy'[m] = history[s]
        /\ UNCHANGED <<outcome, answer, gave, row, seen>>
    BY <1>7 DEF ReadHistory, Goto, TypeOK
  <2>2. HistoryOf(m)'
    BY <1>0, <2>1 DEF HistoryOf, Before, Ending, row, seen
  <2>3. RestOf(m)'
    BY <1>0, <2>1 DEF RestOf, Before, Ending, row, seen
  <2> QED BY <2>1, <2>2, <2>3 DEF Ahead, InFlight
<1>8. CASE WriteHistory(m) /\ pc[m] = "writeq"
  <2>1. /\ pc'[m] = "context"
        /\ history'[s] = Latest(Append(copy[m], <<"user", m>>))
        /\ UNCHANGED <<outcome, answer, gave, exists, waiting, seen>>
    BY <1>0, <1>8 DEF WriteHistory, Goto, TypeOK
  <2>2. /\ asks[m] = "chat" /\ said[s] = Append(Earlier(said[s]), <<"user", m>>)
        /\ copy[m] = Latest(Earlier(said[s]))
    BY <1>8 DEF HistoryOf, Before, Ending
  <2>3. <<"user", m>> \in Entries /\ Earlier(said[s]) \in Seq(Entries)
    BY <1>0, EarlierType DEF Entries
  <2>4. history'[s] = Latest(said[s])
    BY <2>1, <2>2, <2>3, LatestAppend
  <2>5. HistoryOf(m)'
    BY <1>0, <2>1, <2>2, <2>4 DEF HistoryOf, seen
  <2>6. RestOf(m)'
    BY <1>0, <1>8, <2>1, <2>2 DEF RestOf, Before, Ending, seen
  <2> QED BY <2>1, <2>5, <2>6 DEF Ahead, InFlight
<1>9. CASE WriteHistory(m) /\ pc[m] = "writea"
  <2>1. /\ pc'[m] = "finish" /\ outcome'[m] = "reply"
        /\ history'[s] = Latest(Append(copy[m], <<"assistant", m>>))
        /\ UNCHANGED <<answer, gave, exists, waiting, seen>>
    BY <1>0, <1>9 DEF WriteHistory, Goto, TypeOK
  <2>2. asks[m] = "chat" /\ copy[m] = Latest(said[s])
    BY <1>9 DEF HistoryOf, Before, Ending
  <2>3. <<"assistant", m>> \in Entries
    BY DEF Entries
  <2>4. history'[s] = Latest(Append(said[s], <<"assistant", m>>))
    BY <1>0, <2>1, <2>2, <2>3, LatestAppend
  <2>5. HistoryOf(m)'
    BY <1>0, <2>1, <2>2, <2>4 DEF HistoryOf, Ending, seen
  <2>6. RestOf(m)'
    BY <1>0, <1>9, <2>1, <2>2 DEF RestOf, Before, Ending, seen
  <2> QED BY <2>1, <2>5, <2>6 DEF Ahead, InFlight
<1>10. CASE ReadContext(m)
  <2>1. /\ pc[m] = "context" /\ pc'[m] = "ask"
        /\ bridge = "system" => copy'[m] = Earlier(history[s])
        /\ UNCHANGED <<outcome, answer, gave, row, seen>>
    BY <1>10 DEF ReadContext, Goto, TypeOK
  <2>2. Earlier(history[s])' = Earlier(history[s])
    BY <1>0, <2>1 DEF row
  <2>3. HistoryOf(m)'
    BY <1>0, <2>1, <2>2 DEF HistoryOf, Before, Ending, row, seen
  <2>4. RestOf(m)'
    BY <1>0, <2>1 DEF RestOf, Before, Ending, row, seen
  <2> QED BY <2>1, <2>3, <2>4 DEF Ahead, InFlight
<1>11. CASE Ask(m)
  <2>1. /\ pc[m] = "ask" /\ pc'[m] = (IF answer'[m] = "long" THEN "stash" ELSE "reada")
        /\ UNCHANGED <<outcome, gave, row, seen>>
    BY <1>11 DEF Ask, Goto, TypeOK
  <2>2. asks[m] = "chat"
    BY <2>1 DEF HistoryOf, Before, Ending
  <2>3. HistoryOf(m)'
    BY <1>0, <2>1 DEF HistoryOf, Before, Ending, row, seen
  <2>4. RestOf(m)'
    BY <1>0, <2>1, <2>2 DEF RestOf, Before, Ending, row, seen
  <2> QED BY <2>1, <2>3, <2>4 DEF Ahead, InFlight
<1>12. CASE SetPending(m)
  <2>1. /\ pc[m] = "stash" /\ pc'[m] = "reada" /\ waiting'[s] = m
        /\ UNCHANGED <<thread, exists, history, seen>>
    BY <1>0, <1>12 DEF SetPending, Goto, TypeOK
  <2>2. asks[m] = "chat"
    BY <2>1 DEF HistoryOf, Before, Ending
  <2>3. HistoryOf(m)'
    BY <1>0, <2>1 DEF HistoryOf, Before, Ending, thread, seen
  <2>4. RestOf(m)'
    BY <1>0, <2>1, <2>2 DEF RestOf, Before, Ending, thread, seen
  <2> QED BY <2>1, <2>3, <2>4 DEF Ahead, InFlight
<1>13. CASE EndIncoming(m) \/ CountOut(m)
  <2>1. pc[m] \in {"finish", "uncount"} /\ UNCHANGED <<thread, row, seen>>
    BY <1>13 DEF EndIncoming, CountOut
  <2>2. outcome[m] = "reply"
    BY <2>1 DEF RestOf, Ending
  <2>3. pc'[m] \in {"uncount", "send"}
    BY <1>13, <2>2 DEF EndIncoming, CountOut, Goto, TypeOK
  <2>4. HistoryOf(m)'
    BY <1>0, <2>1, <2>3 DEF HistoryOf, Before, Ending, thread, row, seen
  <2>5. RestOf(m)'
    BY <1>0, <2>1, <2>3 DEF RestOf, Before, Ending, thread, row, seen
  <2> QED BY <2>3, <2>4, <2>5 DEF Ahead, InFlight
<1>14. CASE SendReply(m) \/ SendNothing(m)
  <2>1. pc[m] = "send" /\ pc'[m] = "over" /\ UNCHANGED row
    BY <1>14 DEF SendReply, SendNothing, Goto, TypeOK
  <2>2. CASE asks[m] = "chat"
    <3>1. /\ said'[s] = Append(said[s], <<"assistant", m>>)
          /\ owed'[s] = IF answer[m] = "long" THEN m ELSE owed[s]
      <4>1. gave[m] = NoMessage
        BY <2>2 DEF RestOf
      <4> QED BY <1>0, <1>14, <2>2, <4>1 DEF SendReply, SendNothing, Said, Owe, TypeOK
    <3>2. history[s] = Latest(Append(said[s], <<"assistant", m>>))
      BY <2>1, <2>2 DEF HistoryOf, Before, Ending
    <3>3. waiting[s] = IF answer[m] = "long" THEN m ELSE owed[s]
      BY <2>1, <2>2 DEF RestOf
    <3> QED BY <1>0, <2>1, <3>1, <3>2, <3>3 DEF Ahead, InFlight, Settled, row
  <2>3. CASE asks[m] = "more"
    <3>1. /\ said' = said
          /\ owed'[s] = IF gave[m] # NoMessage THEN NoMessage ELSE owed[s]
      <4>1. answer[m] = "none"
        BY <2>3 DEF RestOf
      <4> QED BY <1>0, <1>14, <2>3, <4>1 DEF SendReply, SendNothing, Said, Owe, TypeOK
    <3>2. history[s] = Latest(said[s]) /\ gave[m] = owed[s] /\ waiting[s] = NoMessage
      BY <2>1, <2>3 DEF HistoryOf, RestOf, Before, Ending
    <3> QED BY <1>0, <2>1, <3>1, <3>2 DEF Ahead, InFlight, Settled, row
  <2> QED BY <1>0, <2>2, <2>3
<1>15. pc[m] \in {"writeq", "writea"} \/ ~WriteHistory(m)
  BY DEF WriteHistory
<1> QED BY <1>1, <1>2, <1>3, <1>4, <1>5, <1>6, <1>7, <1>8, <1>9, <1>10, <1>11, <1>12, <1>13,
           <1>14, <1>15 DEF HandleAndReply, Incoming

LEMMA KeptStep == TypeOK /\ KeptInv /\ [Next]_vars => KeptInv'
<1> SUFFICES ASSUME TypeOK, KeptInv, [Next]_vars PROVE KeptInv'
  OBVIOUS
<1>1. ASSUME UNCHANGED <<bridge, sender, asks, pc, thread, row, said, owed>>
      PROVE  KeptInv'
  BY <1>1 DEF KeptInv, Fresh, Quiet, Settled, InFlight, HistoryOf, RestOf, thread, row
<1>2. CASE UNCHANGED vars
  BY <1>1, <1>2 DEF vars, seen
<1>3. ASSUME NEW m \in Messages, NEW s \in Senders, NEW what \in {"chat", "more"},
             Arrive(m, s, what)
      PROVE  KeptInv'
  BY <1>3, KeptArrive
<1>4. ASSUME NEW m \in Messages, HandleAndReply(m)
      PROVE  KeptInv'
  <2>1. Aside(m)
    BY <1>4, ThreadAside
  <2>2. sender[m] \in Patient => HistoryOf(m) /\ RestOf(m)
    BY <2>1 DEF Aside, KeptInv
  <2>3. sender[m] \in Patient => Ahead(m)
    BY <1>4, <2>2, KeptThread
  <2> QED BY <2>1, <2>3, KeptFrame DEF Ahead
<1>5. ASSUME NEW m \in Messages, SendReminders(m)
      PROVE  KeptInv'
  BY <1>1, <1>5 DEF SendReminders, WaitRunsOut, Remind, StopReminding, seen
<1> QED BY <1>2, <1>3, <1>4, <1>5 DEF Next

LEMMA KeptAlways == Spec => []KeptInv
<1>1. Init => KeptInv
  <2> SUFFICES ASSUME Init PROVE KeptInv
    OBVIOUS
  <2>1. Latest(<<>>) = <<>>
    BY ChatAssumption DEF Latest
  <2> QED BY <2>1, ChatAssumption DEF Init, KeptInv, Fresh, Settled, InFlight
<1>2. TypeOK /\ KeptInv /\ [Next]_vars => KeptInv'
  BY KeptStep
<1> QED BY <1>1, <1>2, TypeCorrect, PTL DEF Spec

-----------------------------------------------------------------------------
(* What overlapping messages leave of an older conversation.               *)

\* A conversation of s that grows out of the one its last messages found: all are of
\* messages that have arrived.
Grown(h, s, whose, at, found) ==
    /\ Len(h) <= MaxHistory
    /\ \A i \in DOMAIN h :
         h[i][2] \in Messages /\ whose[h[i][2]] = s /\ at[h[i][2]] # "off"
    /\ Extends(h, found[s])

BaseInv ==
    /\ \A s \in Senders : Grown(history[s], s, sender, pc, base)
    /\ \A m \in Messages :
         pc[m] \in {"writeq", "writea"} => Grown(copy[m], sender[m], sender, pc, base)
    /\ \A s \in Senders : \A i \in DOMAIN base[s] :
         base[s][i][2] \in Messages /\ pc[base[s][i][2]] = "over"

\* An entry more, and the window, leave what grows out of b.
LEMMA ExtendsAppend ==
    ASSUME NEW h \in Seq(Entries), NEW b \in Seq(Entries), NEW e \in Entries,
           Len(h) <= MaxHistory, Extends(h, b), \A j \in DOMAIN b : b[j] # e,
           NEW w, w = Latest(Append(h, e))
    PROVE  /\ Len(w) <= MaxHistory
           /\ \A i \in DOMAIN w : w[i] = e \/ \E j \in DOMAIN h : w[i] = h[j]
           /\ Extends(w, b)
<1> USE ChatAssumption
<1> DEFINE N == MaxHistory
           L == Len(h)
           B == Len(b)
           a == Append(h, e)
<1>0. N \in Nat \ {0} /\ Len(h) \in Nat /\ Len(b) \in Nat
      /\ DOMAIN h = 1..Len(h) /\ DOMAIN b = 1..Len(b)
  OBVIOUS
<1>1. PICK k \in 0..Len(b) :
        /\ k > 0 => Len(h) = N
        /\ Len(b) - k <= Len(h)
        /\ \A i \in DOMAIN h :
             IF i <= Len(b) - k THEN h[i] = b[k + i] ELSE \A j \in DOMAIN b : h[i] # b[j]
  BY DEF Extends
<1>2. a \in Seq(Entries) /\ Len(a) = Len(h) + 1 /\ a[Len(h) + 1] = e
      /\ \A i \in 1..Len(h) : a[i] = h[i]
  BY <1>0
<1>3. L < N <=> L # N
  <2>1. L \in Nat /\ N \in Nat /\ L <= N
    BY <1>0
  <2> HIDE DEF L, N
  <2> QED BY <2>1
<1>4. CASE L < N
  <2>1. w = a /\ k = 0
    <3>1. ~(Len(a) > MaxHistory)
      <4> HIDE DEF a
      <4> QED BY <1>4, <1>2, <1>0
    <3>2. k = 0
      <4>1. Len(h) # N
        BY <1>4, <1>3
      <4>2. ~(k > 0)
        BY <4>1, <1>1
      <4>3. k \in Nat
        BY <1>0
      <4> QED BY <4>2, <4>3
    <3> QED BY <3>1, <3>2 DEF Latest
  <2>2. Len(w) = Len(h) + 1 /\ DOMAIN w = 1..(Len(h) + 1)
    BY <2>1, <1>2, <1>0
  <2>3. \A i \in DOMAIN w :
          IF i <= Len(b) - k THEN w[i] = b[k + i] ELSE \A j \in DOMAIN b : w[i] # b[j]
    <3> SUFFICES ASSUME NEW i \in DOMAIN w
                 PROVE  IF i <= Len(b) - k THEN w[i] = b[k + i]
                                           ELSE \A j \in DOMAIN b : w[i] # b[j]
      OBVIOUS
    <3>1. CASE i = Len(h) + 1
      <4>1. w[i] = e /\ ~(i <= Len(b) - k)
        BY <3>1, <2>1, <1>2, <1>1, <1>0
      <4> QED BY <4>1
    <3>2. CASE i # Len(h) + 1
      <4>1. i \in DOMAIN h /\ w[i] = h[i]
        BY <3>2, <2>1, <2>2, <1>2, <1>0
      <4> QED BY <4>1, <1>1
    <3> QED BY <3>1, <3>2
  <2>4. Extends(w, b)
    <3> HIDE DEF a
    <3>1. Len(b) - k <= Len(w) /\ (k > 0 => Len(w) = N)
      BY <2>1, <2>2, <1>1, <1>0
    <3> QED BY <3>1, <2>3 DEF Extends
  <2>5. \A i \in DOMAIN w : w[i] = e \/ \E j \in DOMAIN h : w[i] = h[j]
    BY <2>1, <2>2, <1>2, <1>0
  <2> QED BY <2>2, <2>4, <2>5, <1>4, <1>0
<1>5. CASE L = N
  <2>1. w = SubSeq(a, 2, N + 1)
    BY <1>5, <1>2, <1>0 DEF Latest
  <2>2. w \in Seq(Entries) /\ Len(w) = N /\ DOMAIN w = 1..N /\ \A i \in 1..N : w[i] = a[i + 1]
    <3>1. \A i \in 2..(N + 1) : a[i] \in Entries
      BY <1>2, <1>5, <1>0
    <3> HIDE DEF a
    <3> QED BY <3>1, <2>1, <1>0, SubSeqProperties
  <2>3. w[N] = e /\ \A i \in 1..N : i < N => w[i] = h[i + 1] /\ i + 1 \in DOMAIN h
    BY <2>2, <1>2, <1>5, <1>0
  <2> DEFINE l == IF k < B THEN k + 1 ELSE k
  <2>4. /\ B \in Nat /\ k \in Nat /\ k <= B /\ N \in Nat /\ N > 0 /\ B - k <= N
    BY <1>1, <1>5, <1>0
  <2>5. /\ l \in 0..B /\ B - l <= N
        /\ B - l = IF k < B THEN B - k - 1 ELSE 0
    <3> HIDE DEF B, N
    <3> QED BY <2>4
  <2>6. \A i \in DOMAIN w :
          IF i <= Len(b) - l THEN w[i] = b[l + i] ELSE \A j \in DOMAIN b : w[i] # b[j]
    <3> SUFFICES ASSUME NEW i \in 1..N
                 PROVE  IF i <= Len(b) - l THEN w[i] = b[l + i]
                                           ELSE \A j \in DOMAIN b : w[i] # b[j]
      BY <2>2
    <3>0. i \in Nat /\ i >= 1
      BY <1>0
    <3>1. CASE i = N
      <4>1. ~(i <= B - l)
        <5> HIDE DEF B, N
        <5> QED BY <3>1, <2>4
      <4> HIDE DEF l
      <4> QED BY <3>1, <4>1, <2>3
    <3>2. CASE i < N
      <4>1. w[i] = h[i + 1] /\ i + 1 \in DOMAIN h
        BY <3>2, <2>3
      <4>2. IF i + 1 <= Len(b) - k THEN h[i + 1] = b[k + (i + 1)]
                                   ELSE \A j \in DOMAIN b : h[i + 1] # b[j]
        BY <4>1, <1>1
      <4>3. /\ i <= B - l <=> i + 1 <= B - k
            /\ i <= B - l => l + i = k + (i + 1)
        <5> HIDE DEF B, N
        <5> QED BY <2>4, <3>0
      <4> HIDE DEF l
      <4> QED BY <4>1, <4>2, <4>3
    <3> QED BY <3>1, <3>2, <1>0
  <2>7. Extends(w, b)
    <3> HIDE DEF l
    <3> QED BY <2>2, <2>5, <2>6 DEF Extends
  <2>8. \A i \in DOMAIN w : w[i] = e \/ \E j \in DOMAIN h : w[i] = h[j]
    <3> HIDE DEF l
    <3>1. \A i \in 1..N : i = N \/ i < N
      BY <1>0
    <3> QED BY <2>2, <2>3, <3>1
  <2>9. Len(w) <= MaxHistory
    BY <2>2, <1>0
  <2> HIDE DEF l, a, B, N
  <2> QED BY <2>7, <2>8, <2>9
<1> QED BY <1>3, <1>4, <1>5

\* A step of a thread appends to the row what it has read, or leaves the row alone.
LEMMA RowStep ==
    ASSUME TypeOK, NEW m \in Messages, HandleAndReply(m)
    PROVE  /\ \/ history'[sender[m]] = history[sender[m]]
              \/ /\ pc[m] \in {"writeq", "writea"}
                 /\ \E role \in {"user", "assistant"} :
                      history'[sender[m]] = Latest(Append(copy[m], <<role, m>>))
           /\ pc'[m] \in {"writeq", "writea"} => copy'[m] = history[sender[m]]
<1>0. sender[m] \in Senders
  BY ThreadAside DEF Aside, InFlight, TypeOK
<1>1. CASE CountIn(m) \/ Strand(m) \/ EndIncoming(m) \/ CountOut(m) \/ LookUp(m)
  BY <1>1 DEF CountIn, Strand, EndIncoming, CountOut, LookUp, Goto, Route, row, TypeOK
<1>2. CASE Insert(m) \/ ReadPending(m) \/ ClearPending(m) \/ SetPending(m)
  BY <1>2 DEF Insert, ReadPending, ClearPending, SetPending, Goto, Route, row, TypeOK
<1>3. CASE ReadHistory(m) \/ ReadContext(m) \/ Ask(m)
  BY <1>3 DEF ReadHistory, ReadContext, Ask, Goto, row, TypeOK
<1>4. CASE WriteHistory(m)
  BY <1>0, <1>4 DEF WriteHistory, Goto, TypeOK
<1>5. CASE Acknowledge(m) \/ SendReply(m) \/ SendNothing(m)
  BY <1>5 DEF Acknowledge, SendReply, SendNothing, Goto, row, TypeOK
<1> QED BY <1>1, <1>2, <1>3, <1>4, <1>5 DEF HandleAndReply, Incoming

LEMMA BaseStep == TypeOK /\ BaseInv /\ [Next]_vars => BaseInv'
<1> SUFFICES ASSUME TypeOK, BaseInv, [Next]_vars PROVE BaseInv'
  OBVIOUS
<1>0. /\ history \in [Senders -> Seq(Entries)] /\ base \in [Senders -> Seq(Entries)]
      /\ copy \in [Messages -> Seq(Entries)]
      /\ \A m \in Messages : pc[m] # "off" => sender[m] \in Senders
  BY DEF TypeOK
<1>1. ASSUME UNCHANGED <<sender, pc, copy, history, base>>
      PROVE  BaseInv'
  BY <1>1 DEF BaseInv
<1>2. CASE UNCHANGED vars
  BY <1>1, <1>2 DEF vars, thread, row, seen
<1>3. ASSUME NEW m \in Messages, SendReminders(m)
      PROVE  BaseInv'
  BY <1>1, <1>3 DEF SendReminders, WaitRunsOut, Remind, StopReminding, thread, row, seen
\* What has arrived stays so, and what grows out of a conversation still does.
<1>4. ASSUME NEW h, NEW s, Grown(h, s, sender, pc, base), base'[s] = base[s],
             \A n \in Messages : pc[n] # "off" => pc'[n] # "off" /\ sender'[n] = sender[n]
      PROVE  Grown(h, s, sender', pc', base')
  BY <1>4 DEF Grown
<1>5. ASSUME NEW m \in Messages, NEW t \in Senders, NEW what \in {"chat", "more"},
             Arrive(m, t, what)
      PROVE  BaseInv'
  <2>1. /\ pc[m] = "off" /\ pc'[m] = "queued" /\ UNCHANGED <<history, copy>>
        /\ \A n \in Messages : n # m => pc'[n] = pc[n] /\ sender'[n] = sender[n]
        /\ \A s \in Senders : base'[s] = IF Quiet(t) /\ s = t THEN history[t] ELSE base[s]
    BY <1>5 DEF Arrive, Goto, thread, row, TypeOK
  <2>2. \A n \in Messages : pc[n] # "off" => pc'[n] # "off" /\ sender'[n] = sender[n]
    BY <2>1
  <2>3. ASSUME NEW s \in Senders
        PROVE  Grown(history[s], s, sender', pc', base')
    <3>1. Grown(history[s], s, sender, pc, base)
      BY DEF BaseInv
    <3>2. CASE base'[s] = base[s]
      BY <1>4, <2>2, <3>1, <3>2
    <3>3. CASE base'[s] = history[s]
      <4>1. Extends(history[s], history[s])
        <5>1. Len(history[s]) \in Nat /\ DOMAIN history[s] = 1..Len(history[s])
          BY <1>0
        <5>2. 0 \in 0..Len(history[s])
          BY <5>1
        <5> HIDE DEF Extends
        <5>3. \A i \in DOMAIN history[s] :
                i <= Len(history[s]) - 0 /\ history[s][i] = history[s][0 + i]
          BY <5>1
        <5> QED BY <5>1, <5>2, <5>3 DEF Extends
      <4> QED BY <2>2, <3>1, <3>3, <4>1 DEF Grown
    <3> QED BY <2>1, <3>2, <3>3
  <2>4. ASSUME NEW n \in Messages, pc'[n] \in {"writeq", "writea"}
        PROVE  Grown(copy[n], sender[n], sender', pc', base') /\ sender'[n] = sender[n]
    <3>1. /\ n # m /\ pc[n] \in {"writeq", "writea"} /\ sender'[n] = sender[n]
          /\ sender[n] \in Senders
      BY <1>0, <2>1, <2>4
    <3>2. ~(Quiet(t) /\ sender[n] = t)
      BY <3>1 DEF Quiet, InFlight
    <3>3. base'[sender[n]] = base[sender[n]]
      BY <2>1, <3>1, <3>2
    <3>4. Grown(copy[n], sender[n], sender, pc, base)
      BY <3>1 DEF BaseInv
    <3> QED BY <1>4, <2>2, <3>1, <3>3, <3>4
  <2>5. ASSUME NEW s \in Senders, NEW i \in DOMAIN base'[s]
        PROVE  base'[s][i][2] \in Messages /\ pc'[base'[s][i][2]] = "over"
    <3>1. CASE base'[s] = base[s]
      <4>1. base[s][i][2] \in Messages /\ pc[base[s][i][2]] = "over"
        BY <2>5, <3>1 DEF BaseInv
      <4> QED BY <2>1, <3>1, <4>1
    <3>2. CASE s = t /\ Quiet(t) /\ base'[s] = history[t]
      <4> DEFINE n == history[t][i][2]
      <4>1. n \in Messages /\ sender[n] = t /\ pc[n] # "off"
        BY <2>5, <3>2 DEF BaseInv, Grown
      <4>2. pc[n] = "over"
        BY <3>2, <4>1 DEF Quiet, InFlight
      <4> QED BY <2>1, <3>2, <4>1, <4>2
    <3> QED BY <2>1, <3>1, <3>2
  <2> QED BY <2>1, <2>3, <2>4, <2>5 DEF BaseInv
<1>6. ASSUME NEW m \in Messages, HandleAndReply(m)
      PROVE  BaseInv'
  <2> DEFINE s == sender[m]
  <2>1. /\ sender' = sender /\ base' = base /\ pc[m] \notin {"off", "over"} /\ pc'[m] # "off"
        /\ \A n \in Messages : n # m => pc'[n] = pc[n] /\ copy'[n] = copy[n]
        /\ \A t \in Senders : t # s => history'[t] = history[t]
        /\ s \in Senders
    BY <1>0, <1>6, ThreadAside DEF Aside, InFlight
  <2>2. \A n \in Messages : pc[n] # "off" => pc'[n] # "off" /\ sender'[n] = sender[n]
    BY <2>1
  <2>3. ASSUME NEW t \in Senders
        PROVE  Grown(history[t], t, sender', pc', base')
    BY <1>4, <2>1, <2>2 DEF BaseInv
  <2>4. ASSUME pc[m] \in {"writeq", "writea"}, NEW role \in {"user", "assistant"},
               NEW w, w = Latest(Append(copy[m], <<role, m>>))
        PROVE  Grown(w, s, sender', pc', base')
    <3>1. Grown(copy[m], s, sender, pc, base)
      BY <2>4 DEF BaseInv
    <3>2. PICK e : e = <<role, m>>
      OBVIOUS
    <3>3. e \in Entries /\ e[2] = m
      BY <3>2 DEF Entries
    <3>4. \A j \in DOMAIN base[s] : base[s][j] # e
      BY <2>1, <3>3 DEF BaseInv
    <3>5. copy[m] \in Seq(Entries) /\ base[s] \in Seq(Entries)
      BY <1>0, <2>1
    <3>6. Len(copy[m]) <= MaxHistory /\ Extends(copy[m], base[s])
      BY <3>1 DEF Grown
    <3>7. w = Latest(Append(copy[m], e))
      BY <2>4, <3>2
    <3>8. /\ Len(w) <= MaxHistory
          /\ \A i \in DOMAIN w : w[i] = e \/ \E j \in DOMAIN copy[m] : w[i] = copy[m][j]
          /\ Extends(w, base[s])
      <4> HIDE DEF s
      <4> QED BY <3>3, <3>4, <3>5, <3>6, <3>7, ExtendsAppend
    <3>9. Grown(w, s, sender, pc, base)
      BY <2>1, <3>1, <3>3, <3>8 DEF Grown
    <3> QED BY <1>4, <2>1, <2>2, <3>9
  <2>5. ASSUME NEW t \in Senders
        PROVE  Grown(history'[t], t, sender', pc', base')
    <3>1. CASE history'[t] = history[t]
      BY <2>3, <3>1
    <3>2. CASE t = s /\ history'[s] # history[s]
      BY <1>6, <2>4, <3>2, RowStep
    <3> QED BY <2>1, <3>1, <3>2
  <2>6. ASSUME NEW n \in Messages, pc'[n] \in {"writeq", "writea"}
        PROVE  Grown(copy'[n], sender[n], sender', pc', base')
    <3>1. CASE n = m
      BY <1>6, <2>1, <2>3, <2>6, <3>1, RowStep
    <3>2. CASE n # m
      <4>1. pc[n] \in {"writeq", "writea"} /\ copy'[n] = copy[n]
        BY <2>1, <2>6, <3>2
      <4>2. Grown(copy[n], sender[n], sender, pc, base)
        BY <4>1 DEF BaseInv
      <4> QED BY <1>4, <2>1, <2>2, <4>1, <4>2
    <3> QED BY <3>1, <3>2
  <2>7. \A t \in Senders : \A i \in DOMAIN base'[t] :
          base'[t][i][2] \in Messages /\ pc'[base'[t][i][2]] = "over"
    BY <2>1 DEF BaseInv
  <2> QED BY <2>1, <2>5, <2>6, <2>7 DEF BaseInv
<1> QED BY <1>2, <1>3, <1>5, <1>6 DEF Next

\* For any number of messages, senders and workers and any length of the history,
\* overlapping messages lose entries of each other only; a patient sender's row holds
\* the end of the conversation, and JarvisSystem is asked with what came before the
\* question (channel_bridge.py:235-295).
THEOREM ConversationIsKept == Spec => []ConversationKept
<1>1. Init => BaseInv
  <2> SUFFICES ASSUME Init PROVE BaseInv
    OBVIOUS
  <2>1. Len(<<>>) = 0 /\ DOMAIN <<>> = {} /\ 0 <= MaxHistory
    BY ChatAssumption
  <2>2. Extends(<<>>, <<>>)
    BY <2>1 DEF Extends
  <2>3. \A s \in Senders : Grown(history[s], s, sender, pc, base) /\ DOMAIN base[s] = {}
    BY <2>1, <2>2 DEF Init, Grown
  <2>4. \A m \in Messages : pc[m] \notin {"writeq", "writea"}
    BY DEF Init
  <2> QED BY <2>3, <2>4 DEF BaseInv
<1>2. TypeOK /\ BaseInv /\ [Next]_vars => BaseInv'
  BY BaseStep
<1>3. BaseInv /\ KeptInv => ConversationKept
  <2> SUFFICES ASSUME BaseInv, KeptInv PROVE ConversationKept
    OBVIOUS
  <2>1. \A s \in Senders : Extends(history[s], base[s])
    BY DEF BaseInv, Grown
  <2>2. \A s \in Patient : Quiet(s) => history[s] = Latest(said[s])
    BY DEF KeptInv, Settled
  <2>3. ASSUME NEW s \in Patient, bridge = "system", NEW m \in Messages, sender[m] = s,
               pc[m] = "ask"
        PROVE  copy[m] = Earlier(Latest(said[s]))
    <3>1. HistoryOf(m)
      BY <2>3 DEF KeptInv, InFlight
    <3>2. history[s] = Latest(said[s]) /\ copy[m] = Earlier(history[s])
      BY <2>3, <3>1 DEF HistoryOf, Before, Ending
    <3> QED BY <3>2
  <2> QED BY <2>1, <2>2, <2>3 DEF ConversationKept
<1> QED BY <1>1, <1>2, <1>3, TypeCorrect, KeptAlways, PTL DEF Spec

\* And /more hands out to it the answer that was cut off last (channel_bridge.py:176-182).
THEOREM RestIsKept == Spec => []RestKept
<1>1. KeptInv => RestKept
  BY DEF KeptInv, RestKept, Settled, InFlight, RestOf, Ending
<1> QED BY <1>1, KeptAlways, PTL
=============================================================================
