------------------------ MODULE ConnectorSync_proofs ------------------------
(***************************************************************************)
(* Theorems about ConnectorSync, for every set of documents and of syncs,   *)
(* every batch size and number of chunks, and both kinds of connector.      *)
(***************************************************************************)
EXTENDS ConnectorSync, FiniteSetTheorems, TLAPS

-----------------------------------------------------------------------------
(* Types.                                                                  *)

Phases ==
    {"idle", "cleared", "noted", "load", "begin", "fetch", "ingest", "rest", "over"}

\* The locals of sync(), all at once.
LocalsOK ==
    /\ pc \in [Workers -> Phases]
    /\ seen \in [Workers -> SUBSET Docs]
    /\ prior \in [Workers -> Nat]
    /\ got \in [Workers -> Nat]
    /\ part \in [Workers -> Nat]
    /\ todo \in [Workers -> SUBSET Docs]
    /\ batch \in [Workers -> SUBSET Docs]
    /\ cur \in [Workers -> Docs \cup {None}]
    /\ at \in [Workers -> 0..(Chunks - 1)]

StoreOK ==
    /\ arrived \subseteq Docs
    /\ copies \in [Slots -> Nat]
    /\ items \in Nat
    /\ passed \subseteq Docs

RestOK ==
    /\ thread \in Handlers \cup {None}
    /\ baseline \in Notes \cup {None}
    /\ noted \in [Handlers -> Notes \cup {None}]
    /\ lost \subseteq Docs
    /\ dirty \in BOOLEAN

LEMMA TypeSplit == TypeOK <=> (LocalsOK /\ StoreOK /\ RestOK)
BY DEF TypeOK, LocalsOK, StoreOK, RestOK, Phases

LEMMA TypeSplitNext == TypeOK' <=> (LocalsOK' /\ StoreOK' /\ RestOK')
BY DEF TypeOK, LocalsOK, StoreOK, RestOK, Phases

LEMMA InitTypes == Init => TypeOK
<1> SUFFICES ASSUME Init PROVE TypeOK
  OBVIOUS
<1> USE SyncAssumption
<1>1. StoreOK /\ RestOK
  BY DEF Init, StoreOK, RestOK
<1>2. LocalsOK
  BY DEF Init, LocalsOK, Phases
<1> QED
  BY <1>1, <1>2, TypeSplit

\* Whatever the syncs W leave behind has its type.
LEMMA EndTypes ==
    ASSUME LocalsOK, RestOK, NEW W, NEW next \in {"idle", "over"}, End(W, next)
    PROVE  LocalsOK' /\ lost' \subseteq Docs
<1> USE SyncAssumption
<1>1. /\ pc' \in [Workers -> Phases]
      /\ seen' \in [Workers -> SUBSET Docs]
      /\ todo' \in [Workers -> SUBSET Docs]
      /\ batch' \in [Workers -> SUBSET Docs]
  BY DEF End, LocalsOK, Phases
<1>2. /\ prior' \in [Workers -> Nat]
      /\ got' \in [Workers -> Nat]
      /\ part' \in [Workers -> Nat]
      /\ cur' \in [Workers -> Docs \cup {None}]
      /\ at' \in [Workers -> 0..(Chunks - 1)]
  BY DEF End, LocalsOK
<1>3. lost' \subseteq Docs
  BY DEF End, RestOK
<1> QED
  BY <1>1, <1>2, <1>3 DEF LocalsOK

LEMMA StoreChunkTypes ==
    ASSUME TypeOK, NEW w \in Workers, NEW d \in Docs, StoreChunk(w, d)
    PROVE  TypeOK' /\ <<d, at[w] + 1>> \in Slots
<1> USE SyncAssumption, TypeSplit, TypeSplitNext
<1>1. at[w] \in 0..(Chunks - 1) /\ at[w] + 1 \in 1..Chunks
  BY DEF LocalsOK
<1>2. <<d, at[w] + 1>> \in Slots
  BY <1>1 DEF Slots
<1>3. copies' \in [Slots -> Nat]
  BY <1>2 DEF StoreChunk, Insert, StoreOK
<1>4. /\ cur' \in [Workers -> Docs \cup {None}]
      /\ at' \in [Workers -> 0..(Chunks - 1)]
      /\ seen' \in [Workers -> SUBSET Docs]
      /\ part' \in [Workers -> Nat]
  BY <1>1 DEF StoreChunk, LocalsOK
<1>5. LocalsOK'
  BY <1>4 DEF StoreChunk, LocalsOK
<1>6. StoreOK' /\ RestOK'
  BY <1>3 DEF StoreChunk, StoreOK, RestOK, server, history
<1> QED
  BY <1>2, <1>5, <1>6

\* Only finitely many chunks are ever stored: each step stores one at most.
LEMMA InitFinite == Init => Stored = {} /\ IsFiniteSet(Stored) /\ Cardinality(Stored) = 0
<1> SUFFICES ASSUME Init PROVE Stored = {}
  BY FS_EmptySet
<1> QED
  BY DEF Init, Stored

LEMMA StoredFinite ==
    TypeOK /\ IsFiniteSet(Stored) /\ [Next]_vars => IsFiniteSet(Stored')
<1> SUFFICES ASSUME TypeOK, IsFiniteSet(Stored), [Next]_vars PROVE IsFiniteSet(Stored')
  OBVIOUS
<1>1. ASSUME NEW w \in Workers, NEW d \in Docs, StoreChunk(w, d)
      PROVE  IsFiniteSet(Stored')
  <2>1. Stored' \subseteq Stored \cup {<<d, at[w] + 1>>}
    BY <1>1, StoreChunkTypes, TypeSplit DEF StoreChunk, Insert, StoreOK, Stored
  <2>2. IsFiniteSet(Stored \cup {<<d, at[w] + 1>>})
    BY FS_AddElement
  <2> QED
    BY <2>1, <2>2, FS_Subset
<1>2. CASE UNCHANGED copies
  BY <1>2 DEF Stored
<1> QED
  BY <1>1, <1>2 DEF Next, SyncStep, Arrive, Guard, RequestStep, Note, Spawn,
     SpawnFails, Report, StartCli, CliCrash,
     Load, Begin, Fetch, FetchEnd, Save, Close, Break, Fail, After, ServerCrash, store, vars

LEMMA StepTypes == TypeOK /\ IsFiniteSet(Stored) /\ [Next]_vars => TypeOK'
<1> SUFFICES ASSUME TypeOK, IsFiniteSet(Stored), [Next]_vars PROVE TypeOK'
  OBVIOUS
<1> USE SyncAssumption, TypeSplit, TypeSplitNext
<1>1. ASSUME NEW d \in Docs, Arrive(d) PROVE TypeOK'
  BY <1>1 DEF Arrive, StoreOK, RestOK, LocalsOK, server, local
<1>2. ASSUME NEW h \in Handlers, Guard(h) PROVE TypeOK'
  BY <1>2 DEF Guard, StoreOK, RestOK, LocalsOK, store, server, history, Phases
<1>2a. ASSUME NEW h \in Handlers, Note(h) PROVE TypeOK'
  <2>1. Cardinality(Stored) \in Nat
    BY FS_CardinalityType
  <2>2. noted'[h] \in Notes /\ noted' \in [Handlers -> Notes \cup {None}]
    <3>1. PICK read \in BOOLEAN :
            noted' = [noted EXCEPT ![h] =
                [count |-> IF read THEN items ELSE 0,
                 had |-> Cardinality(Stored),
                 exact |-> read /\ \A w \in Workers : ~Loaded(w)]]
      BY <1>2a DEF Note
    <3>2. (read /\ \A w \in Workers : ~Loaded(w)) \in BOOLEAN
      OBVIOUS
    <3> QED
      BY <2>1, <3>1, <3>2 DEF StoreOK, RestOK, Notes
  <2> QED
    BY <1>2a, <2>2 DEF Note, StoreOK, RestOK, LocalsOK, store, history, Phases
<1>2b. ASSUME NEW h \in Handlers, Spawn(h) \/ SpawnFails(h) \/ Report(h) PROVE TypeOK'
  BY <1>2b DEF Spawn, SpawnFails, Report, StoreOK, RestOK, LocalsOK, store, history, Phases
<1>3. ASSUME NEW c \in Clis, StartCli(c) PROVE TypeOK'
  BY <1>3 DEF StartCli, StoreOK, RestOK, LocalsOK, store, server, history, Phases
<1>4. ASSUME NEW w \in Workers, Fetch(w) \/ FetchEnd(w) PROVE TypeOK'
  BY <1>4 DEF Fetch, FetchEnd, StoreOK, RestOK, LocalsOK, store, server, history, Phases
<1>5. ASSUME NEW w \in Workers, Begin(w) PROVE TypeOK'
  BY <1>5 DEF Begin, Listed, StoreOK, RestOK, LocalsOK, store, server, history, Phases
<1>5a. ASSUME NEW w \in Workers, Load(w) PROVE TypeOK'
  <2>1. dirty' \in BOOLEAN
    BY <1>5a DEF Load
  <2>2. seen'[w] \subseteq Docs /\ seen' \in [Workers -> SUBSET Docs]
    BY <1>5a DEF Load, LocalsOK
  <2> QED
    BY <1>5a, <2>1, <2>2 DEF Load, StoreOK, RestOK, LocalsOK, store, server, Phases
<1>6. ASSUME NEW w \in Workers, NEW d \in Docs, StoreChunk(w, d) PROVE TypeOK'
  BY <1>6, StoreChunkTypes
<1>7. ASSUME NEW w \in Workers, Save(w) PROVE TypeOK'
  BY <1>7 DEF Save, Checkpoint, StoreOK, RestOK, LocalsOK, server, history, Phases
<1>8. ASSUME NEW w \in Workers, Close(w) PROVE TypeOK'
  <2>1. LocalsOK' /\ lost' \subseteq Docs
    BY <1>8, EndTypes DEF Close, After
  <2>2. StoreOK' /\ RestOK'
    BY <1>8, <2>1 DEF Close, Checkpoint, StoreOK, RestOK, LocalsOK, server
  <2> QED
    BY <2>1, <2>2
<1>9. ASSUME NEW w \in Workers, Break(w) PROVE TypeOK'
  <2>1. LocalsOK' /\ lost' \subseteq Docs
    BY <1>9, EndTypes DEF Break, After
  <2>2. StoreOK' /\ RestOK'
    BY <1>9, <2>1 DEF Break, Checkpoint, StoreOK, RestOK, LocalsOK, server
  <2> QED
    BY <2>1, <2>2
<1>10. ASSUME NEW w \in Workers, Fail(w) PROVE TypeOK'
  <2>1. LocalsOK' /\ lost' \subseteq Docs
    BY <1>10, EndTypes DEF Fail, After
  <2>2. StoreOK' /\ RestOK'
    BY <1>10, <2>1 DEF Fail, StoreOK, RestOK, store, server
  <2> QED
    BY <2>1, <2>2
<1>11. ASSUME NEW c \in Clis, CliCrash(c) PROVE TypeOK'
  <2>1. LocalsOK' /\ lost' \subseteq Docs
    BY <1>11, EndTypes DEF CliCrash
  <2> QED
    BY <1>11, <2>1 DEF CliCrash, StoreOK, RestOK, store, server
<1>12. CASE ServerCrash
  <2>1. LocalsOK' /\ lost' \subseteq Docs
    BY <1>12, EndTypes DEF ServerCrash
  <2> QED
    BY <1>12, <2>1 DEF ServerCrash, StoreOK, RestOK, store
<1>13. CASE UNCHANGED vars
  BY <1>13 DEF vars, store, server, local, history, TypeOK
<1> QED
  BY <1>1, <1>2, <1>2a, <1>2b, <1>3, <1>4, <1>5, <1>5a, <1>6, <1>7, <1>8, <1>9, <1>10,
     <1>11,
     <1>12, <1>13 DEF Next, SyncStep, RequestStep

\* Rows, counters and the locals of every sync keep their types; in particular
\* the chunk a pipeline is about to store is one of the document's.
THEOREM TypeCorrect == Spec => []TypeOK
<1>1. Init => TypeOK /\ IsFiniteSet(Stored)
  BY InitTypes, InitFinite
<1>2. TypeOK /\ IsFiniteSet(Stored) /\ [Next]_vars => TypeOK' /\ IsFiniteSet(Stored)'
  BY StepTypes, StoredFinite
<1> QED
  BY <1>1, <1>2, PTL DEF Spec

-----------------------------------------------------------------------------
(* No document slips through, except by the two windows.                    *)

Accounted(d) == Full(d) \/ InHand(d) \/ d \in lost

\* A sync that is not past its listing holds nothing, and between two batches it
\* holds no batch.
HandsInv ==
    /\ \A w \in Workers : ~Listing(w) => todo[w] = {} /\ batch[w] = {}
    /\ \A w \in Workers : pc[w] = "fetch" => batch[w] = {}

\* The document under way has its first at[w] chunks in the store.
ChunksInv ==
    \A w \in Workers :
        /\ cur[w] = None => at[w] = 0
        /\ cur[w] # None => \A k \in 1..at[w] : copies[<<cur[w], k>>] > 0

\* What is behind last_sync, what has a chunk, what a pipeline has seen, and
\* everything there is once a sync has its listing, is accounted for.
AccountInv ==
    /\ \A d \in passed : Accounted(d)
    /\ \A d \in Docs : HasChunk(d) => Accounted(d)
    /\ \A w \in Workers : \A d \in seen[w] : Accounted(d)
    /\ \A w \in Workers : Listing(w) => \A d \in arrived : Accounted(d)

SlipInv == TypeOK /\ IsFiniteSet(Stored) /\ HandsInv /\ ChunksInv /\ AccountInv

LEMMA InitSlip == Init => SlipInv
<1> SUFFICES ASSUME Init PROVE SlipInv
  OBVIOUS
<1>1. HandsInv /\ ChunksInv
  BY DEF Init, HandsInv, ChunksInv, Listing
<1>2. ASSUME NEW d \in Docs PROVE ~HasChunk(d)
  <2>1. \A k \in 1..Chunks : <<d, k>> \in Slots
    BY DEF Slots
  <2>2. copies = [s \in Slots |-> 0]
    BY DEF Init
  <2>3. ASSUME NEW k \in 1..Chunks PROVE ~(copies[<<d, k>>] > 0)
    <3>1. copies[<<d, k>>] = 0
      BY <2>1, <2>2
    <3> QED
      BY <3>1
  <2> QED
    BY <2>3 DEF HasChunk
<1>3. AccountInv
  BY <1>2 DEF Init, AccountInv, Listing
<1> QED
  BY <1>1, <1>3, InitTypes, InitFinite DEF SlipInv

LEMMA HandsStep == TypeOK /\ HandsInv /\ [Next]_vars => HandsInv'
<1> SUFFICES ASSUME TypeOK, HandsInv, [Next]_vars PROVE HandsInv'
  OBVIOUS
<1> USE TypeSplit DEF HandsInv, Listing, LocalsOK
<1>1. ASSUME NEW h \in Handlers, Guard(h) \/ RequestStep(h) PROVE HandsInv'
  BY <1>1 DEF Guard, RequestStep, Note, Spawn, SpawnFails, Report, Workers
<1>2. ASSUME NEW c \in Clis, StartCli(c) PROVE HandsInv'
  BY <1>2 DEF StartCli, Workers
<1>3. ASSUME NEW w \in Workers, Load(w) \/ Begin(w) PROVE HandsInv'
  BY <1>3 DEF Load, Begin
<1>4. ASSUME NEW w \in Workers, Fetch(w) \/ FetchEnd(w) PROVE HandsInv'
  BY <1>4 DEF Fetch, FetchEnd
<1>5. ASSUME NEW w \in Workers, NEW d \in Docs, StoreChunk(w, d) PROVE HandsInv'
  BY <1>5 DEF StoreChunk
<1>6. ASSUME NEW w \in Workers, Save(w) PROVE HandsInv'
  BY <1>6 DEF Save
<1>7. ASSUME NEW W, NEW next \in {"idle", "over"}, End(W, next) PROVE HandsInv'
  BY <1>7 DEF End
<1>8. CASE UNCHANGED <<pc, todo, batch>>
  BY <1>8
<1> QED
  BY <1>1, <1>2, <1>3, <1>4, <1>5, <1>6, <1>7, <1>8 DEF Next, SyncStep, Arrive,
     Close, Break, Fail, After, CliCrash, ServerCrash, vars, local

LEMMA ChunksStep == TypeOK /\ ChunksInv /\ [Next]_vars => ChunksInv'
<1> SUFFICES ASSUME TypeOK, ChunksInv, [Next]_vars PROVE ChunksInv'
  OBVIOUS
<1> USE TypeSplit, SyncAssumption DEF ChunksInv
<1>1. ASSUME NEW w \in Workers, NEW d \in Docs, StoreChunk(w, d) PROVE ChunksInv'
  <2>1. /\ <<d, at[w] + 1>> \in Slots
        /\ copies \in [Slots -> Nat]
        /\ at[w] \in 0..(Chunks - 1)
        /\ cur \in [Workers -> Docs \cup {None}]
        /\ at \in [Workers -> 0..(Chunks - 1)]
    BY <1>1, StoreChunkTypes DEF StoreOK, LocalsOK
  <2>2. \A s \in Slots : copies[s] > 0 => copies'[s] > 0
    BY <1>1, <2>1 DEF StoreChunk, Insert
  <2>3. copies'[<<d, at[w] + 1>>] > 0
    BY <1>1, <2>1 DEF StoreChunk, Insert
  <2>4. ASSUME NEW v \in Workers \ {w}
        PROVE  /\ cur'[v] = None => at'[v] = 0
               /\ cur'[v] # None => \A k \in 1..at'[v] : copies'[<<cur'[v], k>>] > 0
    <3>1. cur'[v] = cur[v] /\ at'[v] = at[v]
      BY <1>1, <2>1 DEF StoreChunk
    <3>2. \A k \in 1..at[v] : cur[v] # None => <<cur[v], k>> \in Slots
      BY <2>1 DEF Slots
    <3> QED
      BY <2>2, <3>1, <3>2
  <2>5. /\ cur'[w] = None => at'[w] = 0
        /\ cur'[w] # None => \A k \in 1..at'[w] : copies'[<<cur'[w], k>>] > 0
    <3>1. CASE at[w] + 1 = Chunks
      BY <1>1, <2>1, <3>1 DEF StoreChunk
    <3>2. CASE at[w] + 1 # Chunks
      <4>1. cur'[w] = d /\ at'[w] = at[w] + 1 /\ d # None
        BY <1>1, <2>1, <3>2 DEF StoreChunk
      <4>2. \A k \in 1..at[w] : copies[<<d, k>>] > 0
        BY <1>1, <2>1 DEF StoreChunk
      <4>3. \A k \in 1..at[w] : <<d, k>> \in Slots
        BY <2>1 DEF Slots
      <4>4. \A k \in 1..(at[w] + 1) : k \in 1..at[w] \/ k = at[w] + 1
        BY <2>1
      <4> QED
        BY <2>2, <2>3, <4>1, <4>2, <4>3, <4>4
    <3> QED
      BY <3>1, <3>2
  <2> QED
    BY <2>4, <2>5
<1>2. ASSUME NEW W, NEW next \in {"idle", "over"}, End(W, next), UNCHANGED copies PROVE
   ChunksInv'
  BY <1>2 DEF End, LocalsOK
<1>3. CASE UNCHANGED <<copies, cur, at>>
  BY <1>3
<1> QED
  BY <1>1, <1>2, <1>3 DEF Next, SyncStep, Arrive, Guard, RequestStep, Note, Spawn,
     SpawnFails, Report, StartCli, Load,
     Begin, Fetch, FetchEnd, Save, Close, Break, Fail, After, CliCrash, ServerCrash,
     vars, local, store

\* Stored chunks stay: nothing deletes or replaces a row.
LEMMA ChunksGrow ==
    TypeOK /\ [Next]_vars => \A s \in Slots : copies[s] > 0 => copies'[s] > 0
<1> SUFFICES ASSUME TypeOK, [Next]_vars
             PROVE  \A s \in Slots : copies[s] > 0 => copies'[s] > 0
  OBVIOUS
<1>1. ASSUME NEW w \in Workers, NEW d \in Docs, StoreChunk(w, d)
      PROVE  \A s \in Slots : copies[s] > 0 => copies'[s] > 0
  BY <1>1, StoreChunkTypes, TypeSplit DEF StoreChunk, Insert, StoreOK
<1>2. CASE UNCHANGED copies
  BY <1>2
<1> QED
  BY <1>1, <1>2 DEF Next, SyncStep, Arrive, Guard, RequestStep, Note, Spawn,
     SpawnFails, Report, StartCli, Load,
     Begin, Fetch, FetchEnd, Save, Close, Break, Fail, After, CliCrash, ServerCrash,
     vars, store

LEMMA FullStays ==
    ASSUME TypeOK, [Next]_vars, NEW d \in Docs, Full(d) PROVE Full(d)'
<1>1. \A k \in 1..Chunks : <<d, k>> \in Slots
  BY DEF Slots
<1> QED
  BY <1>1, ChunksGrow DEF Full

\* The one action that takes a document out of a hand without losing it stores
\* its last chunk.
LEMMA StoredLast ==
    ASSUME TypeOK, ChunksInv, NEW w \in Workers, NEW d \in Docs,
           StoreChunk(w, d), at[w] + 1 = Chunks
    PROVE  Full(d)'
<1>1. /\ <<d, at[w] + 1>> \in Slots
      /\ copies \in [Slots -> Nat]
      /\ at[w] \in 0..(Chunks - 1)
  BY StoreChunkTypes, TypeSplit DEF StoreOK, LocalsOK
<1>2. \A k \in 1..at[w] : copies[<<d, k>>] > 0
  BY <1>1 DEF ChunksInv, StoreChunk
<1>3. /\ copies'[<<d, at[w] + 1>>] > 0
      /\ \A s \in Slots : copies[s] > 0 => copies'[s] > 0
  BY <1>1 DEF StoreChunk, Insert
<1>4. \A k \in 1..Chunks : <<d, k>> \in Slots /\ (k \in 1..at[w] \/ k = at[w] + 1)
  BY <1>1, SyncAssumption DEF Slots
<1> QED
  BY <1>2, <1>3, <1>4 DEF Full

\* What is accounted for stays so: a document leaves the hands of a sync by being
\* stored in full or by being lost with the sync.
LEMMA AccountedStays ==
    ASSUME TypeOK, HandsInv, ChunksInv, [Next]_vars, NEW d \in Docs, Accounted(d)
    PROVE  Accounted(d)'
<1> USE TypeSplit DEF LocalsOK
<1>1. CASE Full(d)
  BY <1>1, FullStays DEF Accounted
<1>2. CASE d \in lost
  BY <1>2 DEF Accounted, Next, SyncStep, Arrive, Guard, RequestStep, Note, Spawn,
     SpawnFails, Report, StartCli, Load,
     Begin, Fetch, FetchEnd, StoreChunk, Save, Close, Break, Fail, After, CliCrash,
     ServerCrash, End, vars, history
<1>3. ASSUME NEW v \in Workers, d \in Hand(v) PROVE Accounted(d)'
  <2>1. CASE UNCHANGED <<seen, todo, batch>>
    BY <1>3, <2>1 DEF Accounted, InHand, Hand
  <2>2. ASSUME NEW w \in Workers, Load(w) PROVE Accounted(d)'
    <3>1. w # v
      BY <1>3, <2>2 DEF HandsInv, Hand, Load, Listing
    <3>2. d \in Hand(v)'
      BY <1>3, <2>2, <3>1 DEF Load, Hand
    <3> QED
      BY <3>2 DEF Accounted, InHand
  <2>3. ASSUME NEW w \in Workers, Begin(w) PROVE Accounted(d)'
    <3>1. w # v
      BY <1>3, <2>3 DEF HandsInv, Hand, Begin, Listing
    <3>2. d \in Hand(v)'
      BY <1>3, <2>3, <3>1 DEF Begin, Hand
    <3> QED
      BY <3>2 DEF Accounted, InHand
  <2>4. ASSUME NEW w \in Workers, Fetch(w) \/ FetchEnd(w) PROVE Accounted(d)'
    <3>1. d \in Hand(v)'
      BY <1>3, <2>4 DEF Fetch, FetchEnd, Hand, HandsInv
    <3> QED
      BY <3>1 DEF Accounted, InHand
  <2>5. ASSUME NEW w \in Workers, NEW e \in Docs, StoreChunk(w, e) PROVE Accounted(d)'
    <3>1. CASE d = e /\ at[w] + 1 = Chunks
      BY <2>5, <3>1, StoredLast DEF Accounted
    <3>2. CASE ~(d = e /\ at[w] + 1 = Chunks)
      <4>1. d \in Hand(v)'
        BY <1>3, <2>5, <3>2 DEF StoreChunk, Hand
      <4> QED
        BY <4>1 DEF Accounted, InHand
    <3> QED
      BY <3>1, <3>2
  <2>6. ASSUME NEW w \in Workers, Save(w) PROVE Accounted(d)'
    <3>1. d \in Hand(v)'
      BY <1>3, <2>6 DEF Save, Ingested, Hand
    <3> QED
      BY <3>1 DEF Accounted, InHand
  <2>7. ASSUME NEW W, NEW next \in {"idle", "over"}, End(W, next), UNCHANGED copies
     PROVE Accounted(d)'
    <3>1. CASE v \in W
      BY <1>3, <2>7, <3>1 DEF End, Accounted, Full
    <3>2. CASE v \notin W
      <4>1. d \in Hand(v)'
        BY <1>3, <2>7, <3>2 DEF End, Hand
      <4> QED
        BY <4>1 DEF Accounted, InHand
    <3> QED
      BY <3>1, <3>2
  <2> QED
    BY <2>1, <2>2, <2>3, <2>4, <2>5, <2>6, <2>7 DEF Next, SyncStep, Arrive, Guard,
       RequestStep, Note, Spawn, SpawnFails, Report, StartCli, Close, Break, Fail,
          After, CliCrash, ServerCrash, vars, local, store
<1> QED
  BY <1>1, <1>2, <1>3 DEF Accounted, InHand

LEMMA SlipStep == SlipInv /\ [Next]_vars => SlipInv'
<1> SUFFICES ASSUME SlipInv, [Next]_vars PROVE SlipInv'
  OBVIOUS
<1> USE TypeSplit DEF SlipInv, LocalsOK, StoreOK
<1>1. TypeOK' /\ IsFiniteSet(Stored)' /\ HandsInv' /\ ChunksInv'
  BY StepTypes, StoredFinite, HandsStep, ChunksStep
<1>2. \A d \in Docs : Accounted(d) => Accounted(d)'
  BY AccountedStays
<1>3. /\ passed \subseteq Docs /\ arrived \subseteq Docs
      /\ \A w \in Workers : seen[w] \subseteq Docs
  OBVIOUS
<1>4. ASSUME NEW d \in Docs, HasChunk(d)' PROVE Accounted(d)'
  <2>1. CASE HasChunk(d)
    BY <1>2, <2>1 DEF AccountInv
  <2>2. ASSUME ~HasChunk(d), NEW w \in Workers, NEW e \in Docs, StoreChunk(w, e)
        PROVE  Accounted(d)'
    <3>1. d = e
      <4>1. \A k \in 1..Chunks : <<d, k>> \in Slots
        BY DEF Slots
      <4>2. /\ <<e, at[w] + 1>> \in Slots /\ copies \in [Slots -> Nat]
            /\ copies' = [copies EXCEPT ![<<e, at[w] + 1>>] = IF @ = 0 THEN 1 ELSE @]
        BY <2>2, StoreChunkTypes DEF StoreChunk, Insert
      <4> QED
        BY <1>4, <2>2, <4>1, <4>2 DEF HasChunk
    <3>2. d \in Hand(w)
      BY <2>2, <3>1 DEF StoreChunk, Hand
    <3> QED
      BY <1>2, <3>2 DEF Accounted, InHand
  <2>3. CASE UNCHANGED copies
    BY <1>2, <1>4, <2>3 DEF AccountInv, HasChunk
  <2> QED
    BY <2>1, <2>2, <2>3 DEF Next, SyncStep, Arrive, Guard, RequestStep, Note, Spawn,
       SpawnFails, Report, StartCli, Load,
       Begin, Fetch, FetchEnd, Save, Close, Break, Fail, After, CliCrash, ServerCrash,
       vars, store
<1>5. ASSUME NEW w \in Workers, NEW d \in seen'[w] PROVE Accounted(d)'
  <2>1. CASE d \in seen[w]
    BY <1>2, <1>3, <2>1 DEF AccountInv
  <2>2. ASSUME d \notin seen[w], NEW v \in Workers, Load(v) PROVE Accounted(d)'
    <3>1. d \in Docs /\ HasChunk(d)
      BY <1>5, <2>2 DEF Load
    <3> QED
      BY <1>2, <3>1 DEF AccountInv
  <2>3. ASSUME d \notin seen[w], NEW v \in Workers, NEW e \in Docs, StoreChunk(v, e)
        PROVE  Accounted(d)'
    <3>1. d = e /\ at[v] + 1 = Chunks
      BY <1>5, <2>3 DEF StoreChunk
    <3> QED
      BY <2>3, <3>1, StoredLast DEF Accounted
  <2>4. ASSUME d \notin seen[w], NEW W, NEW next \in {"idle", "over"}, End(W, next)
     PROVE FALSE
    BY <1>5, <2>4 DEF End
  <2>5. CASE UNCHANGED seen
    BY <1>5, <2>1, <2>5
  <2> QED
    BY <2>1, <2>2, <2>3, <2>4, <2>5 DEF Next, SyncStep, Arrive, Guard, RequestStep,
       Note, Spawn, SpawnFails, Report,
       StartCli, Begin, Fetch, FetchEnd, Save, Close, Break, Fail, After, CliCrash,
       ServerCrash, vars, local
<1>6. ASSUME NEW w \in Workers, Listing(w)', NEW d \in arrived' PROVE Accounted(d)'
  <2>1. CASE Listing(w) /\ d \in arrived
    BY <1>2, <1>3, <2>1 DEF AccountInv
  <2>2. ASSUME NEW e \in Docs, Arrive(e) PROVE Accounted(d)'
    <3>1. Listing(w)
      BY <1>6, <2>2 DEF Arrive, Listing, local
    <3>2. d \in arrived \/ d \in lost'
      BY <1>6, <2>2, <3>1 DEF Arrive
    <3> QED
      BY <2>1, <3>1, <3>2 DEF Accounted
  <2>3. ASSUME Begin(w) PROVE Accounted(d)'
    <3>1. d \in arrived
      BY <1>6, <2>3 DEF Begin, store
    <3>2. CASE d \in passed \/ d \in seen[w]
      BY <1>2, <1>3, <3>1, <3>2 DEF AccountInv
    <3>3. CASE d \notin passed /\ d \notin seen[w]
      <4>1. d \in Hand(w)'
        BY <2>3, <3>1, <3>3 DEF Begin, Listed, Hand
      <4> QED
        BY <4>1 DEF Accounted, InHand
    <3> QED
      BY <3>2, <3>3
  <2>4. ASSUME NEW v \in Workers, v # w, Begin(v) PROVE Accounted(d)'
    BY <1>6, <2>1, <2>4 DEF Begin, Listing, store
  <2>5. ASSUME NEW v \in Workers,
               \/ Load(v) \/ Fetch(v) \/ FetchEnd(v) \/ Save(v)
               \/ \E e \in Docs : StoreChunk(v, e)
        PROVE  Accounted(d)'
    BY <1>6, <2>1, <2>5 DEF Load, Fetch, FetchEnd, Save, StoreChunk, Listing, store
  <2>6. ASSUME NEW W, NEW next \in {"idle", "over"}, End(W, next), UNCHANGED arrived
     PROVE Accounted(d)'
    BY <1>6, <2>1, <2>6 DEF End, Listing
  <2>7. ASSUME NEW h \in Workers, Guard(h) \/ RequestStep(h) \/ StartCli(h) PROVE
     Accounted(d)'
    BY <1>6, <2>1, <2>7 DEF Guard, RequestStep, Note, Spawn, SpawnFails, Report,
       StartCli, Listing, store
  <2>8. CASE UNCHANGED vars
    BY <1>6, <2>1, <2>8 DEF vars, local, store, Listing
  <2> QED
    BY <2>1, <2>2, <2>3, <2>4, <2>5, <2>6, <2>7, <2>8 DEF Next, SyncStep,
       Close, Break, Fail, After, CliCrash, ServerCrash, Workers, store
<1>7. ASSUME NEW d \in passed' PROVE Accounted(d)'
  <2>1. CASE d \in passed
    BY <1>2, <1>3, <2>1 DEF AccountInv
  <2>2. ASSUME NEW w \in Workers, Listing(w), passed' = arrived PROVE Accounted(d)'
    BY <1>2, <1>3, <1>7, <2>2 DEF AccountInv
  <2> QED
    BY <1>7, <2>1, <2>2 DEF Next, SyncStep, Arrive, Guard, RequestStep, Note, Spawn,
       SpawnFails, Report, StartCli, Load,
       Begin, Fetch, FetchEnd, StoreChunk, Save, Close, Break, Fail, After, CliCrash,
       ServerCrash, Checkpoint, Listing, vars, store
<1> QED
  BY <1>1, <1>4, <1>5, <1>6, <1>7 DEF AccountInv

\* Whatever interleaves, breaks off or crashes, a document that last_sync has
\* passed is stored in full, in the hands of a running sync, or met one of the
\* two windows; for connectors that honour since and for those that do not.
THEOREM NothingSlipsThrough == Spec => []NothingSlips
<1>1. Init => SlipInv
  BY InitSlip
<1>2. SlipInv /\ [Next]_vars => SlipInv'
  BY SlipStep
<1>3. SlipInv => NothingSlips
  BY DEF SlipInv, AccountInv, Accounted, NothingSlips
<1> QED
  BY <1>1, <1>2, <1>3, PTL DEF Spec

\* A pipeline that takes a half-stored document as seen costs nothing: whoever
\* stores it has it in hand, unless it was broken off; for any number of pipelines
\* that load, skip and store in any order.
THEOREM SkippedIsAccounted == Spec => []SkippedIsKept
<1>1. Init => SlipInv
  BY InitSlip
<1>2. SlipInv /\ [Next]_vars => SlipInv'
  BY SlipStep
<1>3. SlipInv => SkippedIsKept
  BY DEF SlipInv, AccountInv, Accounted, SkippedIsKept
<1> QED
  BY <1>1, <1>2, <1>3, PTL DEF Spec

-----------------------------------------------------------------------------
(* The counters add up, as long as no two syncs overlap and none breaks off. *)

\* A sync that is not listing has nothing to count and no document under way.
QuietInv ==
    \A w \in Workers : ~Listing(w) => got[w] = 0 /\ part[w] = 0 /\ cur[w] = None

\* From the moment its pipeline has loaded, the sync is the only one.
Alone == \A v, w \in Workers : Loaded(v) /\ Loaded(w) => v = w

\* The pipeline knows every document that has a chunk, save the one under way.
Knows(w) == \A d \in Docs : HasChunk(d) => d \in seen[w] \/ d = cur[w]

\* Of the document under way there is no chunk beyond those the sync has stored.
Behind(w) ==
    cur[w] # None => \A k \in 1..Chunks : k > at[w] => copies[<<cur[w], k>>] = 0

Total(w) == prior[w] + got[w] + part[w]

Exact ==
    /\ Alone
    /\ (\A w \in Workers : ~Listing(w)) => items = Cardinality(Stored)
    /\ \A w \in Workers : Listing(w) => Total(w) = Cardinality(Stored)
    /\ \A w \in Workers : Loaded(w) => Knows(w)
    /\ \A w \in Workers : Behind(w)

CountInv == QuietInv /\ (~dirty => Exact)

LEMMA InitCount == Init => CountInv
<1> SUFFICES ASSUME Init PROVE CountInv
  OBVIOUS
<1>2. Cardinality(Stored) = 0
  BY InitFinite
<1>3. \A w \in Workers : ~Listing(w) /\ ~Loaded(w) /\ cur[w] = None
  BY DEF Init, Listing, Loaded
<1>4. Exact
  BY <1>2, <1>3 DEF Init, Exact, Alone, Behind
<1>5. QuietInv
  BY DEF Init, QuietInv
<1> QED
  BY <1>4, <1>5 DEF CountInv

\* The chunk that a sync on its own is about to store is a new one.
LEMMA ChunkIsNew ==
    ASSUME TypeOK, ChunksInv, Exact, NEW w \in Workers, NEW d \in Docs,
           StoreChunk(w, d)
    PROVE  /\ Stored' = Stored \cup {<<d, at[w] + 1>>}
           /\ <<d, at[w] + 1>> \notin Stored
<1> USE SyncAssumption
<1>1. /\ <<d, at[w] + 1>> \in Slots
      /\ copies \in [Slots -> Nat]
      /\ at[w] \in 0..(Chunks - 1) /\ at[w] + 1 \in 1..Chunks
  BY StoreChunkTypes, TypeSplit DEF StoreOK, LocalsOK
<1>2. copies[<<d, at[w] + 1>>] = 0
  <2>1. CASE cur[w] = None
    <3>1. Knows(w) /\ d \notin seen[w] /\ d # None
      BY <2>1 DEF Exact, Loaded, Listing, StoreChunk
    <3>2. ~HasChunk(d)
      BY <2>1, <3>1 DEF Knows
    <3> QED
      BY <1>1, <3>2 DEF HasChunk
  <2>2. CASE cur[w] = d
    BY <1>1, <2>2 DEF Exact, Behind
  <2> QED
    BY <2>1, <2>2 DEF StoreChunk
<1>3. copies' = [copies EXCEPT ![<<d, at[w] + 1>>] = 1]
  BY <1>1, <1>2 DEF StoreChunk, Insert
<1> QED
  BY <1>1, <1>2, <1>3 DEF Stored

LEMMA QuietStep == TypeOK /\ QuietInv /\ [Next]_vars => QuietInv'
<1> SUFFICES ASSUME TypeOK, QuietInv, [Next]_vars PROVE QuietInv'
  OBVIOUS
<1> USE TypeSplit, SyncAssumption DEF QuietInv, Listing, LocalsOK
<1>1. ASSUME NEW h \in Handlers, Guard(h) \/ RequestStep(h) PROVE QuietInv'
  BY <1>1 DEF Guard, RequestStep, Note, Spawn, SpawnFails, Report, Workers
<1>2. ASSUME NEW c \in Clis, StartCli(c) PROVE QuietInv'
  BY <1>2 DEF StartCli, Workers
<1>3. ASSUME NEW w \in Workers, Load(w) \/ Begin(w) \/ Fetch(w) \/ FetchEnd(w) \/ Save(w)
      PROVE  QuietInv'
  BY <1>3 DEF Load, Begin, Fetch, FetchEnd, Save
<1>4. ASSUME NEW w \in Workers, NEW d \in Docs, StoreChunk(w, d) PROVE QuietInv'
  BY <1>4 DEF StoreChunk
<1>5. ASSUME NEW W, NEW next \in {"idle", "over"}, End(W, next) PROVE QuietInv'
  BY <1>5 DEF End
<1>6. CASE UNCHANGED local
  BY <1>6 DEF local
<1> QED
  BY <1>1, <1>2, <1>3, <1>4, <1>5, <1>6 DEF Next, SyncStep, Arrive, Close, Break,
     Fail, After, CliCrash, ServerCrash, vars

\* A step that leaves rows, counters and what the syncs know alone, and loads no
\* pipeline.
LEMMA ExactFrame ==
    ASSUME TypeOK, Exact,
           UNCHANGED <<copies, items, seen, prior, got, part, cur, at>>,
           \A w \in Workers : Loaded(w)' <=> Loaded(w),
           \A w \in Workers : Listing(w)' <=> Listing(w)
    PROVE  Exact'
<1>1. Stored' = Stored
  BY DEF Stored
<1>2. \A d \in Docs : HasChunk(d)' <=> HasChunk(d)
  BY DEF HasChunk
<1> QED
  BY <1>1, <1>2 DEF Exact, Alone, Total, Knows, Behind

LEMMA StoreChunkExact ==
    ASSUME TypeOK, ChunksInv, QuietInv, IsFiniteSet(Stored), Exact,
           NEW w \in Workers, NEW d \in Docs, StoreChunk(w, d)
    PROVE  Exact'
<1> USE TypeSplit, SyncAssumption DEF LocalsOK
<1>1. /\ <<d, at[w] + 1>> \in Slots
      /\ copies \in [Slots -> Nat]
      /\ at[w] \in 0..(Chunks - 1)
      /\ copies' = [copies EXCEPT ![<<d, at[w] + 1>>] = IF @ = 0 THEN 1 ELSE @]
  BY StoreChunkTypes DEF StoreOK, StoreChunk, Insert
<1>2. Cardinality(Stored') = Cardinality(Stored) + 1 /\ Cardinality(Stored) \in Nat
  <2>1. Cardinality(Stored \cup {<<d, at[w] + 1>>}) = Cardinality(Stored) + 1
    BY ChunkIsNew, FS_AddElement
  <2> QED
    BY <2>1, ChunkIsNew, FS_CardinalityType
<1>3. /\ Listing(w) /\ \A v \in Workers : Listing(v) => Loaded(v)
      /\ \A v \in Workers : Listing(v)' <=> Listing(v)
      /\ \A v \in Workers : Loaded(v)' <=> Loaded(v)
  BY DEF StoreChunk, Listing, Loaded
<1>4. \A v \in Workers : Loaded(v) => v = w
  BY <1>3 DEF Exact, Alone
<1>5. Total(w)' = Cardinality(Stored)'
  BY <1>2, <1>3 DEF StoreChunk, Exact, Total
<1>6. Knows(w)'
  <2> SUFFICES ASSUME NEW e \in Docs, HasChunk(e)' PROVE e \in seen'[w] \/ e = cur'[w]
    BY DEF Knows
  <2>1. CASE e = d
    BY <2>1 DEF StoreChunk
  <2>2. CASE e # d
    <3>1. HasChunk(e)
      <4>1. \A k \in 1..Chunks : <<e, k>> \in Slots
        BY DEF Slots
      <4> QED
        BY <1>1, <2>2, <4>1 DEF HasChunk
    <3>2. e \in seen[w] \/ e = cur[w]
      BY <1>3, <3>1 DEF Exact, Knows
    <3> QED
      BY <2>2, <3>2 DEF StoreChunk
  <2> QED
    BY <2>1, <2>2
<1>7. ASSUME NEW v \in Workers PROVE Behind(v)'
  <2>1. CASE v # w
    <3>1. cur'[v] = cur[v] /\ at'[v] = at[v]
      BY <2>1 DEF StoreChunk
    <3>2. cur[v] = None
      BY <1>4, <2>1 DEF Loaded, QuietInv
    <3> QED
      BY <3>1, <3>2 DEF Behind
  <2>2. CASE v = w /\ at[w] + 1 = Chunks
    BY <2>2 DEF StoreChunk, Behind
  <2>3. CASE v = w /\ at[w] + 1 # Chunks
    <3>1. cur'[w] = d /\ at'[w] = at[w] + 1 /\ d # None
      BY <2>3 DEF StoreChunk
    <3> SUFFICES ASSUME NEW k \in 1..Chunks, k > at[w] + 1 PROVE copies'[<<d, k>>] = 0
      BY <2>3, <3>1 DEF Behind
    <3>2. <<d, k>> \in Slots /\ copies'[<<d, k>>] = copies[<<d, k>>]
      BY <1>1 DEF Slots
    <3>3. copies[<<d, k>>] = 0
      <4>1. CASE cur[w] = d
        <5>1. Behind(w)
          BY DEF Exact
        <5>2. k > at[w]
          BY <1>1
        <5> QED
          BY <3>1, <4>1, <5>1, <5>2 DEF Behind
      <4>2. CASE cur[w] = None
        <5>1. ~HasChunk(d)
          BY <1>3, <3>1, <4>2 DEF Exact, Knows, StoreChunk
        <5>2. ~(copies[<<d, k>>] > 0)
          BY <5>1 DEF HasChunk
        <5>3. copies[<<d, k>>] \in Nat
          BY <1>1, <3>2
        <5> QED
          BY <5>2, <5>3
      <4> QED
        BY <4>1, <4>2 DEF StoreChunk
    <3> QED
      BY <3>2, <3>3
  <2> QED
    BY <2>1, <2>2, <2>3
<1>8. Alone'
  BY <1>3 DEF Exact, Alone
<1> QED
  BY <1>3, <1>4, <1>5, <1>6, <1>7, <1>8 DEF Exact

LEMMA ExactStep ==
    ASSUME TypeOK, ChunksInv, QuietInv, IsFiniteSet(Stored), Exact, [Next]_vars, ~dirty'
    PROVE  Exact'
<1> USE TypeSplit, SyncAssumption DEF LocalsOK
<1>1. ASSUME NEW d \in Docs, Arrive(d) PROVE Exact'
  BY <1>1, ExactFrame DEF Arrive, server, local, Loaded, Listing
<1>2. ASSUME NEW h \in Handlers, Guard(h) \/ RequestStep(h) PROVE Exact'
  <2>1. h \in Workers
    BY DEF Workers
  <2> QED
    BY <1>2, <2>1, ExactFrame DEF Guard, RequestStep, Note, Spawn, SpawnFails, Report,
       store, Loaded, Listing
<1>3. ASSUME NEW c \in Clis, StartCli(c) PROVE Exact'
  <2>1. c \in Workers
    BY DEF Workers
  <2> QED
    BY <1>3, <2>1, ExactFrame DEF StartCli, store, Loaded, Listing
<1>4. ASSUME NEW w \in Workers, Load(w) PROVE Exact'
  <2>1. /\ \A v \in Workers : ~Loaded(v)
        /\ \A v \in Workers : Loaded(v)' => v = w
        /\ \A v \in Workers : ~Listing(v) /\ ~Listing(v)'
    BY <1>4 DEF Load, Loaded, Listing
  <2>2. UNCHANGED <<copies, items, cur, at>>
    BY <1>4 DEF Load, store
  <2>3. Knows(w)'
    <3>1. seen'[w] = {d \in Docs : HasChunk(d)}
      BY <1>4 DEF Load
    <3>2. \A d \in Docs : HasChunk(d)' <=> HasChunk(d)
      BY <2>2 DEF HasChunk
    <3> QED
      BY <3>1, <3>2 DEF Knows
  <2>4. Stored' = Stored /\ \A v \in Workers : Behind(v)'
    BY <2>2 DEF Stored, Exact, Behind
  <2> QED
    BY <2>1, <2>2, <2>3, <2>4 DEF Exact, Alone
<1>5. ASSUME NEW w \in Workers, Begin(w) PROVE Exact'
  <2>1. /\ Loaded(w) /\ ~Listing(w)
        /\ \A v \in Workers : Loaded(v)' <=> Loaded(v)
        /\ \A v \in Workers : Listing(v)' => Listing(v) \/ v = w
    BY <1>5 DEF Begin, Loaded, Listing
  <2>2. \A v \in Workers : ~Listing(v)
    BY <2>1 DEF Exact, Alone, Loaded
  <2>3. UNCHANGED <<copies, items, seen, cur, at>>
    BY <1>5 DEF Begin, store
  <2>4. Total(w)' = items
    <3>1. prior'[w] = items /\ got'[w] = 0 /\ part'[w] = 0
      BY <1>5, <2>1 DEF Begin, QuietInv
    <3> QED
      BY <3>1 DEF Total, StoreOK
  <2>5. /\ Stored' = Stored
        /\ \A v \in Workers : Behind(v)' /\ (Loaded(v) => Knows(v)')
    BY <2>3 DEF Stored, Exact, Behind, Knows, HasChunk
  <2>6. Listing(w)'
    BY <1>5 DEF Begin, Listing
  <2> QED
    BY <2>1, <2>2, <2>3, <2>4, <2>5, <2>6 DEF Exact, Alone
<1>6. ASSUME NEW w \in Workers, Fetch(w) \/ FetchEnd(w) PROVE Exact'
  BY <1>6, ExactFrame DEF Fetch, FetchEnd, store, Loaded, Listing
<1>7. ASSUME NEW w \in Workers, NEW d \in Docs, StoreChunk(w, d) PROVE Exact'
  BY <1>7, StoreChunkExact
<1>8. ASSUME NEW w \in Workers, Save(w) PROVE Exact'
  <2>1. /\ Listing(w)
        /\ \A v \in Workers : Loaded(v)' <=> Loaded(v)
        /\ \A v \in Workers : Listing(v)' <=> Listing(v)
    BY <1>8 DEF Save, Loaded, Listing
  <2>2. UNCHANGED <<copies, seen, prior, cur, at>>
    BY <1>8 DEF Save
  <2>3. \A v \in Workers : Total(v)' = Total(v)
    BY <1>8 DEF Save, Total
  <2>4. /\ Stored' = Stored
        /\ \A v \in Workers : Behind(v)' /\ (Loaded(v) => Knows(v)')
    BY <2>2 DEF Stored, Exact, Behind, Knows, HasChunk
  <2> QED
    BY <2>1, <2>3, <2>4 DEF Exact, Alone
<1>9. ASSUME NEW w \in Workers, Close(w) PROVE Exact'
  <2>1. Listing(w) /\ Loaded(w)
    BY <1>9 DEF Close, Loaded, Listing
  <2>2. \A v \in Workers : Loaded(v) => v = w
    BY <2>1 DEF Exact, Alone
  <2>3. \A v \in Workers : ~Loaded(v)' /\ ~Listing(v)'
    BY <1>9, <2>2 DEF Close, After, End, Loaded, Listing
  <2>4. items' = Total(w) /\ UNCHANGED copies
    BY <1>9 DEF Close, Checkpoint, Total
  <2>5. Stored' = Stored
    BY <2>4 DEF Stored
  <2>6. \A v \in Workers : cur'[v] = None
    BY <1>9, <2>2 DEF Close, End, QuietInv, Loaded
  <2> QED
    BY <2>1, <2>3, <2>4, <2>5, <2>6 DEF Exact, Alone, Behind
<1>10. CASE UNCHANGED vars
  BY <1>10, ExactFrame DEF vars, store, local, Loaded, Listing
<1> QED
  BY <1>1, <1>2, <1>3, <1>4, <1>5, <1>6, <1>7, <1>8, <1>9, <1>10 DEF Next,
     SyncStep, Break, Fail, CliCrash, ServerCrash

LEMMA DirtStays == [Next]_vars => (dirty => dirty')
BY DEF Next, SyncStep, Arrive, Guard, RequestStep, Note, Spawn, SpawnFails, Report,
   StartCli, CliCrash, Load, Begin, Fetch, FetchEnd, StoreChunk, Save, Close, Break,
   Fail, ServerCrash, vars, history

LEMMA CountStep == SlipInv /\ CountInv /\ [Next]_vars => CountInv'
<1> SUFFICES ASSUME SlipInv, CountInv, [Next]_vars PROVE CountInv'
  OBVIOUS
<1>1. TypeOK /\ ChunksInv /\ IsFiniteSet(Stored)
  BY DEF SlipInv
<1> QED
  BY <1>1, DirtStays, QuietStep, ExactStep DEF CountInv

\* items_synced is the number of stored chunks, and prior_items + items_ingested of
\* a running sync never drift from it, for any number of documents, chunks, batches
\* and syncs one after the other, and whether the connector looks at since or not.
THEOREM CountersAdd == Spec => []CountsAdd
<1>1. Init => SlipInv /\ CountInv
  BY InitSlip, InitCount
<1>2. SlipInv /\ CountInv /\ [Next]_vars => SlipInv' /\ CountInv'
  BY SlipStep, CountStep
<1>3. CountInv => CountsAdd
  BY DEF CountInv, Exact, Total, CountsAdd, Quiet
<1> QED
  BY <1>1, <1>2, <1>3, PTL DEF Spec

-----------------------------------------------------------------------------
(* What GET /{id}/sync shows as new.                                        *)

\* A baseline is never ahead of what was stored when it was captured.
Sound(b) ==
    b # None => /\ b.count <= b.had /\ b.had <= Cardinality(Stored)
                /\ b.exact => b.count = b.had

\* The row is never ahead of the table, and no baseline is.
NewInv ==
    ~dirty => /\ items <= Cardinality(Stored)
              /\ Sound(baseline)
              /\ \A h \in Handlers : Sound(noted[h])

LEMMA StoredGrows ==
    ASSUME SlipInv, [Next]_vars
    PROVE  /\ Cardinality(Stored) \in Nat /\ Cardinality(Stored)' \in Nat
           /\ Cardinality(Stored) <= Cardinality(Stored)'
<1>1. TypeOK /\ IsFiniteSet(Stored) /\ IsFiniteSet(Stored')
  BY StoredFinite DEF SlipInv
<1>2. Stored \subseteq Stored'
  BY <1>1, ChunksGrow DEF Stored
<1> QED
  BY <1>1, <1>2, FS_Subset, FS_CardinalityType

LEMMA NewStep ==
    ASSUME SlipInv, CountInv, NewInv, [Next]_vars PROVE NewInv'
<1> SUFFICES ASSUME ~dirty, ~dirty' PROVE NewInv'
  BY DirtStays DEF NewInv
<1> USE TypeSplit DEF SlipInv, RestOK
<1>1. /\ items <= Cardinality(Stored) /\ Sound(baseline)
      /\ \A h \in Handlers : Sound(noted[h])
  BY DEF NewInv
<1>2. Exact
  BY DEF CountInv
<1>3. items' <= Cardinality(Stored)'
  <2>1. CASE UNCHANGED items
    BY <1>1, <2>1, StoredGrows DEF StoreOK
  <2>2. ASSUME NEW w \in Workers, Save(w) \/ Close(w) PROVE items' <= Cardinality(Stored)'
    <3>1. items' = Total(w)
      BY <2>2 DEF Save, Close, Checkpoint, Total
    <3>2. Total(w) = Cardinality(Stored)
      BY <1>2, <2>2 DEF Exact, Save, Close, Listing
    <3> QED
      BY <3>1, <3>2, StoredGrows
  <2> QED
    BY <2>1, <2>2 DEF Next, SyncStep, Arrive, Guard, RequestStep, Note, Spawn, SpawnFails,
       Report, StartCli, CliCrash, Load, Begin, Fetch, FetchEnd, StoreChunk, Break, Fail,
       ServerCrash, store, vars
<1>4. /\ baseline' = baseline => Sound(baseline)'
      /\ \A h \in Handlers : noted'[h] = noted[h] => Sound(noted[h])'
  <2>1. ASSUME baseline' = baseline PROVE Sound(baseline)'
    <3>1. baseline \in Notes \cup {None}
      OBVIOUS
    <3> QED
      BY <1>1, <2>1, <3>1, StoredGrows DEF Sound, Notes
  <2>2. ASSUME NEW h \in Handlers, noted'[h] = noted[h] PROVE Sound(noted[h])'
    <3>1. noted[h] \in Notes \cup {None} /\ Sound(noted[h])
      BY <1>1
    <3> QED
      BY <2>2, <3>1, StoredGrows DEF Sound, Notes
  <2> QED
    BY <2>1, <2>2
<1>5. ASSUME NEW h \in Handlers, Note(h) PROVE Sound(noted[h])'
  <2>1. PICK read \in BOOLEAN :
          noted' = [noted EXCEPT ![h] =
              [count |-> IF read THEN items ELSE 0,
               had |-> Cardinality(Stored),
               exact |-> read /\ \A w \in Workers : ~Loaded(w)]]
    BY <1>5 DEF Note
  <2>2. (\A w \in Workers : ~Loaded(w)) => items = Cardinality(Stored)
    BY <1>2 DEF Exact, Loaded
  <2>3. noted'[h].count = (IF read THEN items ELSE 0)
    BY <2>1
  <2>4. noted'[h].had = Cardinality(Stored)
    BY <2>1
  <2>5. noted'[h].exact => read /\ items = Cardinality(Stored)
    BY <2>1, <2>2
  <2> QED
    BY <1>1, <2>3, <2>4, <2>5, StoredGrows DEF Sound, StoreOK
<1>6. ASSUME NEW h \in Handlers,
             Spawn(h) \/ SpawnFails(h) \/ Report(h)
      PROVE  Sound(baseline)'
  <2>1. baseline' = noted[h] /\ noted[h] \in Notes \cup {None} /\ Sound(noted[h])
    BY <1>1, <1>6 DEF Spawn, SpawnFails, Report
  <2> QED
    BY <2>1, StoredGrows DEF Sound, Notes
<1>7. Sound(baseline)'
  <2>1. CASE baseline' = None
    BY <2>1 DEF Sound
  <2> QED
    BY <1>4, <1>6, <2>1 DEF Next, SyncStep, Arrive, Guard, RequestStep, Note, StartCli,
       CliCrash, Load, Begin, Fetch, FetchEnd, StoreChunk, Save, Close, Break, Fail,
       ServerCrash, server, vars
<1>8. ASSUME NEW h \in Handlers PROVE Sound(noted[h])'
  <2>1. CASE noted'[h] = None
    BY <2>1 DEF Sound
  <2>2. ASSUME NEW g \in Handlers, Note(g) PROVE Sound(noted[h])'
    <3>1. g # h => noted'[h] = noted[h]
      BY <2>2 DEF Note
    <3> QED
      BY <1>4, <1>5, <2>2, <3>1
  <2>3. ASSUME NEW g \in Handlers, Spawn(g) \/ SpawnFails(g) \/ Report(g)
        PROVE  Sound(noted[h])'
    <3>1. noted'[h] \in {noted[h], None}
      BY <2>3 DEF Spawn, SpawnFails, Report
    <3> QED
      BY <1>4, <2>1, <3>1
  <2>4. CASE ServerCrash
    BY <2>1, <2>4 DEF ServerCrash
  <2>5. CASE UNCHANGED noted
    BY <1>4, <2>5
  <2> QED
    BY <2>2, <2>3, <2>4, <2>5 DEF Next, SyncStep, Arrive, Guard, RequestStep, StartCli,
       CliCrash, Load, Begin, Fetch, FetchEnd, StoreChunk, Save, Close, Break, Fail,
       server, vars
<1> QED
  BY <1>3, <1>7, <1>8 DEF NewInv

\* However requests, their threads and other syncs interleave, GET shows at least the
\* chunks stored since the baseline it uses was captured, and exactly them if nothing
\* ran then and the row could be read.
THEOREM NewItemsShown == Spec => []NewItemsCover
<1>1. Init => SlipInv /\ CountInv /\ NewInv
  <2>1. Init => NewInv
    BY InitFinite DEF Init, NewInv, Sound
  <2> QED
    BY <2>1, InitSlip, InitCount
<1>2. SlipInv /\ CountInv /\ NewInv /\ [Next]_vars => SlipInv' /\ CountInv' /\ NewInv'
  BY SlipStep, CountStep, NewStep
<1>3. SlipInv /\ CountInv /\ NewInv => NewItemsCover
  <2> SUFFICES ASSUME SlipInv, CountInv, NewInv, ~dirty, Quiet, baseline # None
               PROVE  NewItemsCover
    BY DEF NewItemsCover
  <2>1. items = Cardinality(Stored)
    BY DEF CountInv, Exact, Quiet
  <2>2. baseline \in Notes /\ items \in Nat
    BY TypeSplit DEF SlipInv, RestOK, StoreOK
  <2>3. Sound(baseline)
    BY DEF NewInv
  <2> QED
    BY <2>1, <2>2, <2>3 DEF NewItemsCover, NewItems, Sound, Notes
<1> QED
  BY <1>1, <1>2, <1>3, PTL DEF Spec
=============================================================================
