--------------------------- MODULE ConnectorSync ---------------------------
(***************************************************************************)
(* The incremental sync of one connector: SyncEngine.sync over an          *)
(* IngestionPipeline and the KnowledgeStore (connectors/), started by the   *)
(* API server's background threads (server/connectors_router.py) or by      *)
(* `jarvis deep-research setup` in a process of its own.  All of them       *)
(* share one sync_state row and one knowledge_chunks table.                 *)
(*                                                                         *)
(* Abstractions.  A document is a model value; its text is Chunks chunks    *)
(* (body and attachments alike).  last_sync is kept as the set of documents *)
(* that are older than it: `since` leaves those out of a listing.  The      *)
(* cursor is not a variable: sync() reads it and writes the same value back.*)
(* Of the answer of GET /{id}/sync the module has new_items_synced; the word *)
(* it shows for the state is not modelled: it is computed at the moment of   *)
(* the request, from the recorded thread's is_alive() and what the connector *)
(* says of itself.                                                          *)
(***************************************************************************)
EXTENDS Naturals, FiniteSets

CONSTANTS
    Docs,       \* the documents the source may come to hold
    Initial,    \* those it holds at first
    Handlers,   \* syncs the API server can have under way, one per request
    Clis,       \* syncs under way in command line processes
    BatchSize,  \* _BATCH_SIZE: 100 in the code
    Chunks,     \* chunks of one document
    Filtered,   \* does the connector honour `since`?
    None        \* no thread, no document

Workers == Handlers \cup Clis
Slots == Docs \X (1..Chunks)    \* the natural keys of the chunks

ASSUME SyncAssumption ==
    /\ BatchSize \in Nat \ {0}
    /\ Chunks \in Nat \ {0}
    /\ Filtered \in BOOLEAN
    /\ Initial \subseteq Docs
    /\ Handlers \cap Clis = {}
    /\ None \notin Workers \cup Docs

VARIABLES
    arrived,    \* documents the source holds
    copies,     \* rows of knowledge_chunks per natural key
    items,      \* sync_state.items_synced (0 without a row)
    passed,     \* documents older than sync_state.last_sync
    thread,     \* _sync_threads[connector]: the thread recorded last
    baseline,   \* _sync_state[connector]: the baseline of the last write, or None
    noted,      \* baseline_items of each request, which its thread keeps
    pc,         \* where each request or sync stands
    seen,       \* _seen_doc_ids of its pipeline
    prior,      \* prior_items
    got,        \* items_ingested
    part,       \* chunks_stored of the ingest call under way
    todo,       \* listed documents not fetched yet
    batch,      \* fetched documents not ingested yet
    cur,        \* the document under way in ingest, or None
    at          \* chunks stored of it

\* History, read by properties only.
VARIABLES
    lost,       \* documents that met one of the two windows of loss
    dirty       \* two syncs have overlapped (from the moment a pipeline loads what
                \* it has seen to the end of its sync), or one has broken off

store == <<arrived, copies, items, passed>>
server == <<thread, baseline, noted>>
local == <<pc, seen, prior, got, part, todo, batch, cur, at>>
history == <<lost, dirty>>
vars == <<store, server, local, history>>

-----------------------------------------------------------------------------
(* State functions.                                                        *)

HasChunk(d) == \E k \in 1..Chunks : copies[<<d, k>>] > 0
Full(d) == \A k \in 1..Chunks : copies[<<d, k>>] > 0
Stored == {s \in Slots : copies[s] > 0}

Alive(w) == pc[w] \in {"load", "begin", "fetch", "ingest", "rest", "over"}
Listing(w) == pc[w] \in {"fetch", "ingest", "rest"}
Loaded(w) == pc[w] = "begin" \/ Listing(w)
Quiet == \A w \in Workers : ~Listing(w)

\* The documents a sync has still to store: its pipeline skips those it has seen.
Hand(w) == (todo[w] \cup batch[w]) \ seen[w]
InHand(d) == \E w \in Workers : d \in Hand(w)

\* What connector.sync(since=...) yields: everything, or what is not older than
\* since, for the connectors that look at it.
Listed == IF Filtered THEN arrived \ passed ELSE arrived

Init ==
    /\ arrived = Initial
    /\ copies = [s \in Slots |-> 0]
    /\ items = 0
    /\ passed = {}
    /\ thread = None
    /\ baseline = None
    /\ noted = [h \in Handlers |-> None]
    /\ pc = [w \in Workers |-> "idle"]
    /\ seen = [w \in Workers |-> {}]
    /\ prior = [w \in Workers |-> 0]
    /\ got = [w \in Workers |-> 0]
    /\ part = [w \in Workers |-> 0]
    /\ todo = [w \in Workers |-> {}]
    /\ batch = [w \in Workers |-> {}]
    /\ cur = [w \in Workers |-> None]
    /\ at = [w \in Workers |-> 0]
    /\ lost = {}
    /\ dirty = FALSE

-----------------------------------------------------------------------------
(* The source and the requests.                                            *)

\* A new document appears, dated now.
Arrive(d) ==
    /\ d \notin arrived
    /\ arrived' = arrived \cup {d}
    /\ lost' = IF \E w \in Workers : Listing(w) THEN lost \cup {d} ELSE lost
    /\ UNCHANGED <<copies, items, passed, server, local, dirty>>

\* _start_sync, the guard: a recorded thread that is alive turns the request
\* away.  trigger_sync runs in the thread pool, so another request can be
\* between its guard and its spawn.
Guard(h) ==
    /\ pc[h] = "idle"
    /\ thread # None => ~Alive(thread)
    /\ pc' = [pc EXCEPT ![h] = "cleared"]
    /\ UNCHANGED <<store, server, seen, prior, got, part, todo, batch, cur, at, history>>

\* _start_sync: the checkpoint is read for the baseline, 0 if that fails.  `had`
\* is what is stored at this moment, and `exact` says that the row was read while
\* no sync was between loading its pipeline and its end; only properties read them.
Note(h) ==
    /\ pc[h] = "cleared"
    /\ pc' = [pc EXCEPT ![h] = "noted"]
    /\ \E read \in BOOLEAN :
         noted' = [noted EXCEPT ![h] =
             [count |-> IF read THEN items ELSE 0,
              had |-> Cardinality(Stored),
              exact |-> read /\ \A w \in Workers : ~Loaded(w)]]
    /\ UNCHANGED <<store, thread, baseline, seen, prior, got, part, todo, batch, cur, at,
                   history>>

\* _start_sync, the rest: the server's state, a thread, and its record.
Spawn(h) ==
    /\ pc[h] = "noted"
    /\ pc' = [pc EXCEPT ![h] = "load"]
    /\ thread' = h
    /\ baseline' = noted[h]
    /\ UNCHANGED <<store, noted, seen, prior, got, part, todo, batch, cur, at, history>>

\* t.start() raises: the state has been written, no thread is recorded.
SpawnFails(h) ==
    /\ pc[h] = "noted"
    /\ pc' = [pc EXCEPT ![h] = "idle"]
    /\ baseline' = noted[h]
    /\ noted' = [noted EXCEPT ![h] = None]
    /\ UNCHANGED <<store, thread, seen, prior, got, part, todo, batch, cur, at, history>>

\* The command line starts a sync with no guard at all.
StartCli(c) ==
    /\ pc[c] = "idle"
    /\ pc' = [pc EXCEPT ![c] = "load"]
    /\ UNCHANGED <<store, server, seen, prior, got, part, todo, batch, cur, at, history>>

-----------------------------------------------------------------------------
(* One sync.                                                               *)

\* IngestionPipeline(store): every document with a stored chunk counts as seen.
Load(w) ==
    /\ pc[w] = "load"
    /\ seen' = [seen EXCEPT ![w] = {d \in Docs : HasChunk(d)}]
    /\ pc' = [pc EXCEPT ![w] = "begin"]
    /\ dirty' = (dirty \/ \E v \in Workers : Loaded(v))
    /\ UNCHANGED <<store, server, prior, got, part, todo, batch, cur, at, lost>>

\* sync(): read the checkpoint, ask the connector for a listing.
Begin(w) ==
    /\ pc[w] = "begin"
    /\ prior' = [prior EXCEPT ![w] = items]
    /\ todo' = [todo EXCEPT ![w] = Listed]
    /\ pc' = [pc EXCEPT ![w] = "fetch"]
    /\ UNCHANGED <<store, server, seen, got, part, batch, cur, at, history>>

\* The connector yields documents until a batch is full; it goes to the pipeline.
Fetch(w) ==
    /\ pc[w] = "fetch"
    /\ \E D \in SUBSET todo[w] :
         /\ Cardinality(D) = BatchSize
         /\ todo' = [todo EXCEPT ![w] = @ \ D]
         /\ batch' = [batch EXCEPT ![w] = D]
    /\ pc' = [pc EXCEPT ![w] = "ingest"]
    /\ UNCHANGED <<store, server, seen, prior, got, part, cur, at, history>>

\* The listing ends first: what it still gave is ingested too.
FetchEnd(w) ==
    /\ pc[w] = "fetch"
    /\ Cardinality(todo[w]) < BatchSize
    /\ todo' = [todo EXCEPT ![w] = {}]
    /\ batch' = [batch EXCEPT ![w] = todo[w]]
    /\ pc' = [pc EXCEPT ![w] = "rest"]
    /\ UNCHANGED <<store, server, seen, prior, got, part, cur, at, history>>

\* ingest() passes over the documents whose id has been seen.
Ingested(w) == batch[w] \subseteq seen[w]

\* KnowledgeStore.store: INSERT OR IGNORE on the natural key, then commit.
Insert(s) == copies' = [copies EXCEPT ![s] = IF @ = 0 THEN 1 ELSE @]

\* Mutated: a document is remembered as seen with its first chunk.
StoreChunkEarly(w, d) ==
    /\ pc[w] \in {"ingest", "rest"}
    /\ IF cur[w] = None THEN d \in batch[w] \ seen[w] ELSE d = cur[w]
    /\ Insert(<<d, at[w] + 1>>)
    /\ part' = [part EXCEPT ![w] = @ + 1]
    /\ seen' = [seen EXCEPT ![w] = @ \cup {d}]
    /\ cur' = [cur EXCEPT ![w] = IF at[w] + 1 = Chunks THEN None ELSE d]
    /\ at' = [at EXCEPT ![w] = IF at[w] + 1 = Chunks THEN 0 ELSE @ + 1]
    /\ UNCHANGED <<arrived, items, passed, server, pc, prior, got, todo, batch, history>>

\* ingest(): the next chunk of the document under way, or the first one of a
\* document not seen yet, which becomes seen once its last chunk is in.
StoreChunk(w, d) ==
    /\ pc[w] \in {"ingest", "rest"}
    /\ d \in batch[w] \ seen[w]
    /\ cur[w] \in {None, d}
    /\ Insert(<<d, at[w] + 1>>)
    /\ part' = [part EXCEPT ![w] = @ + 1]
    /\ IF at[w] + 1 = Chunks
       THEN /\ cur' = [cur EXCEPT ![w] = None]
            /\ at' = [at EXCEPT ![w] = 0]
            /\ seen' = [seen EXCEPT ![w] = @ \cup {d}]
       ELSE /\ cur' = [cur EXCEPT ![w] = d]
            /\ at' = [at EXCEPT ![w] = @ + 1]
            /\ UNCHANGED seen
    /\ UNCHANGED <<arrived, items, passed, server, pc, prior, got, todo, batch, history>>

\* Mutated: the count of the run is added to the total once more.
CheckpointAdds(count) ==
    /\ items' = items + count
    /\ passed' = arrived

\* Mutated: last_sync lies ahead of the clock that dates the documents.
CheckpointAhead(count) ==
    /\ items' = count
    /\ passed' = Docs

\* _save_checkpoint: the cumulative count, and last_sync = now, which every
\* document the source holds at this moment is older than.
Checkpoint(count) ==
    /\ items' = count
    /\ passed' = arrived

\* Mutated: a batch is left as soon as something of it is stored.
SaveSoon(w) ==
    /\ pc[w] = "ingest"
    /\ part[w] > 0 \/ Ingested(w)
    /\ Checkpoint(prior[w] + got[w] + part[w])
    /\ got' = [got EXCEPT ![w] = @ + part[w]]
    /\ part' = [part EXCEPT ![w] = 0]
    /\ batch' = [batch EXCEPT ![w] = {}]
    /\ cur' = [cur EXCEPT ![w] = None]
    /\ at' = [at EXCEPT ![w] = 0]
    /\ pc' = [pc EXCEPT ![w] = "fetch"]
    /\ UNCHANGED <<arrived, copies, server, seen, prior, todo, history>>

\* A full batch is in: its chunks are counted and a checkpoint is saved.
Save(w) ==
    /\ pc[w] = "ingest"
    /\ Ingested(w)
    /\ Checkpoint(prior[w] + got[w] + part[w])
    /\ got' = [got EXCEPT ![w] = @ + part[w]]
    /\ part' = [part EXCEPT ![w] = 0]
    /\ batch' = [batch EXCEPT ![w] = {}]
    /\ pc' = [pc EXCEPT ![w] = "fetch"]
    /\ UNCHANGED <<arrived, copies, server, seen, prior, todo, cur, at, history>>

\* The syncs W return, raise or die: their locals are gone, and so is what a
\* sync that was still running had in hand.  What is left of them is at next.
End(W, next) ==
    /\ pc' = [w \in Workers |-> IF w \in W THEN next ELSE pc[w]]
    /\ seen' = [w \in Workers |-> IF w \in W THEN {} ELSE seen[w]]
    /\ prior' = [w \in Workers |-> IF w \in W THEN 0 ELSE prior[w]]
    /\ got' = [w \in Workers |-> IF w \in W THEN 0 ELSE got[w]]
    /\ part' = [w \in Workers |-> IF w \in W THEN 0 ELSE part[w]]
    /\ todo' = [w \in Workers |-> IF w \in W THEN {} ELSE todo[w]]
    /\ batch' = [w \in Workers |-> IF w \in W THEN {} ELSE batch[w]]
    /\ cur' = [w \in Workers |-> IF w \in W THEN None ELSE cur[w]]
    /\ at' = [w \in Workers |-> IF w \in W THEN 0 ELSE at[w]]
    /\ lost' = lost \cup {d \in Docs : ~Full(d) /\ \E w \in W : d \in Hand(w)}

\* A sync of the API server has an outcome to report; one of the command line has
\* none.
After(w) == IF w \in Handlers THEN "over" ELSE "idle"

\* The sync has ended well: the last checkpoint.
Close(w) ==
    /\ pc[w] = "rest"
    /\ Ingested(w)
    /\ Checkpoint(prior[w] + got[w] + part[w])
    /\ End({w}, After(w))
    /\ UNCHANGED <<arrived, copies, server, dirty>>

\* The connector or the store raises inside the try: a checkpoint with the
\* error, without the chunks of the ingest call under way.
Break(w) ==
    /\ Listing(w)
    /\ Checkpoint(prior[w] + got[w])
    /\ End({w}, After(w))
    /\ dirty' = TRUE
    /\ UNCHANGED <<arrived, copies, server>>

\* An error outside the try (a database that cannot be opened or read, a last
\* checkpoint that cannot be written): no checkpoint.
Fail(w) ==
    /\ \/ pc[w] \in {"load", "begin"}
       \/ pc[w] = "rest" /\ Ingested(w)
    /\ End({w}, After(w))
    /\ dirty' = TRUE
    /\ UNCHANGED <<store, server>>

\* Mutated: the thread reads the checkpoint anew for the baseline it reports.
ReportAnew(h) ==
    /\ pc[h] = "over"
    /\ pc' = [pc EXCEPT ![h] = "idle"]
    /\ baseline' = [noted[h] EXCEPT !.count = items]
    /\ noted' = [noted EXCEPT ![h] = None]
    /\ UNCHANGED <<store, thread, seen, prior, got, part, todo, batch, cur, at, history>>

\* The thread writes the outcome over the server's state, with the baseline of its
\* own request, and ends.
Report(h) ==
    /\ pc[h] = "over"
    /\ pc' = [pc EXCEPT ![h] = "idle"]
    /\ baseline' = noted[h]
    /\ noted' = [noted EXCEPT ![h] = None]
    /\ UNCHANGED <<store, thread, seen, prior, got, part, todo, batch, cur, at, history>>

\* A process ends in the middle of its syncs (the threads are daemons).
CliCrash(c) ==
    /\ pc[c] # "idle"
    /\ End({c}, "idle")
    /\ dirty' = TRUE
    /\ UNCHANGED <<store, server>>

\* The restarted server knows of no thread and of no state.
ServerCrash ==
    /\ \E h \in Handlers : pc[h] # "idle"
    /\ End(Handlers, "idle")
    /\ thread' = None
    /\ baseline' = None
    /\ noted' = [h \in Handlers |-> None]
    /\ dirty' = TRUE
    /\ UNCHANGED store

-----------------------------------------------------------------------------
SyncStep(w) ==
    \/ Load(w) \/ Begin(w) \/ Fetch(w) \/ FetchEnd(w) \/ Save(w) \/ Close(w)
    \/ \E d \in Docs : StoreChunk(w, d)

RequestStep(h) == Note(h) \/ Spawn(h) \/ SpawnFails(h) \/ Report(h)

Next ==
    \/ \E d \in Docs : Arrive(d)
    \/ \E h \in Handlers : Guard(h) \/ RequestStep(h)
    \/ \E c \in Clis : StartCli(c) \/ CliCrash(c)
    \/ \E w \in Workers : SyncStep(w) \/ Break(w) \/ Fail(w)
    \/ ServerCrash

Spec == Init /\ [][Next]_vars

\* A started request and a started sync run on: they are threads that wait for
\* nothing but the connector and SQLite, whose calls time out.  Nobody has to
\* start a sync.
FairSpec ==
    /\ Spec
    /\ \A h \in Handlers : WF_vars(RequestStep(h))
    /\ \A w \in Workers : WF_vars(SyncStep(w))

-----------------------------------------------------------------------------
(* Properties.                                                             *)

Notes == [count : Nat, had : Nat, exact : BOOLEAN]

TypeOK ==
    /\ arrived \subseteq Docs
    /\ copies \in [Slots -> Nat]
    /\ items \in Nat
    /\ passed \subseteq Docs
    /\ thread \in Handlers \cup {None}
    /\ baseline \in Notes \cup {None}
    /\ noted \in [Handlers -> Notes \cup {None}]
    /\ pc \in [Workers -> {"idle", "cleared", "noted", "load", "begin", "fetch", "ingest",
                          "rest", "over"}]
    /\ seen \in [Workers -> SUBSET Docs]
    /\ prior \in [Workers -> Nat]
    /\ got \in [Workers -> Nat]
    /\ part \in [Workers -> Nat]
    /\ todo \in [Workers -> SUBSET Docs]
    /\ batch \in [Workers -> SUBSET Docs]
    /\ cur \in [Workers -> Docs \cup {None}]
    /\ at \in [Workers -> 0..(Chunks - 1)]
    /\ lost \subseteq Docs
    /\ dirty \in BOOLEAN

\* last_sync moves past documents that are not stored yet (it is saved with
\* every batch).  Still, a document behind it is stored in full, or in the hands
\* of a sync that runs, or it met one of the two windows of loss: it arrived
\* while a sync ran, or the sync that had listed it was broken off.
NothingSlips == \A d \in passed : Full(d) \/ InHand(d) \/ d \in lost

\* items_synced "is the running cumulative total across every sync this connector
\* has ever run" (connectors_router.py): the chunks in the store, as long as no
\* two syncs overlapped and none broke off; and the counters of a sync under way
\* account for what it has stored so far.
CountsAdd ==
    ~dirty =>
        /\ Quiet => items = Cardinality(Stored)
        /\ \A w \in Workers :
             Listing(w) => prior[w] + got[w] + part[w] = Cardinality(Stored)

\* ingest() passes over a document that counts as seen, and a fresh pipeline takes
\* any stored chunk as a sign of it.  Still, what a running pipeline would pass over
\* is stored in full, or in the hands of a sync that will store the rest, or the
\* sync that had it was broken off or met its arrival: being passed over costs no
\* document that overlapping syncs alone could keep.
SkippedIsKept ==
    \A w \in Workers : \A d \in seen[w] : Full(d) \/ InHand(d) \/ d \in lost

\* new_items_synced of GET /{id}/sync: the row's count minus the baseline, from 0 up.
NewItems == IF items > baseline.count THEN items - baseline.count ELSE 0

\* "Items processed during the *current* (or just-finished) run = total minus the
\* baseline captured when this sync was kicked off" (connectors_router.py).  The
\* baseline is read by the request, before its thread reads the same row, and other
\* syncs come in between; the thread writes it once more when it ends, perhaps over
\* that of a later request.  At rest, and while ~dirty, what GET shows as new are
\* all the chunks stored since the baseline was captured, whoever stored them, and
\* no others if the row was read and no sync was under way then.
NewItemsCover ==
    ~dirty /\ Quiet /\ baseline # None =>
        LET fresh == Cardinality(Stored) - baseline.had IN
        /\ NewItems >= fresh
        /\ baseline.exact => NewItems = fresh

\* If syncs keep being started, a document is stored in full in the end, unless
\* it met a window of loss: no overlap, no memory of seen documents and no filter
\* hides it for good.
EventuallyStored ==
    \A d \in Docs :
        []<>(\E w \in Workers : Listing(w))
            => (d \in arrived ~> Full(d) \/ d \in lost)

\* sync_engine.py says of itself: "long-running syncs can be interrupted and
\* resumed from the last saved cursor".  So, when no sync runs, a document that
\* is not stored in full is one that the next sync lists and does not skip.
Resumable ==
    (\A w \in Workers : ~Alive(w)) =>
        \A d \in arrived : Full(d) \/ (d \in Listed /\ ~HasChunk(d))
=============================================================================
