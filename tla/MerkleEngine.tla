---------------------------- MODULE MerkleEngine ----------------------------
(***************************************************************************)
(* The layermerkle engine (src/pkg/layermerkle): file accesses are         *)
(* submitted to a bounded channel, dispatched to a bounded number of       *)
(* workers, resolved to the hash of the file in the layer that owns it     *)
(* (through an LRU cache and two singleflight groups) and collected in one *)
(* tree per vertex.                                                        *)
(*                                                                         *)
(* The hash of a file is the pair of its layer and path: two layers hold   *)
(* different contents.  A layer stack is a sequence, the top layer last.   *)
(***************************************************************************)
EXTENDS HashCache, FiniteSets, FiniteSetsExt

CONSTANTS
    Events,         \* file accesses
    EventWorlds,    \* what the events may be: functions event -> [vertex, stack, path, read]
    Layers,
    Paths,
    LayerFile,      \* layer -> path -> "present", "absent", "whiteout" or "opaque"
    Registered,     \* layers of the registry
    Workers,        \* capacity of the worker semaphore
    EventBuf,       \* capacity of the event channel
    ShardCap,       \* capacity of the cache (one shard)
    NoOwner         \* no layer

ASSUME EngineAssumption ==
    /\ \A w \in EventWorlds, e \in Events : w[e].stack \in Seq(Layers) \ {<<>>} /\ w[e].path \in Paths
    /\ NoOwner \notin Layers
    /\ Workers \in Nat \ {0} /\ EventBuf \in Nat /\ ShardCap \in Nat \ {0}

VARIABLES
    engRunning,  \* Engine.running
    engChan,     \* events in the channel
    engClosed,   \* is the channel closed
    engCtx,      \* the context of Start is cancelled
    engDispatch, \* dispatchLoop: "off", "loop", "sem", "end"
    engHead,     \* the event dispatchLoop waits to start
    engStop,     \* Stop: "no", "waiting", "done"
    engPanic,    \* a send on the closed channel
    evOf,        \* the events
    evPc,        \* where each event is
    evOwner,     \* owner layer found for it
    evRes,       \* its result: [hash, owner, cached] or an error
    evBuilder,   \* generation of the builder it adds to
    lru,         \* cache: entries, the most recently used first
    flights,     \* singleflight calls in progress: key -> the event that leads
    hashing,     \* the same for the hasher: file -> event
    builders,    \* vertex -> generation of its open builder, 0 without one
    gens,        \* builders made for each vertex
    leaves,      \* (vertex, generation) -> its leaves
    sealing,     \* vertex -> generation being finalized
    forest,      \* vertex -> leaves of its tree
    sealed       \* history: builders that were finalized

pipeVars == <<engRunning, engChan, engClosed, engCtx, engDispatch, engHead, engStop, engPanic>>
workVars == <<evOf, evPc, evOwner, evRes, evBuilder, lru, flights, hashing>>
treeVars == <<builders, gens, leaves, sealing, forest, sealed>>
engVars == <<pipeVars, workVars, treeVars>>

Vertices == {evOf[e].vertex : e \in Events}
Top(e) == evOf[e].stack[Len(evOf[e].stack)]
Path(e) == evOf[e].path
Nothing == [x \in {} |-> x]
WithKey(f, k, x) == [j \in DOMAIN f \cup {k} |-> IF j = k THEN x ELSE f[j]]
Error == [kind |-> "error"]
Good(hash, owner, cached) == [kind |-> "hash", hash |-> hash, owner |-> owner, cached |-> cached]

Waiting == {"top", "join", "owner", "second", "hash", "hashjoin", "store", "land", "builder", "leaf"}
EngTypeOK ==
    /\ engRunning \in BOOLEAN /\ engClosed \in BOOLEAN /\ engPanic \in BOOLEAN
    /\ engDispatch \in {"off", "loop", "sem", "end"}
    /\ Len(engChan) <= EventBuf
    /\ evPc \in [Events -> {"idle", "sending", "queued", "dropped", "skipped", "done"} \cup Waiting]
    /\ Cardinality({e \in Events : evPc[e] \in Waiting}) <= Workers
    /\ Len(lru) <= ShardCap

EngInit ==
    /\ engRunning = FALSE /\ engChan = <<>> /\ engClosed = FALSE /\ engCtx = FALSE
    /\ engDispatch = "off" /\ engHead = <<>> /\ engStop = "no" /\ engPanic = FALSE
    /\ evOf \in EventWorlds
    /\ evPc = [e \in Events |-> "idle"]
    /\ evOwner = [e \in Events |-> NoOwner]
    /\ evRes = [e \in Events |-> Error]
    /\ evBuilder = [e \in Events |-> 0]
    /\ lru = <<>> /\ flights = Nothing /\ hashing = Nothing
    /\ builders = [v \in Vertices |-> 0] /\ gens = [v \in Vertices |-> 0]
    /\ leaves = [k \in {} |-> <<>>]
    /\ sealing = [v \in Vertices |-> 0]
    /\ forest = Nothing /\ sealed = {}

EvAt(e, from, to) == evPc[e] = from /\ evPc' = [evPc EXCEPT ![e] = to]

-----------------------------------------------------------------------------
\* Start, once; Stop closes the channel and waits for the loop and the workers.
Start ==
    /\ ~engRunning /\ engDispatch = "off"
    /\ engRunning' = TRUE /\ engDispatch' = "loop"
    /\ UNCHANGED <<engChan, engClosed, engCtx, engHead, engStop, engPanic, workVars, treeVars>>

Stop ==
    /\ engRunning
    /\ engRunning' = FALSE /\ engClosed' = TRUE /\ engStop' = "waiting"
    /\ UNCHANGED <<engChan, engCtx, engDispatch, engHead, engPanic, workVars, treeVars>>

StopReturns ==
    /\ engStop = "waiting" /\ engDispatch = "end"
    /\ \A e \in Events : evPc[e] \notin Waiting
    /\ engStop' = "done"
    /\ UNCHANGED <<engRunning, engChan, engClosed, engCtx, engDispatch, engHead, engPanic, workVars, treeVars>>

Cancel ==
    /\ engRunning /\ ~engCtx /\ engCtx' = TRUE
    /\ UNCHANGED <<engRunning, engChan, engClosed, engDispatch, engHead, engStop, engPanic, workVars, treeVars>>

\* ConvertAndSubmit: only read accesses are for the engine.
Passes(e) == evOf[e].read

\* Feed, SubmitBatch and ConvertAndSubmit pass over events that are not reads; Submit
\* reads running and the channel under the lock ...
Submit(e) ==
    /\ EvAt(e, "idle", IF ~Passes(e) THEN "skipped" ELSE IF engRunning THEN "sending" ELSE "dropped")
    /\ UNCHANGED <<pipeVars, evOf, evOwner, evRes, evBuilder, lru, flights, hashing, treeVars>>

\* ... and sends after it has released the lock: the channel may be full, or closed.
Send(e) ==
    /\ evPc[e] = "sending"
    /\ \/ engClosed /\ engPanic' = TRUE /\ UNCHANGED <<evPc, engChan>>
       \/ /\ ~engClosed /\ Len(engChan) < EventBuf
          /\ engChan' = Append(engChan, e) /\ EvAt(e, "sending", "queued") /\ UNCHANGED engPanic
       \/ /\ ~engClosed /\ (Len(engChan) >= EventBuf \/ engCtx)
          /\ EvAt(e, "sending", "dropped") /\ UNCHANGED <<engChan, engPanic>>
    /\ UNCHANGED <<engRunning, engClosed, engCtx, engDispatch, engHead, engStop,
                   evOf, evOwner, evRes, evBuilder, lru, flights, hashing, treeVars>>

\* dispatchLoop: the next event; after cancellation it is dropped, otherwise it waits for
\* a worker.  The loop ends when the channel is closed and empty.
Dispatch ==
    /\ engDispatch = "loop"
    /\ IF engChan = <<>>
       THEN engClosed /\ engDispatch' = "end" /\ UNCHANGED <<engChan, engHead, evPc>>
       ELSE LET e == Head(engChan) IN
            /\ engChan' = Tail(engChan)
            /\ IF engCtx
               THEN EvAt(e, "queued", "dropped") /\ UNCHANGED <<engDispatch, engHead>>
               ELSE engDispatch' = "sem" /\ engHead' = <<e>> /\ UNCHANGED evPc
    /\ UNCHANGED <<engRunning, engClosed, engCtx, engStop, engPanic, evOf, evOwner, evRes, evBuilder,
                   lru, flights, hashing, treeVars>>

StartWorker ==
    /\ engDispatch = "sem"
    /\ Cardinality({e \in Events : evPc[e] \in Waiting}) < Workers
    /\ EvAt(engHead[1], "queued", "top")
    /\ engDispatch' = "loop" /\ engHead' = <<>>
    /\ UNCHANGED <<engRunning, engChan, engClosed, engCtx, engStop, engPanic, evOf, evOwner, evRes, evBuilder,
                   lru, flights, hashing, treeVars>>

-----------------------------------------------------------------------------
\* Get of the cache.
Cached(l, p) == EntriesOf(lru, l, p)
HashIn(l, p) == lru[CHOOSE i \in Cached(l, p) : TRUE].hash

\* fsStat in each registered layer from the top: the first that is not absent decides.
FindOwner(stack, p) ==
    LET hits == {i \in 1..Len(stack) : stack[i] \in Registered /\ LayerFile[stack[i]][p] # "absent"}
    IN  IF hits = {} \/ LayerFile[stack[Max(hits)]][p] # "present" THEN NoOwner ELSE stack[Max(hits)]

\* singleflightKey.
FlightKey(e) == <<evOf[e].stack, Path(e)>>

\* Resolve, first lookup: (top layer, path); a hit is attributed to the top layer.  A miss
\* joins the call in progress for this stack and path, or leads one.
LookupTop(e) ==
    LET l == Top(e)
        k == FlightKey(e)
    IN
    /\ IF Cached(l, Path(e)) # {}
       THEN /\ EvAt(e, "top", "builder")
            /\ evRes' = [evRes EXCEPT ![e] = Good(HashIn(l, Path(e)), l, TRUE)]
            /\ lru' = Put(lru, ShardCap, l, Path(e), HashIn(l, Path(e)))
            /\ UNCHANGED flights
       ELSE /\ UNCHANGED <<evRes, lru>>
            /\ IF k \in DOMAIN flights
               THEN EvAt(e, "top", "join") /\ UNCHANGED flights
               ELSE EvAt(e, "top", "owner") /\ flights' = WithKey(flights, k, e)
    /\ UNCHANGED <<pipeVars, evOf, evOwner, evBuilder, hashing, treeVars>>

\* FindOwnerLayer: fails on a whiteout, on a file in no layer and after cancellation.
ResolveOwner(e) ==
    LET o == FindOwner(evOf[e].stack, Path(e)) IN
    /\ \/ o # NoOwner /\ EvAt(e, "owner", "second") /\ UNCHANGED evRes
       \/ (o = NoOwner \/ engCtx) /\ EvAt(e, "owner", "land") /\ evRes' = [evRes EXCEPT ![e] = Error]
    /\ evOwner' = [evOwner EXCEPT ![e] = o]
    /\ UNCHANGED <<pipeVars, evOf, evBuilder, lru, flights, hashing, treeVars>>

\* Second lookup: (owner layer, path); a hit is copied to the top layer.
LookupOwner(e) ==
    LET o == evOwner[e]
        h == HashIn(o, Path(e))
        hit == Put(lru, ShardCap, o, Path(e), h)
    IN
    /\ IF Cached(o, Path(e)) # {}
       THEN /\ EvAt(e, "second", "land")
            /\ evRes' = [evRes EXCEPT ![e] = Good(h, o, TRUE)]
            /\ lru' = IF o = Top(e) THEN hit ELSE Put(hit, ShardCap, Top(e), Path(e), h)
            /\ UNCHANGED hashing
       ELSE /\ UNCHANGED <<evRes, lru>>
            /\ IF <<o, Path(e)>> \in DOMAIN hashing
               THEN EvAt(e, "second", "hashjoin") /\ UNCHANGED hashing
               ELSE EvAt(e, "second", "hash") /\ hashing' = WithKey(hashing, <<o, Path(e)>>, e)
    /\ UNCHANGED <<pipeVars, evOf, evOwner, evBuilder, flights, treeVars>>

\* The hasher's singleflight: the leader reads the file, which may fail, and everyone who
\* joined gets its outcome.
HashFile(e) ==
    LET k == <<evOwner[e], Path(e)>>
        with == {q \in Events : evPc[q] \in {"hash", "hashjoin"} /\ <<evOwner[q], Path(q)>> = k}
    IN
    /\ evPc[e] = "hash"
    /\ \E ok \in BOOLEAN :
          /\ evPc' = [q \in Events |-> IF q \in with THEN IF ok THEN "store" ELSE "land" ELSE evPc[q]]
          /\ evRes' = [q \in Events |-> IF q \in with THEN IF ok THEN Good(k, k[1], FALSE) ELSE Error
                                        ELSE evRes[q]]
    /\ hashing' = Restrict(hashing, DOMAIN hashing \ {k})
    /\ UNCHANGED <<pipeVars, evOf, evOwner, evBuilder, lru, flights, treeVars>>

\* The hash is cached for the owner and for the top layer.
StoreHash(e) ==
    LET o == evOwner[e]
        own == Put(lru, ShardCap, o, Path(e), evRes[e].hash)
    IN
    /\ EvAt(e, "store", "land")
    /\ lru' = IF o = Top(e) THEN own ELSE Put(own, ShardCap, Top(e), Path(e), evRes[e].hash)
    /\ UNCHANGED <<pipeVars, evOf, evOwner, evRes, evBuilder, flights, hashing, treeVars>>

\* Variant: the call is forgotten only when it succeeded.
LandOnSuccess(e) ==
    LET k == FlightKey(e)
        with == {q \in Events : q = e \/ (evPc[q] = "join" /\ FlightKey(q) = k)}
        next == IF evRes[e].kind = "error" THEN "done" ELSE "builder"
    IN
    /\ evPc[e] = "land"
    /\ evPc' = [q \in Events |-> IF q \in with THEN next ELSE evPc[q]]
    /\ evRes' = [q \in Events |-> IF q \in with THEN evRes[e] ELSE evRes[q]]
    /\ flights' = IF evRes[e].kind = "error" THEN flights ELSE Restrict(flights, DOMAIN flights \ {k})
    /\ UNCHANGED <<pipeVars, evOf, evOwner, evBuilder, lru, hashing, treeVars>>

\* Group.Do returns: to the leader and, with the same result, to those who joined.
Land(e) ==
    LET k == FlightKey(e)
        with == {q \in Events : q = e \/ (evPc[q] = "join" /\ FlightKey(q) = k)}
        next == IF evRes[e].kind = "error" THEN "done" ELSE "builder"
    IN
    /\ evPc[e] = "land"
    /\ evPc' = [q \in Events |-> IF q \in with THEN next ELSE evPc[q]]
    /\ evRes' = [q \in Events |-> IF q \in with THEN evRes[e] ELSE evRes[q]]
    /\ flights' = Restrict(flights, DOMAIN flights \ {k})
    /\ UNCHANGED <<pipeVars, evOf, evOwner, evBuilder, lru, hashing, treeVars>>

\* Process: getOrCreateBuilder ...
GetBuilder(e) ==
    LET v == evOf[e].vertex IN
    /\ EvAt(e, "builder", "leaf")
    /\ IF builders[v] # 0
       THEN /\ evBuilder' = [evBuilder EXCEPT ![e] = builders[v]]
            /\ UNCHANGED <<builders, gens, leaves>>
       ELSE /\ gens' = [gens EXCEPT ![v] = @ + 1]
            /\ builders' = [builders EXCEPT ![v] = gens[v] + 1]
            /\ leaves' = WithKey(leaves, <<v, gens[v] + 1>>, <<>>)
            /\ evBuilder' = [evBuilder EXCEPT ![e] = gens[v] + 1]
    /\ UNCHANGED <<pipeVars, evOf, evOwner, evRes, lru, flights, hashing, sealing, forest, sealed>>

\* ... and Add, under the builder's own lock.
AddLeaf(e) ==
    LET b == <<evOf[e].vertex, evBuilder[e]>> IN
    /\ EvAt(e, "leaf", "done")
    /\ leaves' = [leaves EXCEPT ![b] = Append(@, [path |-> Path(e), res |-> evRes[e]])]
    /\ UNCHANGED <<pipeVars, evOf, evOwner, evRes, evBuilder, lru, flights, hashing, builders, gens, sealing, forest, sealed>>

\* FinalizeVertex takes the builder out, ...
FinalizeTake(v) ==
    /\ sealing[v] = 0 /\ builders[v] # 0
    /\ sealing' = [sealing EXCEPT ![v] = builders[v]]
    /\ builders' = [builders EXCEPT ![v] = 0]
    /\ UNCHANGED <<pipeVars, workVars, gens, leaves, forest, sealed>>

\* ... seals it and stores the tree.
FinalizeSeal(v) ==
    /\ sealing[v] # 0
    /\ forest' = WithKey(forest, v, leaves[<<v, sealing[v]>>])
    /\ sealing' = [sealing EXCEPT ![v] = 0]
    /\ sealed' = sealed \cup {<<v, sealing[v]>>}
    /\ UNCHANGED <<pipeVars, workVars, builders, gens, leaves>>

-----------------------------------------------------------------------------
WorkerStep(e) ==
    \/ LookupTop(e) \/ ResolveOwner(e) \/ LookupOwner(e) \/ HashFile(e) \/ StoreHash(e) \/ Land(e)
    \/ GetBuilder(e) \/ AddLeaf(e)
DispatchStep == Dispatch \/ StartWorker
EngProgress == ~engPanic /\ (DispatchStep \/ \E e \in Events : WorkerStep(e))
EngNext ==
    /\ ~engPanic
    /\ \/ Start \/ Stop \/ StopReturns \/ Cancel \/ DispatchStep
       \/ \E e \in Events : Submit(e) \/ Send(e) \/ WorkerStep(e)
       \/ \E v \in Vertices : FinalizeTake(v) \/ FinalizeSeal(v)
EngSpec == EngInit /\ [][EngNext]_engVars

-----------------------------------------------------------------------------
\* What a process in the container sees at a path: the topmost layer that has the file or
\* hides it decides.
Visible(stack, p) ==
    LET hits == {i \in 1..Len(stack) : stack[i] \in Registered /\ LayerFile[stack[i]][p] # "absent"}
        i == Max(hits)
    IN  IF hits # {} /\ LayerFile[stack[i]][p] = "present" THEN {<<stack[i], p>>} ELSE {}

\* Stacks that are told apart by their top layers: what shows at a path through one of two
\* stacks with the same top shows through the other.
ToldApart ==
    \A w \in EventWorlds, e, q \in Events :
        /\ w[e].path = w[q].path
        /\ w[e].stack[Len(w[e].stack)] = w[q].stack[Len(w[q].stack)]
        => Visible(w[e].stack, w[e].path) = Visible(w[q].stack, w[q].path)

\* A leaf's hash is that of the file its own event saw, whatever the cache, the coalesced
\* calls of other vertices and evictions did (Resolve and resolve in deduplicator.go);
\* a file hidden by a whiteout has no leaf.  Needs ToldApart: the cache's key for the first
\* lookup is the top layer alone.
LeafIsWhatWasRead ==
    \A e \in Events : evPc[e] \in {"builder", "leaf"} =>
        evRes[e].hash \in Visible(evOf[e].stack, Path(e))

\* However many requests of however many vertices arrive for one file, one of them reads
\* it at a time (the two singleflight groups).
OneReaderPerFile ==
    \A e, q \in Events : evPc[e] = "hash" /\ evPc[q] = "hash" /\ e # q =>
        <<evOwner[e], Path(e)>> # <<evOwner[q], Path(q)>>

\* A coalesced request always has somebody to wait for.
JoinedHasLeader ==
    \A e \in Events :
        /\ evPc[e] = "join" => /\ FlightKey(e) \in DOMAIN flights
                               /\ evPc[flights[FlightKey(e)]] \in {"owner", "second", "hash", "hashjoin", "store", "land"}
        /\ evPc[e] = "hashjoin" => /\ <<evOwner[e], Path(e)>> \in DOMAIN hashing
                                   /\ evPc[hashing[<<evOwner[e], Path(e)>>]] = "hash"

\* When Stop returns, every event the channel accepted has been processed or reported as
\* dropped: none is left in the channel or with a worker (Stop, dispatchLoop).
StopDrains ==
    engStop = "done" => \A e \in Events : evPc[e] \notin {"queued"} \cup Waiting

\* No leaf is added to a builder that nobody will finalize: each builder is the open one
\* of its vertex, being finalized, or finalized (getOrCreateBuilder, FinalizeVertex).
BuilderReachable ==
    \A k \in DOMAIN leaves : k[2] \in {builders[k[1]], sealing[k[1]]} \/ k \in sealed

\* An event that was accepted and is not yet processed or dropped: it waits for a worker or
\* for a coalesced call.
Accepted(e) == evPc[e] \in {"queued"} \cup Waiting

\* The engine under concurrent requests, coalesced reads, evictions and a Stop: leaves are what
\* was read, each file is read by one, and nobody and nothing is left waiting.
EngineSound ==
    /\ EngTypeOK /\ LeafIsWhatWasRead /\ OneReaderPerFile
    /\ JoinedHasLeader /\ StopDrains /\ BuilderReachable
=============================================================================
