------------------------------- MODULE FSHash -------------------------------
(***************************************************************************)
(* pkg/fshash: the Processor that hashes the files a build touches.  Calls *)
(* of its methods run in goroutines of their own; Submit and SubmitAsync   *)
(* hand events to a pool of workers through a channel that Close closes.   *)
(* A worker turns an event into a mutation of the layer store or sends it  *)
(* through the deduplicator: visibility, Bloom filter, cache, ownership.   *)
(*                                                                         *)
(* One step is one critical section: a lock, an atomic or a channel.  A    *)
(* path is the sequence of its names (paths are absolute, the root is      *)
(* << >>), a hash is the content it was computed from.  The fields mods,   *)
(* hides and before of a call are history: what held when it began.        *)
(***************************************************************************)
EXTENDS Naturals, FiniteSets, Sequences, SequencesExt

CONSTANTS
    FhLayers,         \* layer identifiers
    NoLayerID,          \* the zero LayerID
    FhPaths,          \* paths of files and of directories
    FhContents,       \* contents an event may carry
    NoData,           \* an event whose Data is nil
    FhCallers,        \* goroutines, each making one call
    FhWorkers,        \* worker goroutines
    FhBuffer,         \* capacity of eventCh
    FhCapacity,       \* entries the cache holds before it evicts
    FhScripts         \* what the goroutines do: [calls: [FhCallers -> operation], stack: layers]

ASSUME FhBounds ==
    FhBuffer \in Nat \ {0} /\ FhCapacity \in Nat \ {0} /\ NoLayerID \notin FhLayers /\ FhWorkers # {}

FhOps == [kind : {"register", "mark", "submit", "async", "finalize", "close"}, layer : FhLayers \cup {NoLayerID},
          path : FhPaths, parent : FhLayers \cup {NoLayerID}, what : {"modified", "deleted", "opaque"},
          mark : {"none", "whiteout", "opaque"}, data : FhContents \cup {NoData}, cancels : BOOLEAN]
ASSUME FhScriptsAssumption ==
    \A s \in FhScripts :
        /\ s.stack \in Seq(FhLayers) /\ s.calls \in [FhCallers -> FhOps]
        /\ \A c \in FhCallers : s.calls[c].kind = "register" => s.calls[c].layer # NoLayerID

VARIABLES
    fhLayers,   \* layer.Store: [known, modified, deleted, opaque]
    fhChains,   \* Processor.chains, << >> where there is none
    fhQueue,    \* eventCh: the calls whose events wait
    fhChan,     \* "open", "closed" (the flag) or "shut" (the channel too)
    fhFilter,   \* the pairs added to the Bloom filter
    fhCache,    \* cache.ShardedStore, most recently used first
    fhTracker,  \* access.Tracker: [layer, path, hash, src]
    fhStats,    \* the deduplicator's counters
    fhSession,  \* how often the filter was reset
    fhCalls, fhPool, fhCrashed
fhVars == <<fhLayers, fhChains, fhQueue, fhChan, fhFilter, fhCache, fhTracker, fhStats,
            fhSession, fhCalls, fhPool, fhCrashed>>

ChainPos(chain, l) == IF l \in Range(chain) THEN CHOOSE i \in DOMAIN chain : chain[i] = l ELSE 0
DirsOf(path) == {SubSeq(path, 1, k) : k \in 0..(Len(path) - 1)}
FhNoStats == [received |-> 0, compute |-> 0, reuse |-> 0, skip |-> 0, exclude |-> 0]

IdleCall(op) ==
    [op |-> op, pc |-> "idle", err |-> "none", action |-> "none", src |-> NoLayerID, session |-> 0,
     mods |-> {}, hides |-> {}, before |-> {}, leaves |-> {}]
IdleWorker == [pc |-> "wait", call |-> "none", owner |-> 0, cached |-> NoLayerID]

StackOf(s) == [l \in FhLayers |-> IF l \in Range(s) THEN SubSeq(s, 1, ChainPos(s, l)) ELSE << >>]
FhInitWith(script) ==
    /\ fhCalls = [c \in FhCallers |-> IdleCall(script.calls[c])]
    /\ fhChains = StackOf(script.stack)
    /\ fhLayers = [known |-> Range(script.stack), modified |-> {}, deleted |-> {}, opaque |-> {}]
    /\ fhQueue = << >> /\ fhChan = "open" /\ fhFilter = {} /\ fhCache = << >> /\ fhTracker = {}
    /\ fhStats = FhNoStats /\ fhSession = 0
    /\ fhPool = [w \in FhWorkers |-> IdleWorker]
    /\ fhCrashed = FALSE
FhInit == \E script \in FhScripts : FhInitWith(script)

-----------------------------------------------------------------------------
(* Layers: the owner of a path, what hides it, whether a cached hash is still good. *)

ModifiedIn(chain, path) == {i \in DOMAIN chain : <<chain[i], path>> \in fhLayers.modified}
FhTop(S) == CHOOSE i \in S : \A j \in S : j <= i
OwnerOf(chain, path) == IF ModifiedIn(chain, path) = {} THEN 1 ELSE FhTop(ModifiedIn(chain, path))
Hides(l, path) ==
    \/ <<l, path>> \in fhLayers.deleted
    \/ \E d \in DirsOf(path) : <<l, d>> \in fhLayers.opaque
IsFileVisible(chain, path, owner) == \A i \in (owner + 1)..Len(chain) : ~Hides(chain[i], path)
\* Variant: the layer next above the cached one is not looked at.
NeedsRehashFurtherUp(chain, path, src) ==
    \/ src \notin Range(chain)
    \/ \E i \in ModifiedIn(chain, path) : i > ChainPos(chain, src) + 1
NeedsRehash(chain, path, src) ==
    \/ src \notin Range(chain)
    \/ \E i \in ModifiedIn(chain, path) : i > ChainPos(chain, src)

-----------------------------------------------------------------------------
(* The cache: one list stands for the shards. *)

Keyed(l, path) == {i \in DOMAIN fhCache : fhCache[i].layer = l /\ fhCache[i].path = path}
ToFront(i) == <<fhCache[i]>> \o RemoveAt(fhCache, i)
FhPut(entry) ==
    LET old == Keyed(entry.layer, entry.path)
        rest == IF old = {} THEN fhCache ELSE RemoveAt(fhCache, CHOOSE i \in old : TRUE)
        new == <<entry>> \o rest
    IN  IF Len(new) > FhCapacity THEN SubSeq(new, 1, Len(new) - 1) ELSE new
(* The lowest layer of the chain that has a cached hash. *)
CachedAt(chain, path) ==
    LET hits == {i \in DOMAIN chain : Keyed(chain[i], path) # {}}
    IN  IF hits = {} THEN 0 ELSE CHOOSE i \in hits : \A j \in hits : i <= j
FhTracked(l, entry) ==
    {t \in fhTracker : t.layer # l \/ t.path # entry.path}
        \union {[layer |-> l, path |-> entry.path, hash |-> entry.hash, src |-> entry.layer]}

-----------------------------------------------------------------------------
(* The calls. *)

FhAt(c, kinds, pc) == ~fhCrashed /\ fhCalls[c].op.kind \in kinds /\ fhCalls[c].pc = pc
FhGoto(c, pc) == fhCalls' = [fhCalls EXCEPT ![c].pc = pc]
FhReturn(c, err) == fhCalls' = [fhCalls EXCEPT ![c].pc = "done", ![c].err = err]
SendKinds == {"submit", "async"}
FhReturned(c) == fhCalls[c].pc = "done"
FhStore == <<fhLayers, fhChains>>
FhHashing == <<fhFilter, fhCache, fhTracker, fhStats, fhSession>>

(* The check of closed (and of the event) that every method starts with. *)
FhBegin(c) ==
    /\ FhAt(c, {"register", "mark", "submit", "async", "finalize"}, "idle")
    /\ LET op == fhCalls[c].op IN
           IF fhChan # "open" THEN FhReturn(c, "closed")
           ELSE IF op.kind \in SendKinds /\ op.layer = NoLayerID THEN FhReturn(c, "invalid")
           ELSE fhCalls' = [fhCalls EXCEPT
                  ![c].pc = "begun",
                  ![c].mods = {l \in FhLayers : <<l, op.path>> \in fhLayers.modified},
                  ![c].hides = {l \in FhLayers : Hides(l, op.path)},
                  ![c].before = {d \in FhCallers : FhReturned(d) /\ fhCalls[d].err = "nil"}]
    /\ UNCHANGED <<FhStore, FhHashing, fhQueue, fhChan, fhPool, fhCrashed>>

(* RegisterLayer: the store first, the chain in a second critical section. *)
FhRegister(c) ==
    /\ FhAt(c, {"register"}, "begun")
    /\ LET op == fhCalls[c].op IN
         IF op.layer \in fhLayers.known THEN FhReturn(c, "exists") /\ UNCHANGED fhLayers
         ELSE IF op.parent # NoLayerID /\ op.parent \notin fhLayers.known
           THEN FhReturn(c, "notfound") /\ UNCHANGED fhLayers
         ELSE FhGoto(c, "chain") /\ fhLayers' = [fhLayers EXCEPT !.known = @ \union {op.layer}]
    /\ UNCHANGED <<fhChains, FhHashing, fhQueue, fhChan, fhPool, fhCrashed>>
ChainOn(op) == (IF op.parent = NoLayerID THEN << >> ELSE fhChains[op.parent]) \o <<op.layer>>
FhChainBuilt(c) ==
    /\ FhAt(c, {"register"}, "chain")
    /\ fhChains' = [fhChains EXCEPT ![fhCalls[c].op.layer] = ChainOn(fhCalls[c].op)]
    /\ FhReturn(c, "nil")
    /\ UNCHANGED <<fhLayers, FhHashing, fhQueue, fhChan, fhPool, fhCrashed>>

(* MarkModified, MarkDeleted and MarkOpaque: what is the set that grows. *)
FhMark(c) ==
    /\ FhAt(c, {"mark"}, "begun")
    /\ LET op == fhCalls[c].op IN
         IF op.layer \notin fhLayers.known THEN FhReturn(c, "notfound") /\ UNCHANGED fhLayers
         ELSE /\ fhLayers' = [fhLayers EXCEPT ![op.what] = @ \union {<<op.layer, op.path>>}]
              /\ FhReturn(c, "nil")
    /\ UNCHANGED <<fhChains, FhHashing, fhQueue, fhChan, fhPool, fhCrashed>>

(* Submit and SubmitAsync: sending on the closed channel panics. *)
FhSend(c) ==
    /\ FhAt(c, SendKinds, "begun")
    /\ IF fhChan = "shut"
         THEN fhCrashed' = TRUE /\ UNCHANGED <<fhQueue, fhCalls>>
         ELSE /\ Len(fhQueue) < FhBuffer
              /\ fhQueue' = Append(fhQueue, c)
              /\ IF fhCalls[c].op.kind = "submit" THEN FhGoto(c, "reply") ELSE FhReturn(c, "nil")
              /\ UNCHANGED fhCrashed
    /\ UNCHANGED <<FhStore, FhHashing, fhChan, fhPool>>
FhReply(c) ==
    /\ FhAt(c, {"submit"}, "reply")
    /\ fhCalls[c].err # "none"
    /\ FhGoto(c, "done")
    /\ UNCHANGED <<FhStore, FhHashing, fhQueue, fhChan, fhPool, fhCrashed>>
(* The context of a Submit ends: the event stays where it is. *)
FhGiveUp(c) ==
    /\ FhAt(c, SendKinds, "begun") \/ FhAt(c, {"submit"}, "reply")
    /\ fhCalls[c].op.cancels
    /\ FhReturn(c, "cancelled")
    /\ UNCHANGED <<FhStore, FhHashing, fhQueue, fhChan, fhPool, fhCrashed>>

(* Finalize reads the tracker, builds the tree and resets the filter for everyone. *)
FhFinalize(c) ==
    /\ FhAt(c, {"finalize"}, "begun")
    /\ LET found == {t \in fhTracker : t.layer = fhCalls[c].op.layer} IN
         IF found = {} THEN FhReturn(c, "empty")
         ELSE fhCalls' = [fhCalls EXCEPT ![c].pc = "reset", ![c].leaves = found]
    /\ UNCHANGED <<FhStore, FhHashing, fhQueue, fhChan, fhPool, fhCrashed>>
FhResetSession(c) ==
    /\ FhAt(c, {"finalize"}, "reset")
    /\ fhFilter' = {} /\ fhSession' = fhSession + 1
    /\ FhReturn(c, "nil")
    /\ UNCHANGED <<FhStore, fhCache, fhTracker, fhStats, fhQueue, fhChan, fhPool, fhCrashed>>

(* Close: the flag, the channel, the workers. *)
FhClose(c) ==
    /\ FhAt(c, {"close"}, "idle")
    /\ IF fhChan # "open" THEN FhReturn(c, "nil") /\ UNCHANGED fhChan
       ELSE FhGoto(c, "shut") /\ fhChan' = "closed"
    /\ UNCHANGED <<FhStore, FhHashing, fhQueue, fhPool, fhCrashed>>
\* Variant: Close sets the flag and leaves the channel open.
FhShutFlagOnly(c) ==
    /\ FhAt(c, {"close"}, "shut") /\ FhGoto(c, "wait")
    /\ UNCHANGED <<FhStore, FhHashing, fhQueue, fhChan, fhPool, fhCrashed>>
FhShut(c) ==
    /\ FhAt(c, {"close"}, "shut")
    /\ fhChan' = "shut" /\ FhGoto(c, "wait")
    /\ UNCHANGED <<FhStore, FhHashing, fhQueue, fhPool, fhCrashed>>
FhClosed(c) ==
    /\ FhAt(c, {"close"}, "wait")
    /\ \A w \in FhWorkers : fhPool[w].pc = "gone"
    /\ FhReturn(c, "nil")
    /\ UNCHANGED <<FhStore, FhHashing, fhQueue, fhChan, fhPool, fhCrashed>>

-----------------------------------------------------------------------------
(* The workers. *)

FhWorking(w, pc) == ~fhCrashed /\ fhPool[w].pc = pc
FhEvent(w) == fhCalls[fhPool[w].call].op
ChainFor(w) == fhChains[FhEvent(w).layer]
FhTo(w, pc) == fhPool' = [fhPool EXCEPT ![w].pc = pc]
(* The end of processEvent: the answer goes to a Submit that still waits for it. *)
FhFinish(w, act, src, err) ==
    /\ fhPool' = [fhPool EXCEPT ![w] = IdleWorker]
    /\ fhCalls' = [fhCalls EXCEPT ![fhPool[w].call].action = act, ![fhPool[w].call].src = src,
                                  ![fhPool[w].call].err = IF fhCalls[fhPool[w].call].pc = "reply" THEN err ELSE @]

FhReceive(w) ==
    /\ FhWorking(w, "wait") /\ fhQueue # << >>
    /\ fhPool' = [fhPool EXCEPT ![w].pc = "event", ![w].call = Head(fhQueue)]
    /\ fhQueue' = Tail(fhQueue)
    /\ UNCHANGED <<FhStore, FhHashing, fhChan, fhCalls, fhCrashed>>
FhExit(w) ==
    /\ FhWorking(w, "wait") /\ fhQueue = << >> /\ fhChan = "shut"
    /\ FhTo(w, "gone")
    /\ UNCHANGED <<FhStore, FhHashing, fhQueue, fhChan, fhCalls, fhCrashed>>

(* The chain and the mutation.  A marker changes the store through the Processor's own methods, *)
(* which refuse once the processor is closed; their error is ignored.                           *)
Marked(e) == IF e.mark = "whiteout" THEN "deleted" ELSE "opaque"
FhInterpret(w) ==
    /\ FhWorking(w, "event")
    /\ LET e == FhEvent(w) IN
         IF ChainFor(w) = << >> THEN FhFinish(w, "lost", NoLayerID, "notfound") /\ UNCHANGED fhLayers
         ELSE IF e.mark = "none" THEN FhTo(w, "owner") /\ UNCHANGED <<fhLayers, fhCalls>>
         ELSE /\ fhLayers' = IF fhChan = "open"
                               THEN [fhLayers EXCEPT ![Marked(e)] = @ \union {<<e.layer, e.path>>}]
                               ELSE fhLayers
              /\ FhFinish(w, "marked", NoLayerID, "nil")
    /\ UNCHANGED <<fhChains, FhHashing, fhQueue, fhChan, fhCrashed>>

FhCount(what) == fhStats' = [fhStats EXCEPT ![what] = @ + 1]
FhOwner(w) ==
    /\ FhWorking(w, "owner")
    /\ FhCount("received")
    /\ fhPool' = [fhPool EXCEPT ![w].pc = "visible", ![w].owner = OwnerOf(ChainFor(w), FhEvent(w).path)]
    /\ UNCHANGED <<FhStore, fhFilter, fhCache, fhTracker, fhSession, fhQueue, fhChan, fhCalls, fhCrashed>>
FhVisible(w) ==
    /\ FhWorking(w, "visible")
    /\ IF IsFileVisible(ChainFor(w), FhEvent(w).path, fhPool[w].owner)
         THEN FhTo(w, "filter") /\ UNCHANGED <<fhStats, fhCalls>>
         ELSE FhCount("exclude") /\ FhFinish(w, "exclude", NoLayerID, "nil")
    /\ UNCHANGED <<FhStore, fhFilter, fhCache, fhTracker, fhSession, fhQueue, fhChan, fhCrashed>>
\* Variant: the key may be missed although it was added.
PresentStale(key) == {FALSE} \union {key \in fhFilter}
(* BloomFilter.TestAndAdd under its mutex; a filter that is not empty may answer yes by mistake. *)
Present(key) == {key \in fhFilter} \union (IF fhFilter = {} THEN {} ELSE {TRUE})
FhTestAndAdd(w) ==
    /\ FhWorking(w, "filter")
    /\ LET key == <<FhEvent(w).layer, FhEvent(w).path>> IN
         /\ fhFilter' = fhFilter \union {key}
         /\ \E present \in Present(key) :
              IF present THEN FhCount("skip") /\ FhFinish(w, "skip", NoLayerID, "nil")
              ELSE /\ fhCalls' = [fhCalls EXCEPT ![fhPool[w].call].session = fhSession]
                   /\ FhTo(w, "lookup") /\ UNCHANGED fhStats
    /\ UNCHANGED <<FhStore, fhCache, fhTracker, fhSession, fhQueue, fhChan, fhCrashed>>
FhLookup(w) ==
    /\ FhWorking(w, "lookup")
    /\ LET i == CachedAt(ChainFor(w), FhEvent(w).path) IN
         IF i = 0
           THEN FhTo(w, "compute") /\ FhCount("compute") /\ UNCHANGED fhCache
           ELSE /\ fhCache' = ToFront(CHOOSE k \in Keyed(ChainFor(w)[i], FhEvent(w).path) : TRUE)
                /\ fhPool' = [fhPool EXCEPT ![w].pc = "rehash", ![w].cached = fhCache'[1]]
                /\ UNCHANGED fhStats
    /\ UNCHANGED <<FhStore, fhFilter, fhTracker, fhSession, fhQueue, fhChan, fhCalls, fhCrashed>>
FhResolve(w) ==
    /\ FhWorking(w, "rehash")
    /\ LET hit == fhPool[w].cached IN
         IF NeedsRehash(ChainFor(w), FhEvent(w).path, hit.layer)
           THEN FhTo(w, "compute") /\ FhCount("compute") /\ UNCHANGED <<fhTracker, fhCalls>>
           ELSE /\ FhCount("reuse")
                /\ fhTracker' = FhTracked(FhEvent(w).layer, hit)
                /\ FhFinish(w, "reuse", hit.layer, "nil")
    /\ UNCHANGED <<FhStore, fhFilter, fhCache, fhSession, fhQueue, fhChan, fhCrashed>>
(* The hash of the data, or of the path when the event carries none; cache, then tracker. *)
HashOf(e) == IF e.data = NoData THEN <<"path", e.path>> ELSE <<"data", e.data>>
Computed(w) == [layer |-> FhEvent(w).layer, path |-> FhEvent(w).path, hash |-> HashOf(FhEvent(w))]
FhCompute(w) ==
    /\ FhWorking(w, "compute")
    /\ fhCache' = FhPut(Computed(w))
    /\ FhTo(w, "record")
    /\ UNCHANGED <<FhStore, fhFilter, fhTracker, fhStats, fhSession, fhQueue, fhChan, fhCalls, fhCrashed>>
FhRecord(w) ==
    /\ FhWorking(w, "record")
    /\ fhTracker' = FhTracked(FhEvent(w).layer, Computed(w))
    /\ FhFinish(w, "compute", FhEvent(w).layer, "nil")
    /\ UNCHANGED <<FhStore, fhFilter, fhCache, fhStats, fhSession, fhQueue, fhChan, fhCrashed>>

FhCallStep(c) ==
    \/ FhRegister(c) \/ FhChainBuilt(c) \/ FhMark(c) \/ FhSend(c) \/ FhReply(c)
    \/ FhFinalize(c) \/ FhResetSession(c) \/ FhShut(c) \/ FhClosed(c)
FhWorkerStep(w) ==
    \/ FhReceive(w) \/ FhExit(w) \/ FhInterpret(w) \/ FhOwner(w) \/ FhVisible(w)
    \/ FhTestAndAdd(w) \/ FhLookup(w) \/ FhResolve(w) \/ FhCompute(w) \/ FhRecord(w)
FhProgress == (\E c \in FhCallers : FhCallStep(c)) \/ (\E w \in FhWorkers : FhWorkerStep(w))
FhNext == FhProgress \/ \E c \in FhCallers : FhBegin(c) \/ FhClose(c) \/ FhGiveUp(c)
FhSpec == FhInit /\ [][FhNext]_fhVars

-----------------------------------------------------------------------------
Outcomes == {"none", "lost", "marked", "exclude", "skip", "reuse", "compute"}
Hashed == {"reuse", "compute"}
FhTypeOK ==
    /\ \A l \in FhLayers : fhChains[l] \in Seq(fhLayers.known) /\ (fhChains[l] # << >> => Last(fhChains[l]) = l)
    /\ fhLayers.modified \union fhLayers.deleted \union fhLayers.opaque \subseteq fhLayers.known \X FhPaths
    /\ Len(fhQueue) <= FhBuffer /\ fhChan \in {"open", "closed", "shut"}
    /\ fhFilter \subseteq FhLayers \X FhPaths
    /\ Len(fhCache) <= FhCapacity
    /\ \A t \in fhTracker : t.src \in Range(fhChains[t.layer]) /\ t.hash[2] \in FhPaths \union FhContents
    /\ \A c \in FhCallers : fhCalls[c].action \in Outcomes

LayersAbove(chain, l) == {chain[i] : i \in (ChainPos(chain, l) + 1)..Len(chain)}
OwnerWith(mods, chain) ==
    LET own == {i \in DOMAIN chain : chain[i] \in mods} IN IF own = {} THEN 1 ELSE FhTop(own)
ModsNow(path) == {l \in FhLayers : <<l, path>> \in fhLayers.modified}

\* A hash taken from the cache is no older than what was known when the event was submitted:
\* no layer above the one it comes from had the file marked modified by then, whatever else
\* marks, evicts and hashes meanwhile (dedup.go Process, resolver.go NeedsRehash).
ReuseCurrent ==
    \A c \in FhCallers : fhCalls[c].action = "reuse" =>
        fhCalls[c].mods \intersect LayersAbove(fhChains[fhCalls[c].op.layer], fhCalls[c].src) = {}

\* Between the read of the owner and the checks of the layers above it marks may arrive: even
\* so an event is excluded only if a layer above the file's owner hides it, and one that is
\* hashed or skipped was not hidden, when it was submitted, above the file's owner
\* (resolver.go IsFileVisible).
VisibilityDecided ==
    \A c \in FhCallers :
        LET k == fhCalls[c]
            chain == fhChains[k.op.layer]
        IN  /\ k.action = "exclude" =>
                 \E i \in (OwnerWith(k.mods, chain) + 1)..Len(chain) : Hides(chain[i], k.op.path)
            /\ k.action \in Hashed \union {"skip"} =>
                 \A i \in (OwnerWith(ModsNow(k.op.path), chain) + 1)..Len(chain) : chain[i] \notin k.hides

\* Two workers never hash the same file of the same layer within one session, although
\* neither has recorded its result when the other looks (filter.go TestAndAdd).
OncePerSession ==
    \A c, d \in FhCallers :
        LET a == fhCalls[c] b == fhCalls[d] IN
        (c # d /\ a.action \in Hashed /\ b.action \in Hashed /\ a.op.layer = b.op.layer /\ a.op.path = b.op.path)
            => a.session # b.session

\* Finalize has a leaf for every file whose Submit was answered with a hash, computed or
\* reused, before Finalize was called; leaves of other sessions stay (processor.go Finalize).
FinalizeComplete ==
    \A f \in FhCallers : (fhCalls[f].op.kind = "finalize" /\ fhCalls[f].err \in {"nil", "empty"}) =>
        \A c \in fhCalls[f].before :
            (/\ fhCalls[c].op.kind = "submit" /\ fhCalls[c].action \in Hashed
             /\ fhCalls[c].op.layer = fhCalls[f].op.layer)
                => \E t \in fhCalls[f].leaves : t.path = fhCalls[c].op.path

\* Close drains the channel: when the workers are gone every event that was accepted has been
\* decided, the ones still buffered when the channel was closed included (processor.go Close, worker).
CloseDrains ==
    (\A w \in FhWorkers : fhPool[w].pc = "gone") =>
        /\ fhQueue = << >>
        /\ \A c \in FhCallers :
             (fhCalls[c].op.kind = "async" /\ fhCalls[c].err = "nil") => fhCalls[c].action # "none"

\* A layer registered after its parent's registration has returned stands on the parent's whole
\* chain, whatever other registrations run beside it (processor.go RegisterLayer).
ChainsNested ==
    \A c \in FhCallers :
        LET k == fhCalls[c]
            earlier == {d \in FhCallers : fhCalls[d].op.kind = "register" /\ fhCalls[d].op.layer = k.op.parent}
        IN  (/\ k.op.kind = "register" /\ k.err = "nil" /\ k.op.parent # NoLayerID
             /\ (earlier = {} \/ earlier \intersect k.before # {}))
                => fhChains[k.op.layer] = Append(fhChains[k.op.parent], k.op.layer)

\* Whenever no goroutine of the processor can go on by itself, every call that has begun has
\* returned (every behaviour is finite, so they all do): the Submit that waits for a worker,
\* the sender at a full channel, the Close that waits for the workers.  Only the panic of a
\* send on the closed channel stops them (processor.go Submit, worker, Close).
NobodyStuck ==
    fhCrashed \/ (\A c \in FhCallers : fhCalls[c].pc \in {"idle", "done"}) \/ ENABLED FhProgress

\* One session: a file is hashed once, Finalize has a leaf for each answer given before it,
\* and Close leaves no accepted event undecided.
SessionsSound == OncePerSession /\ FinalizeComplete /\ CloseDrains

\* Hashes: what is reused, excluded and hashed is what was known when the event was submitted,
\* and a layer stands on its parent's whole chain.
HashesSound == FhTypeOK /\ ReuseCurrent /\ VisibilityDecided /\ ChainsNested
=============================================================================
