---------------------------- MODULE FSHashProofs -----------------------------
(***************************************************************************)
(* Proofs about the processor of file hashes (FSHash), for any number of   *)
(* callers, workers, layers and paths and any script of calls.             *)
(***************************************************************************)
EXTENDS FSHash, TLAPS, SequenceTheorems, WellFoundedInduction

CallFields == {"op", "pc", "err", "action", "src", "session", "mods", "hides", "before", "leaves"}
WorkerFields == {"pc", "call", "owner", "cached"}
Busy(w) == fhPool[w].pc \notin {"wait", "gone"}
Queued(c) == \E i \in 1..Len(fhQueue) : fhQueue[i] = c
InFlight(c) == Queued(c) \/ \E w \in FhWorkers : Busy(w) /\ fhPool[w].call = c

(* The shape of the state. *)
FhShape ==
    /\ DOMAIN fhCalls = FhCallers
    /\ \A c \in FhCallers :
          /\ DOMAIN fhCalls[c] = CallFields /\ fhCalls[c].op \in FhOps
          /\ fhCalls[c].op.kind = "register" => fhCalls[c].op.layer # NoLayerID
    /\ DOMAIN fhPool = FhWorkers
    /\ \A w \in FhWorkers : DOMAIN fhPool[w] = WorkerFields /\ (Busy(w) => fhPool[w].call \in FhCallers)
    /\ fhSession \in Nat /\ fhQueue \in Seq(FhCallers)

(* What a call has come to tells whether it has an error. *)
Pending ==
    \A c \in FhCallers :
        /\ fhCalls[c].pc \in {"idle", "begun", "chain", "reset"} => fhCalls[c].err = "none"
        /\ fhCalls[c].pc \in {"idle", "begun"} => fhCalls[c].action = "none"
        /\ fhCalls[c].pc = "reply" => fhCalls[c].op.kind = "submit"
        /\ fhCalls[c].pc \in {"begun", "reply"} /\ fhCalls[c].op.kind \in SendKinds => fhCalls[c].op.layer # NoLayerID

(* An event is in one place: the channel or one worker; nobody has told its *)
(* caller yet how it ended.                                                *)
Flight ==
    /\ \A i, j \in 1..Len(fhQueue) : fhQueue[i] = fhQueue[j] => i = j
    /\ \A v, w \in FhWorkers : Busy(v) /\ Busy(w) /\ fhPool[v].call = fhPool[w].call => v = w
    /\ \A w \in FhWorkers : Busy(w) => ~Queued(fhPool[w].call)
    /\ \A c \in FhCallers : InFlight(c) =>
          /\ fhCalls[c].op.kind \in SendKinds /\ fhCalls[c].op.layer # NoLayerID /\ fhCalls[c].action = "none"
          /\ \/ fhCalls[c].pc = "reply" /\ fhCalls[c].err = "none"
             \/ fhCalls[c].pc = "done" /\ (fhCalls[c].op.kind = "submit" => fhCalls[c].err # "nil")

(* The event has got past the filter: the pair is in the filter until the  *)
(* session ends.                                                           *)
KeyOf(c) == <<fhCalls[c].op.layer, fhCalls[c].op.path>>
Past(c) ==
    \/ fhCalls[c].action \in Hashed
    \/ \E w \in FhWorkers : fhPool[w].pc \in {"lookup", "rehash", "compute", "record"} /\ fhPool[w].call = c
FilterHolds ==
    /\ \A c \in FhCallers : Past(c) => fhCalls[c].session \in 0..fhSession
    /\ \A c \in FhCallers : Past(c) /\ fhCalls[c].session = fhSession => KeyOf(c) \in fhFilter
    /\ \A c, d \in FhCallers :
          c # d /\ Past(c) /\ Past(d) /\ KeyOf(c) = KeyOf(d) => fhCalls[c].session # fhCalls[d].session

(* An event that was accepted is in flight until it is decided; a worker   *)
(* goes only when the channel is empty and shut.                           *)
Accepted ==
    /\ \A c \in FhCallers :
          fhCalls[c].op.kind = "async" /\ fhCalls[c].err = "nil" /\ fhCalls[c].action = "none" => InFlight(c)
    /\ (\E w \in FhWorkers : fhPool[w].pc = "gone") => fhChan = "shut" /\ fhQueue = << >>

(* The tracker has what was hashed; what Finalize read has what was        *)
(* answered before it.                                                     *)
Tracked ==
    /\ \A c \in FhCallers : fhCalls[c].action \in Hashed =>
          \E t \in fhTracker : t.layer = fhCalls[c].op.layer /\ t.path = fhCalls[c].op.path
    /\ \A w \in FhWorkers : fhPool[w].pc = "rehash" => fhPool[w].cached.path = FhEvent(w).path
    /\ \A f \in FhCallers : \A c \in fhCalls[f].before : c \in FhCallers /\ fhCalls[c].pc = "done" /\ fhCalls[c].err = "nil"
    /\ \A f \in FhCallers : fhCalls[f].op.kind = "finalize" /\ (fhCalls[f].pc = "reset" \/ fhCalls[f].err \in {"nil", "empty"}) =>
          \A c \in fhCalls[f].before :
              fhCalls[c].op.kind = "submit" /\ fhCalls[c].action \in Hashed /\ fhCalls[c].op.layer = fhCalls[f].op.layer
                  => \E t \in fhCalls[f].leaves : t.path = fhCalls[c].op.path

CacheTyped == fhCache \in Seq([layer : FhLayers, path : FhPaths, hash : {"path", "data"} \X (FhPaths \union FhContents)])
ChainSeqs == fhChains \in [FhLayers -> Seq(FhLayers)]

SessionInv == FhShape /\ Pending /\ Flight /\ FilterHolds /\ Accepted /\ CacheTyped /\ ChainSeqs /\ Tracked

-----------------------------------------------------------------------------
(* The chain of a layer is built once, by the registration that found the  *)
(* layer unknown.                                                          *)
HasChain(l) == fhChains[l] # << >>
Beyond == {"owner", "visible", "filter", "lookup", "rehash", "compute", "record"}
Chains ==
    /\ DOMAIN fhLayers = {"known", "modified", "deleted", "opaque"} /\ fhLayers.known \subseteq FhLayers
    /\ fhLayers.modified \union fhLayers.deleted \union fhLayers.opaque \subseteq fhLayers.known \X FhPaths
    /\ DOMAIN fhChains = FhLayers
    /\ \A l \in FhLayers : fhChains[l] \in Seq(fhLayers.known) /\ (HasChain(l) => Last(fhChains[l]) = l)
    /\ \A c \in FhCallers : fhCalls[c].op.kind = "register" /\ fhCalls[c].pc = "chain" =>
          /\ fhCalls[c].op.layer \in fhLayers.known /\ ~HasChain(fhCalls[c].op.layer)
          /\ fhCalls[c].op.parent = NoLayerID \/ fhCalls[c].op.parent \in fhLayers.known \ {fhCalls[c].op.layer}
          /\ \A d \in FhCallers \ {c} : ~(fhCalls[d].op.kind = "register" /\ fhCalls[d].pc = "chain" /\ fhCalls[d].op.layer = fhCalls[c].op.layer)
    /\ \A w \in FhWorkers : fhPool[w].pc \in Beyond => HasChain(FhEvent(w).layer)
    /\ \A c \in FhCallers :
          /\ fhCalls[c].action \in Outcomes
          /\ fhCalls[c].action \in Hashed \cup {"skip", "exclude"} => fhCalls[c].op.layer \in FhLayers /\ HasChain(fhCalls[c].op.layer)
          /\ fhCalls[c].op.kind = "register" /\ fhCalls[c].err = "nil" => HasChain(fhCalls[c].op.layer)

(* What a call has seen when it began still is so.                         *)
MarksStay ==
    \A c \in FhCallers :
        /\ fhCalls[c].mods \subseteq ModsNow(fhCalls[c].op.path)
        /\ \A l \in fhCalls[c].hides : Hides(l, fhCalls[c].op.path)

(* What a worker knows of its file between the owner and the hash.         *)
OwnerKnown ==
    \A w \in FhWorkers :
        LET k == fhCalls[fhPool[w].call]
            chain == fhChains[k.op.layer]
        IN  /\ fhPool[w].pc = "visible" =>
                 fhPool[w].owner \in OwnerWith(k.mods, chain)..OwnerWith(ModsNow(k.op.path), chain)
            /\ fhPool[w].pc \in {"filter", "lookup", "rehash", "compute", "record"} =>
                 \A i \in (OwnerWith(ModsNow(k.op.path), chain) + 1)..Len(chain) : chain[i] \notin k.hides
            /\ fhPool[w].pc = "rehash" => fhPool[w].cached.layer \in Range(chain) /\ fhPool[w].cached.path = k.op.path

(* The cache and the tracker hold hashes of paths and contents.            *)
HashTyped(h) == h[2] \in FhPaths \union FhContents
Entries ==
    /\ Len(fhCache) <= FhCapacity /\ Len(fhQueue) <= FhBuffer /\ fhChan \in {"open", "closed", "shut"}
    /\ fhFilter \subseteq FhLayers \X FhPaths
    /\ \A t \in fhTracker : t.layer \in FhLayers /\ HasChain(t.layer) /\ t.src \in Range(fhChains[t.layer]) /\ HashTyped(t.hash)
    /\ \A w \in FhWorkers : fhPool[w].pc = "rehash" => HashTyped(fhPool[w].cached.hash)

HashInv == Chains /\ ChainsNested /\ MarksStay /\ OwnerKnown /\ Entries /\ ReuseCurrent /\ VisibilityDecided

-----------------------------------------------------------------------------
(* A set of natural numbers has a least element; a set of numbers up to n  *)
(* has a greatest.                                                         *)
FhLess == {p \in Nat \X Nat : p[1] < p[2]}
LEMMA LessFacts == \A i, j \in Nat : <<i, j>> \in FhLess <=> i < j
BY DEF FhLess
LEMMA LessWF == IsWellFoundedOn(FhLess, Nat)
<1>1. FhLess = OpToRel(<, Nat)
  BY Zenon DEF FhLess, OpToRel
<1>2. QED
  BY <1>1, NatLessThanWellFounded, Zenon
LEMMA LeastOf == ASSUME NEW T \in SUBSET Nat, T # {} PROVE \E x \in T : \A y \in T : x <= y
<1>1. PICK x \in T : \A y \in T : <<y, x>> \notin FhLess
  BY LessWF, WFMin
<1>2. ASSUME NEW y \in T PROVE x <= y
  <2>1. ~(y < x) /\ x \in Nat /\ y \in Nat
    BY <1>1, <1>2, LessFacts
  <2>2. QED
    BY <2>1
<1>3. QED
  BY <1>2
LEMMA TopOf ==
    ASSUME NEW n \in Nat, NEW T \in SUBSET (1..n), T # {}
    PROVE  FhTop(T) \in T /\ \A y \in T : y <= FhTop(T)
<1> DEFINE U == {n - y : y \in T}
<1>1. U \in SUBSET Nat /\ U # {}
  <2>1. \A y \in T : y \in 1..n /\ n - y \in Nat
    OBVIOUS
  <2>2. U \subseteq Nat
    BY <2>1
  <2>3. PICK y \in T : TRUE
    OBVIOUS
  <2>4. n - y \in U
    OBVIOUS
  <2>5. QED
    BY <2>2, <2>4
<1>2. \E x \in U : \A y \in U : x <= y
  <2> HIDE DEF U
  <2>1. QED
    BY <1>1, LeastOf
<1>a. PICK x \in U : \A y \in U : x <= y
  BY <1>2
<1>3. PICK t \in T : x = n - t
  OBVIOUS
<1>4. ASSUME NEW y \in T PROVE y <= t
  <2>1. n - y \in U /\ t \in Nat /\ y \in Nat
    OBVIOUS
  <2>2. n - t <= n - y
    BY <1>a, <1>3, <2>1
  <2>3. QED
    BY <2>1, <2>2
<1>5. QED
  BY <1>3, <1>4 DEF FhTop

-----------------------------------------------------------------------------
(* What the steps of a call and those of a worker do to the calls and to   *)
(* the workers.                                                            *)
CallAct(c) == FhCallStep(c) \/ FhBegin(c) \/ FhClose(c) \/ FhGiveUp(c)

CallFrame(c) ==
    /\ UNCHANGED <<fhPool, fhCache, fhTracker, fhStats>>
    /\ DOMAIN fhCalls' = FhCallers /\ \A d \in FhCallers : DOMAIN fhCalls'[d] = CallFields
    /\ \A d \in FhCallers \ {c} : fhCalls'[d] = fhCalls[d]
    /\ \A d \in FhCallers : /\ fhCalls'[d].op = fhCalls[d].op /\ fhCalls'[d].action = fhCalls[d].action
                            /\ fhCalls'[d].src = fhCalls[d].src /\ fhCalls'[d].session = fhCalls[d].session

Goes(c, from, to) == fhCalls[c].pc = from /\ fhCalls'[c].pc = to
Begins(c) ==
    /\ Goes(c, "idle", "begun") /\ fhCalls'[c].err = fhCalls[c].err /\ fhCalls'[c].leaves = fhCalls[c].leaves
    /\ fhCalls[c].op.kind \in SendKinds => fhCalls[c].op.layer # NoLayerID
    /\ fhCalls[c].op.kind # "close"
    /\ fhCalls'[c].before = {d \in FhCallers : FhReturned(d) /\ fhCalls[d].err = "nil"}
    /\ fhCalls'[c].mods = {l \in FhLayers : <<l, fhCalls[c].op.path>> \in fhLayers.modified}
    /\ fhCalls'[c].hides = {l \in FhLayers : Hides(l, fhCalls[c].op.path)}
    /\ UNCHANGED <<fhQueue, FhStore>>
Kept3(c) == fhCalls'[c].mods = fhCalls[c].mods /\ fhCalls'[c].hides = fhCalls[c].hides /\ fhCalls'[c].before = fhCalls[c].before
Refused(c) ==
    /\ fhCalls[c].pc \in {"idle", "begun", "reply"} /\ fhCalls'[c].pc = "done" /\ fhCalls[c].op.kind # "close"
    /\ fhCalls'[c].err \in {"closed", "invalid", "exists", "notfound", "cancelled"}
    /\ Kept3(c) /\ fhCalls'[c].leaves = fhCalls[c].leaves /\ UNCHANGED <<fhQueue, FhStore>>
Closes(c) ==
    /\ fhCalls[c].op.kind = "close" /\ fhCalls[c].pc # "done" /\ fhCalls'[c].pc \in {"shut", "wait", "done"} /\ fhCalls'[c].err \in {fhCalls[c].err, "nil"}
    /\ Kept3(c) /\ fhCalls'[c].leaves = fhCalls[c].leaves /\ UNCHANGED <<fhQueue, FhStore>>
Registers1(c) ==
    /\ fhCalls[c].op.kind = "register" /\ Goes(c, "begun", "chain") /\ fhCalls'[c].err = fhCalls[c].err
    /\ Kept3(c) /\ fhCalls'[c].leaves = fhCalls[c].leaves /\ UNCHANGED fhQueue /\ FhRegister(c)
Registers2(c) ==
    /\ fhCalls[c].op.kind = "register" /\ Goes(c, "chain", "done") /\ fhCalls'[c].err = "nil"
    /\ Kept3(c) /\ fhCalls'[c].leaves = fhCalls[c].leaves /\ UNCHANGED fhQueue /\ FhChainBuilt(c)
MarksIt(c) ==
    /\ fhCalls[c].op.kind = "mark" /\ Goes(c, "begun", "done") /\ fhCalls'[c].err = "nil"
    /\ Kept3(c) /\ fhCalls'[c].leaves = fhCalls[c].leaves /\ UNCHANGED fhQueue /\ FhMark(c)
Sends(c) ==
    /\ fhCalls[c].op.kind \in SendKinds /\ fhCalls[c].pc = "begun" /\ fhChan # "shut"
    /\ fhQueue' = Append(fhQueue, c) /\ Len(fhQueue) < FhBuffer
    /\ \/ fhCalls[c].op.kind = "submit" /\ fhCalls'[c].pc = "reply" /\ fhCalls'[c].err = fhCalls[c].err
       \/ fhCalls[c].op.kind = "async" /\ fhCalls'[c].pc = "done" /\ fhCalls'[c].err = "nil"
    /\ Kept3(c) /\ fhCalls'[c].leaves = fhCalls[c].leaves /\ UNCHANGED FhStore
Panics(c) == UNCHANGED <<fhCalls, fhQueue, FhStore>>
Answered(c) ==
    /\ fhCalls[c].op.kind = "submit" /\ Goes(c, "reply", "done") /\ fhCalls[c].err # "none" /\ fhCalls'[c].err = fhCalls[c].err
    /\ Kept3(c) /\ fhCalls'[c].leaves = fhCalls[c].leaves /\ UNCHANGED <<fhQueue, FhStore>>
Finalizes(c) ==
    /\ fhCalls[c].op.kind = "finalize" /\ fhCalls[c].pc = "begun"
    /\ \/ fhCalls'[c].pc = "done" /\ fhCalls'[c].err = "empty" /\ {t \in fhTracker : t.layer = fhCalls[c].op.layer} = {}
       \/ fhCalls'[c].pc = "reset" /\ fhCalls'[c].err = fhCalls[c].err /\ fhCalls'[c].leaves = {t \in fhTracker : t.layer = fhCalls[c].op.layer}
    /\ Kept3(c) /\ UNCHANGED <<fhQueue, FhStore>>
Resets(c) ==
    /\ fhCalls[c].op.kind = "finalize" /\ Goes(c, "reset", "done") /\ fhCalls'[c].err = "nil"
    /\ Kept3(c) /\ fhCalls'[c].leaves = fhCalls[c].leaves /\ UNCHANGED <<fhQueue, FhStore>>
CallMove(c) ==
    \/ Begins(c) \/ Refused(c) \/ Closes(c) \/ Registers1(c) \/ Registers2(c) \/ MarksIt(c)
    \/ Sends(c) \/ Panics(c) \/ Answered(c) \/ Finalizes(c) \/ Resets(c)

LEMMA CallsMove ==
    ASSUME FhShape, NEW c \in FhCallers, CallAct(c)
    PROVE  CallFrame(c) /\ CallMove(c)
<1>0. DOMAIN fhCalls = FhCallers /\ \A d \in FhCallers : DOMAIN fhCalls[d] = CallFields
  BY DEF FhShape
<1>a. \A pc, err : FhReturn(c, err) \/ FhGoto(c, pc) =>
          /\ DOMAIN fhCalls' = FhCallers /\ \A d \in FhCallers : DOMAIN fhCalls'[d] = CallFields
          /\ \A d \in FhCallers \ {c} : fhCalls'[d] = fhCalls[d]
          /\ fhCalls'[c].op = fhCalls[c].op /\ fhCalls'[c].action = fhCalls[c].action /\ fhCalls'[c].src = fhCalls[c].src
          /\ fhCalls'[c].session = fhCalls[c].session /\ Kept3(c) /\ fhCalls'[c].leaves = fhCalls[c].leaves
  BY <1>0 DEF FhReturn, FhGoto, Kept3, CallFields
<1>b. \A err : FhReturn(c, err) => fhCalls'[c].pc = "done" /\ fhCalls'[c].err = err
  BY <1>0 DEF FhReturn, CallFields
<1>c. \A pc : FhGoto(c, pc) => fhCalls'[c].pc = pc /\ fhCalls'[c].err = fhCalls[c].err
  BY <1>0 DEF FhGoto, CallFields
<1>f. ASSUME \/ \E err : FhReturn(c, err)
             \/ \E pc : FhGoto(c, pc)
             \/ fhCalls' = fhCalls,
             UNCHANGED <<fhPool, fhCache, fhTracker, fhStats>>
      PROVE  CallFrame(c)
  <2>1. CASE fhCalls' = fhCalls
    BY <1>0, <1>f, <2>1 DEF CallFrame
  <2>2. QED
    BY <1>a, <1>f, <2>1 DEF CallFrame
<1>1. CASE FhBegin(c)
  <2>1. CASE \E err \in {"closed", "invalid"} : FhReturn(c, err)
    <3>1. UNCHANGED <<fhPool, fhCache, fhTracker, fhStats, fhQueue, FhStore>> /\ fhCalls[c].pc = "idle" /\ fhCalls[c].op.kind # "close"
      BY <1>1 DEF FhBegin, FhAt, FhHashing
    <3>2. Refused(c)
      BY <1>a, <1>b, <2>1, <3>1 DEF Refused
    <3>3. QED
      BY <1>f, <2>1, <3>1, <3>2 DEF CallMove
  <2>2. CASE ~\E err \in {"closed", "invalid"} : FhReturn(c, err)
    <3>1. /\ UNCHANGED <<fhPool, fhCache, fhTracker, fhStats, fhQueue, FhStore>>
          /\ fhCalls[c].pc = "idle" /\ fhCalls[c].op.kind # "close"
          /\ fhCalls[c].op.kind \in SendKinds => fhCalls[c].op.layer # NoLayerID
      BY <1>1, <2>2 DEF FhBegin, FhAt, FhHashing
    <3> DEFINE md == {l \in FhLayers : <<l, fhCalls[c].op.path>> \in fhLayers.modified}
               hd == {l \in FhLayers : Hides(l, fhCalls[c].op.path)}
               bf == {d \in FhCallers : FhReturned(d) /\ fhCalls[d].err = "nil"}
    <3>2. fhCalls' = [fhCalls EXCEPT ![c].pc = "begun", ![c].mods = md, ![c].hides = hd, ![c].before = bf]
      BY <1>1, <2>2 DEF FhBegin
    <3> HIDE DEF md, hd, bf
    <3>3. /\ DOMAIN fhCalls' = FhCallers /\ \A d \in FhCallers : DOMAIN fhCalls'[d] = CallFields
          /\ \A d \in FhCallers \ {c} : fhCalls'[d] = fhCalls[d]
          /\ fhCalls'[c].op = fhCalls[c].op /\ fhCalls'[c].action = fhCalls[c].action /\ fhCalls'[c].src = fhCalls[c].src
          /\ fhCalls'[c].session = fhCalls[c].session /\ fhCalls'[c].leaves = fhCalls[c].leaves /\ fhCalls'[c].err = fhCalls[c].err
          /\ fhCalls'[c].pc = "begun" /\ fhCalls'[c].mods = md /\ fhCalls'[c].hides = hd /\ fhCalls'[c].before = bf
      BY <1>0, <3>2 DEF CallFields
    <3>4. CallFrame(c)
      BY <3>1, <3>3 DEF CallFrame
    <3>5. Begins(c)
      BY <3>1, <3>3 DEF Begins, Goes, md, hd, bf
    <3>6. QED
      BY <3>4, <3>5 DEF CallMove
  <2>3. QED
    BY <2>1, <2>2
<1>2. CASE FhRegister(c)
  <2>1. UNCHANGED <<fhPool, fhCache, fhTracker, fhStats, fhQueue>> /\ fhCalls[c].pc = "begun" /\ fhCalls[c].op.kind = "register"
    BY <1>2 DEF FhRegister, FhAt, FhHashing
  <2>2. CASE \E err \in {"exists", "notfound"} : FhReturn(c, err) /\ UNCHANGED fhLayers
    <3>1. Refused(c)
      BY <1>2, <1>a, <1>b, <2>1, <2>2 DEF Refused, FhRegister, FhStore
    <3>2. QED
      BY <1>f, <2>1, <2>2, <3>1 DEF CallMove
  <2>3. CASE FhGoto(c, "chain")
    <3>1. Registers1(c)
      BY <1>2, <1>a, <1>c, <2>1, <2>3 DEF Registers1, Goes
    <3>2. QED
      BY <1>f, <2>1, <2>3, <3>1 DEF CallMove
  <2>4. QED
    BY <1>2, <2>2, <2>3 DEF FhRegister
<1>3. CASE FhChainBuilt(c)
  <2>1. /\ UNCHANGED <<fhPool, fhCache, fhTracker, fhStats, fhQueue>> /\ fhCalls[c].pc = "chain" /\ fhCalls[c].op.kind = "register"
        /\ FhReturn(c, "nil")
    BY <1>3 DEF FhChainBuilt, FhAt, FhHashing
  <2>2. Registers2(c)
    BY <1>3, <1>a, <1>b, <2>1 DEF Registers2, Goes
  <2>3. QED
    BY <1>f, <2>1, <2>2 DEF CallMove
<1>4. CASE FhMark(c)
  <2>1. UNCHANGED <<fhPool, fhCache, fhTracker, fhStats, fhQueue>> /\ fhCalls[c].pc = "begun" /\ fhCalls[c].op.kind = "mark"
    BY <1>4 DEF FhMark, FhAt, FhHashing
  <2>2. CASE FhReturn(c, "notfound") /\ UNCHANGED fhLayers
    <3>1. Refused(c)
      BY <1>4, <1>a, <1>b, <2>1, <2>2 DEF Refused, FhMark, FhStore
    <3>2. QED
      BY <1>f, <2>1, <2>2, <3>1 DEF CallMove
  <2>3. CASE FhReturn(c, "nil")
    <3>1. MarksIt(c)
      BY <1>4, <1>a, <1>b, <2>1, <2>3 DEF MarksIt, Goes
    <3>2. QED
      BY <1>f, <2>1, <2>3, <3>1 DEF CallMove
  <2>4. QED
    BY <1>4, <2>2, <2>3 DEF FhMark
<1>5. CASE FhSend(c)
  <2>1. UNCHANGED <<fhPool, fhCache, fhTracker, fhStats, FhStore>> /\ fhCalls[c].pc = "begun" /\ fhCalls[c].op.kind \in SendKinds
    BY <1>5 DEF FhSend, FhAt, FhHashing
  <2>2. CASE fhChan = "shut"
    <3>1. fhCalls' = fhCalls /\ Panics(c)
      BY <1>5, <2>1, <2>2 DEF FhSend, Panics
    <3>2. QED
      BY <1>f, <2>1, <3>1 DEF CallMove
  <2>3. CASE fhChan # "shut"
    <3>1. /\ fhQueue' = Append(fhQueue, c) /\ Len(fhQueue) < FhBuffer
          /\ IF fhCalls[c].op.kind = "submit" THEN FhGoto(c, "reply") ELSE FhReturn(c, "nil")
      BY <1>5, <2>3 DEF FhSend
    <3>2. CASE fhCalls[c].op.kind = "submit"
      <4>1. Sends(c)
        BY <1>a, <1>c, <2>1, <2>3, <3>1, <3>2 DEF Sends
      <4>2. QED
        BY <1>f, <2>1, <3>1, <3>2, <4>1 DEF CallMove
    <3>3. CASE fhCalls[c].op.kind # "submit"
      <4>1. Sends(c)
        BY <1>a, <1>b, <2>1, <2>3, <3>1, <3>3 DEF Sends, SendKinds
      <4>2. QED
        BY <1>f, <2>1, <3>1, <3>3, <4>1 DEF CallMove
    <3>4. QED
      BY <3>2, <3>3
  <2>4. QED
    BY <2>2, <2>3
<1>6. CASE FhReply(c)
  <2>1. /\ UNCHANGED <<fhPool, fhCache, fhTracker, fhStats, fhQueue, FhStore>> /\ fhCalls[c].pc = "reply" /\ fhCalls[c].op.kind = "submit"
        /\ fhCalls[c].err # "none" /\ FhGoto(c, "done")
    BY <1>6 DEF FhReply, FhAt, FhHashing
  <2>2. Answered(c)
    BY <1>a, <1>c, <2>1 DEF Answered, Goes
  <2>3. QED
    BY <1>f, <2>1, <2>2 DEF CallMove
<1>7. CASE FhGiveUp(c)
  <2>1. /\ UNCHANGED <<fhPool, fhCache, fhTracker, fhStats, fhQueue, FhStore>> /\ fhCalls[c].pc \in {"begun", "reply"}
        /\ fhCalls[c].op.kind # "close" /\ FhReturn(c, "cancelled")
    BY <1>7 DEF FhGiveUp, FhAt, FhHashing, SendKinds
  <2>2. Refused(c)
    BY <1>a, <1>b, <2>1 DEF Refused
  <2>3. QED
    BY <1>f, <2>1, <2>2 DEF CallMove
<1>8. CASE FhFinalize(c)
  <2> DEFINE found == {t \in fhTracker : t.layer = fhCalls[c].op.layer}
  <2>1. /\ UNCHANGED <<fhPool, fhCache, fhTracker, fhStats, fhQueue, FhStore>> /\ fhCalls[c].pc = "begun"
        /\ fhCalls[c].op.kind = "finalize"
        /\ IF found = {} THEN FhReturn(c, "empty") ELSE fhCalls' = [fhCalls EXCEPT ![c].pc = "reset", ![c].leaves = found]
    BY <1>8 DEF FhFinalize, FhAt, FhHashing
  <2> HIDE DEF found
  <2>2. CASE found = {}
    <3>1. Finalizes(c)
      BY <1>a, <1>b, <2>1, <2>2 DEF Finalizes, found
    <3>2. QED
      BY <1>f, <2>1, <2>2, <3>1 DEF CallMove
  <2>3. CASE found # {}
    <3>1. /\ DOMAIN fhCalls' = FhCallers /\ \A d \in FhCallers : DOMAIN fhCalls'[d] = CallFields
          /\ \A d \in FhCallers \ {c} : fhCalls'[d] = fhCalls[d]
          /\ fhCalls'[c].op = fhCalls[c].op /\ fhCalls'[c].action = fhCalls[c].action /\ fhCalls'[c].src = fhCalls[c].src
          /\ fhCalls'[c].session = fhCalls[c].session /\ fhCalls'[c].leaves = found /\ fhCalls'[c].err = fhCalls[c].err
          /\ fhCalls'[c].pc = "reset" /\ Kept3(c)
      BY <1>0, <2>1, <2>3 DEF CallFields, Kept3
    <3>2. CallFrame(c)
      BY <2>1, <3>1 DEF CallFrame
    <3>3. Finalizes(c)
      BY <2>1, <3>1 DEF Finalizes, found
    <3>4. QED
      BY <3>2, <3>3 DEF CallMove
  <2>4. QED
    BY <2>2, <2>3
<1>9. CASE FhResetSession(c)
  <2>1. /\ UNCHANGED <<fhPool, fhCache, fhTracker, fhStats, fhQueue, FhStore>> /\ fhCalls[c].pc = "reset" /\ fhCalls[c].op.kind = "finalize"
        /\ FhReturn(c, "nil")
    BY <1>9 DEF FhResetSession, FhAt
  <2>2. Resets(c)
    BY <1>a, <1>b, <2>1 DEF Resets, Goes
  <2>3. QED
    BY <1>f, <2>1, <2>2 DEF CallMove
<1>10. CASE FhClose(c) \/ FhShut(c) \/ FhClosed(c)
  <2>1. /\ UNCHANGED <<fhPool, fhCache, fhTracker, fhStats, fhQueue, FhStore>> /\ fhCalls[c].op.kind = "close" /\ fhCalls[c].pc # "done"
        /\ FhReturn(c, "nil") \/ FhGoto(c, "shut") \/ FhGoto(c, "wait")
    BY <1>10 DEF FhClose, FhShut, FhClosed, FhAt, FhHashing
  <2>2. Closes(c)
    BY <1>a, <1>b, <1>c, <2>1 DEF Closes
  <2>3. QED
    BY <1>f, <2>1, <2>2 DEF CallMove
<1>11. QED
  BY <1>1, <1>2, <1>3, <1>4, <1>5, <1>6, <1>7, <1>8, <1>9, <1>10 DEF CallAct, FhCallStep

CallOf(w) == fhPool[w].call
WorkerFrame(w) ==
    /\ DOMAIN fhPool' = FhWorkers /\ \A v \in FhWorkers : DOMAIN fhPool'[v] = WorkerFields
    /\ \A v \in FhWorkers \ {w} : fhPool'[v] = fhPool[v]
    /\ DOMAIN fhCalls' = FhCallers /\ \A d \in FhCallers : DOMAIN fhCalls'[d] = CallFields
    /\ \A d \in FhCallers :
          /\ fhCalls'[d].op = fhCalls[d].op /\ fhCalls'[d].pc = fhCalls[d].pc /\ fhCalls'[d].leaves = fhCalls[d].leaves /\ Kept3(d)
    /\ UNCHANGED <<fhChains, fhChan, fhSession>>
Receives(w) ==
    /\ fhPool[w].pc = "wait" /\ fhPool'[w].pc = "event" /\ fhQueue # << >> /\ fhPool'[w].call = Head(fhQueue)
    /\ fhQueue' = Tail(fhQueue) /\ UNCHANGED <<fhCalls, FhHashing, FhStore>>
Exits(w) ==
    /\ fhPool[w].pc = "wait" /\ fhPool'[w].pc = "gone" /\ fhQueue = << >> /\ fhChan = "shut"
    /\ UNCHANGED <<fhQueue, fhCalls, FhHashing, FhStore>>
GoesOn(w) ==
    /\ Busy(w) /\ fhPool'[w].pc \in Beyond /\ fhPool'[w].call = CallOf(w) /\ UNCHANGED <<fhQueue, FhStore>>
    /\ \A d \in FhCallers : fhCalls'[d].action = fhCalls[d].action /\ fhCalls'[d].err = fhCalls[d].err /\ fhCalls'[d].src = fhCalls[d].src
    /\ \A d \in FhCallers \ {CallOf(w)} : fhCalls'[d] = fhCalls[d]
Finishes(w, act, src, err) ==
    /\ Busy(w) /\ act \in Outcomes \ {"none"} /\ fhPool'[w] = IdleWorker /\ UNCHANGED fhQueue
    /\ fhCalls'[CallOf(w)].action = act /\ fhCalls'[CallOf(w)].src = src
    /\ fhCalls'[CallOf(w)].err = IF fhCalls[CallOf(w)].pc = "reply" THEN err ELSE fhCalls[CallOf(w)].err
    /\ \A d \in FhCallers : fhCalls'[d].session = fhCalls[d].session
    /\ \A d \in FhCallers \ {CallOf(w)} : fhCalls'[d] = fhCalls[d]
WorkerMove(w) == Receives(w) \/ Exits(w) \/ GoesOn(w) \/ \E act, src, err : Finishes(w, act, src, err)

(* The three ways a worker changes: its state alone, the call it has       *)
(* finished, and the session of its call.                                  *)
LEMMA WorkerTo ==
    ASSUME FhShape, NEW w \in FhWorkers, NEW pc \in Beyond \cup {"gone"}, FhTo(w, pc)
    PROVE  /\ DOMAIN fhPool' = FhWorkers /\ \A v \in FhWorkers : DOMAIN fhPool'[v] = WorkerFields
           /\ \A v \in FhWorkers \ {w} : fhPool'[v] = fhPool[v]
           /\ fhPool'[w].pc = pc /\ fhPool'[w].call = CallOf(w) /\ fhPool'[w].owner = fhPool[w].owner /\ fhPool'[w].cached = fhPool[w].cached
BY DEF FhShape, FhTo, WorkerFields, CallOf

LEMMA WorkerFinishes ==
    ASSUME FhShape, NEW w \in FhWorkers, NEW act \in Outcomes \ {"none"}, NEW src, NEW err, FhFinish(w, act, src, err), Busy(w),
           UNCHANGED <<fhQueue, fhChains, fhChan, fhSession>>
    PROVE  WorkerFrame(w) /\ Finishes(w, act, src, err)
<1> DEFINE k == CallOf(w)
           er == IF fhCalls[k].pc = "reply" THEN err ELSE fhCalls[k].err
<1>1. k \in FhCallers /\ DOMAIN fhCalls = FhCallers /\ \A d \in FhCallers : DOMAIN fhCalls[d] = CallFields
  BY DEF FhShape, CallOf
<1>2. fhCalls' = [fhCalls EXCEPT ![k].action = act, ![k].src = src, ![k].err = er]
  BY <1>1 DEF FhFinish, CallOf, CallFields
<1>3. fhPool' = [fhPool EXCEPT ![w] = IdleWorker]
  BY DEF FhFinish
<1>4. DOMAIN IdleWorker = WorkerFields
  BY DEF IdleWorker, WorkerFields
<1>5. /\ DOMAIN fhPool' = FhWorkers /\ \A v \in FhWorkers : DOMAIN fhPool'[v] = WorkerFields
      /\ \A v \in FhWorkers \ {w} : fhPool'[v] = fhPool[v]
      /\ fhPool'[w] = IdleWorker
  BY <1>3, <1>4 DEF FhShape
<1> HIDE DEF k, er
<1>6. /\ DOMAIN fhCalls' = FhCallers /\ \A d \in FhCallers : DOMAIN fhCalls'[d] = CallFields
      /\ \A d \in FhCallers : /\ fhCalls'[d].op = fhCalls[d].op /\ fhCalls'[d].pc = fhCalls[d].pc /\ fhCalls'[d].leaves = fhCalls[d].leaves
                              /\ fhCalls'[d].session = fhCalls[d].session /\ Kept3(d)
      /\ \A d \in FhCallers \ {k} : fhCalls'[d] = fhCalls[d]
      /\ fhCalls'[k].action = act /\ fhCalls'[k].src = src /\ fhCalls'[k].err = er
  BY <1>1, <1>2 DEF CallFields, Kept3
<1>7. WorkerFrame(w)
  BY <1>5, <1>6 DEF WorkerFrame
<1>8. Finishes(w, act, src, err)
  BY <1>5, <1>6 DEF Finishes, k, er
<1>9. QED
  BY <1>7, <1>8

LEMMA WorkersMove ==
    ASSUME FhShape, NEW w \in FhWorkers, FhWorkerStep(w)
    PROVE  WorkerFrame(w) /\ WorkerMove(w)
<1>0. /\ DOMAIN fhCalls = FhCallers /\ \A d \in FhCallers : DOMAIN fhCalls[d] = CallFields
      /\ DOMAIN fhPool = FhWorkers /\ \A v \in FhWorkers : DOMAIN fhPool[v] = WorkerFields
      /\ Busy(w) => CallOf(w) \in FhCallers
  BY DEF FhShape, CallOf
<1>a. ASSUME NEW pc \in Beyond, FhTo(w, pc), Busy(w), UNCHANGED <<fhCalls, fhQueue, FhStore, fhChan, fhSession>>
      PROVE  WorkerFrame(w) /\ GoesOn(w)
  BY <1>a, <1>0, WorkerTo DEF WorkerFrame, GoesOn, Kept3, FhStore
<1>b. ASSUME NEW act \in Outcomes \ {"none"}, NEW src, NEW err, FhFinish(w, act, src, err), Busy(w),
             UNCHANGED <<fhQueue, fhChains, fhChan, fhSession>>
      PROVE  WorkerFrame(w) /\ WorkerMove(w)
  BY <1>b, WorkerFinishes DEF WorkerMove
<1>1. CASE FhReceive(w)
  <2>1. /\ fhPool[w].pc = "wait" /\ fhQueue # << >> /\ fhPool' = [fhPool EXCEPT ![w].pc = "event", ![w].call = Head(fhQueue)]
        /\ fhQueue' = Tail(fhQueue) /\ UNCHANGED <<FhStore, FhHashing, fhChan, fhCalls>>
    BY <1>1 DEF FhReceive, FhWorking
  <2>2. /\ DOMAIN fhPool' = FhWorkers /\ \A v \in FhWorkers : DOMAIN fhPool'[v] = WorkerFields
        /\ \A v \in FhWorkers \ {w} : fhPool'[v] = fhPool[v]
        /\ fhPool'[w].pc = "event" /\ fhPool'[w].call = Head(fhQueue)
    BY <1>0, <2>1 DEF WorkerFields
  <2>3. QED
    BY <1>0, <2>1, <2>2 DEF WorkerFrame, WorkerMove, Receives, Kept3, FhStore, FhHashing
<1>2. CASE FhExit(w)
  <2>1. /\ fhPool[w].pc = "wait" /\ fhQueue = << >> /\ fhChan = "shut" /\ FhTo(w, "gone")
        /\ UNCHANGED <<FhStore, FhHashing, fhQueue, fhChan, fhCalls>>
    BY <1>2 DEF FhExit, FhWorking
  <2>2. QED
    BY <1>0, <2>1, WorkerTo DEF WorkerFrame, WorkerMove, Exits, Kept3, FhStore, FhHashing
<1>3. CASE FhInterpret(w)
  <2>1. Busy(w) /\ UNCHANGED <<fhChains, FhHashing, fhQueue, fhChan>>
    BY <1>3 DEF FhInterpret, FhWorking, Busy
  <2>2. \/ FhFinish(w, "lost", NoLayerID, "notfound") \/ FhFinish(w, "marked", NoLayerID, "nil")
        \/ FhTo(w, "owner") /\ UNCHANGED <<fhLayers, fhCalls>>
    BY <1>3 DEF FhInterpret
  <2>3. QED
    BY <1>a, <1>b, <2>1, <2>2 DEF Outcomes, Beyond, WorkerMove, FhStore, FhHashing
<1>4. CASE FhOwner(w)
  <2>1. /\ fhPool[w].pc = "owner" /\ UNCHANGED <<FhStore, fhSession, fhQueue, fhChan, fhCalls>>
        /\ fhPool' = [fhPool EXCEPT ![w].pc = "visible", ![w].owner = OwnerOf(ChainFor(w), FhEvent(w).path)]
    BY <1>4 DEF FhOwner, FhWorking
  <2>2. /\ DOMAIN fhPool' = FhWorkers /\ \A v \in FhWorkers : DOMAIN fhPool'[v] = WorkerFields
        /\ \A v \in FhWorkers \ {w} : fhPool'[v] = fhPool[v]
        /\ fhPool'[w].pc = "visible" /\ fhPool'[w].call = CallOf(w)
    BY <1>0, <2>1 DEF WorkerFields, CallOf
  <2>3. QED
    BY <1>0, <2>1, <2>2 DEF WorkerFrame, WorkerMove, GoesOn, Kept3, FhStore, Beyond, Busy
<1>5. CASE FhVisible(w)
  <2>1. /\ Busy(w) /\ UNCHANGED <<FhStore, fhSession, fhQueue, fhChan>>
        /\ \/ FhTo(w, "filter") /\ UNCHANGED fhCalls
           \/ FhFinish(w, "exclude", NoLayerID, "nil")
    BY <1>5 DEF FhVisible, FhWorking, Busy
  <2>2. QED
    BY <1>a, <1>b, <2>1 DEF Outcomes, Beyond, WorkerMove, FhStore
<1>6. CASE FhTestAndAdd(w)
  <2>1. /\ fhPool[w].pc = "filter" /\ Busy(w) /\ UNCHANGED <<FhStore, fhSession, fhQueue, fhChan>>
        /\ \/ FhFinish(w, "skip", NoLayerID, "nil")
           \/ fhCalls' = [fhCalls EXCEPT ![fhPool[w].call].session = fhSession] /\ FhTo(w, "lookup")
    BY <1>6 DEF FhTestAndAdd, FhWorking, Busy
  <2>2. CASE FhFinish(w, "skip", NoLayerID, "nil")
    BY <1>b, <2>1, <2>2 DEF Outcomes, FhStore
  <2>3. CASE fhCalls' = [fhCalls EXCEPT ![fhPool[w].call].session = fhSession] /\ FhTo(w, "lookup")
    <3>1. CallOf(w) \in FhCallers /\ fhCalls' = [fhCalls EXCEPT ![CallOf(w)].session = fhSession]
      BY <1>0, <2>1, <2>3 DEF CallOf
    <3>2. /\ DOMAIN fhCalls' = FhCallers /\ \A d \in FhCallers : DOMAIN fhCalls'[d] = CallFields
          /\ \A d \in FhCallers : /\ fhCalls'[d].op = fhCalls[d].op /\ fhCalls'[d].pc = fhCalls[d].pc /\ fhCalls'[d].leaves = fhCalls[d].leaves
                                  /\ fhCalls'[d].action = fhCalls[d].action /\ fhCalls'[d].err = fhCalls[d].err
                                  /\ fhCalls'[d].src = fhCalls[d].src /\ Kept3(d)
          /\ \A d \in FhCallers \ {CallOf(w)} : fhCalls'[d] = fhCalls[d]
      BY <1>0, <3>1 DEF CallFields, Kept3
    <3>3. QED
      BY <1>0, <2>1, <2>3, <3>2, WorkerTo DEF WorkerFrame, WorkerMove, GoesOn, FhStore, Beyond
  <2>4. QED
    BY <2>1, <2>2, <2>3
<1>7. CASE FhLookup(w)
  <2>1. /\ Busy(w) /\ UNCHANGED <<FhStore, fhSession, fhQueue, fhChan, fhCalls>>
        /\ FhTo(w, "compute") \/ fhPool' = [fhPool EXCEPT ![w].pc = "rehash", ![w].cached = fhCache'[1]]
    BY <1>7 DEF FhLookup, FhWorking, Busy
  <2>2. CASE FhTo(w, "compute")
    BY <1>a, <2>1, <2>2 DEF Beyond, WorkerMove
  <2>3. CASE fhPool' = [fhPool EXCEPT ![w].pc = "rehash", ![w].cached = fhCache'[1]]
    <3>1. /\ DOMAIN fhPool' = FhWorkers /\ \A v \in FhWorkers : DOMAIN fhPool'[v] = WorkerFields
          /\ \A v \in FhWorkers \ {w} : fhPool'[v] = fhPool[v]
          /\ fhPool'[w].pc = "rehash" /\ fhPool'[w].call = CallOf(w)
      BY <1>0, <2>3 DEF WorkerFields, CallOf
    <3>2. QED
      BY <1>0, <2>1, <3>1 DEF WorkerFrame, WorkerMove, GoesOn, Kept3, FhStore, Beyond
  <2>4. QED
    BY <2>1, <2>2, <2>3
<1>8. CASE FhResolve(w)
  <2>1. /\ Busy(w) /\ UNCHANGED <<FhStore, fhSession, fhQueue, fhChan>>
        /\ \/ FhTo(w, "compute") /\ UNCHANGED fhCalls
           \/ FhFinish(w, "reuse", fhPool[w].cached.layer, "nil")
    BY <1>8 DEF FhResolve, FhWorking, Busy
  <2>2. QED
    BY <1>a, <1>b, <2>1 DEF Outcomes, Beyond, WorkerMove, FhStore
<1>9. CASE FhCompute(w)
  BY <1>a, <1>9 DEF FhCompute, FhWorking, Busy, Beyond, WorkerMove, FhStore
<1>10. CASE FhRecord(w)
  <2>1. /\ Busy(w) /\ UNCHANGED <<FhStore, fhSession, fhQueue, fhChan>> /\ FhFinish(w, "compute", FhEvent(w).layer, "nil")
    BY <1>10 DEF FhRecord, FhWorking, Busy
  <2>2. QED
    BY <1>b, <2>1 DEF Outcomes, FhStore
<1>11. QED
  BY <1>1, <1>2, <1>3, <1>4, <1>5, <1>6, <1>7, <1>8, <1>9, <1>10 DEF FhWorkerStep

-----------------------------------------------------------------------------
LEMMA StepSplit ==
    ASSUME FhNext
    PROVE  (\E c \in FhCallers : CallAct(c)) \/ (\E w \in FhWorkers : FhWorkerStep(w))
BY DEF FhNext, FhProgress, CallAct

(* Only the end of a session touches the filter outside the workers.       *)
LEMMA SessionMoves ==
    ASSUME NEW c \in FhCallers, CallAct(c)
    PROVE  \/ UNCHANGED <<fhSession, fhFilter>>
           \/ fhSession' = fhSession + 1 /\ fhFilter' = {}
BY DEF CallAct, FhCallStep, FhBegin, FhClose, FhGiveUp, FhRegister, FhChainBuilt, FhMark, FhSend, FhReply, FhFinalize,
       FhResetSession, FhShut, FhClosed, FhHashing

LEMMA QueueMoves ==
    ASSUME FhShape
    PROVE  /\ \A c \in FhCallers : fhQueue' = Append(fhQueue, c) =>
                /\ Len(fhQueue') = Len(fhQueue) + 1 /\ fhQueue' \in Seq(FhCallers)
                /\ \A i \in 1..Len(fhQueue') : fhQueue'[i] = IF i = Len(fhQueue) + 1 THEN c ELSE fhQueue[i]
           /\ fhQueue # << >> /\ fhQueue' = Tail(fhQueue) =>
                /\ Len(fhQueue') = Len(fhQueue) - 1 /\ fhQueue' \in Seq(FhCallers)
                /\ \A i \in 1..Len(fhQueue') : fhQueue'[i] = fhQueue[i + 1]
                /\ Head(fhQueue) = fhQueue[1] /\ Len(fhQueue) > 0 /\ Head(fhQueue) \in FhCallers
           /\ Len(fhQueue) \in Nat
<1>1. fhQueue \in Seq(FhCallers)
  BY DEF FhShape
<1>2. ASSUME NEW c \in FhCallers, fhQueue' = Append(fhQueue, c)
      PROVE  /\ Len(fhQueue') = Len(fhQueue) + 1 /\ fhQueue' \in Seq(FhCallers)
             /\ \A i \in 1..Len(fhQueue') : fhQueue'[i] = IF i = Len(fhQueue) + 1 THEN c ELSE fhQueue[i]
  BY <1>1, <1>2, AppendProperties
<1>3. ASSUME fhQueue # << >>, fhQueue' = Tail(fhQueue)
      PROVE  /\ Len(fhQueue') = Len(fhQueue) - 1 /\ fhQueue' \in Seq(FhCallers)
             /\ \A i \in 1..Len(fhQueue') : fhQueue'[i] = fhQueue[i + 1]
             /\ Head(fhQueue) = fhQueue[1] /\ Len(fhQueue) > 0 /\ Head(fhQueue) \in FhCallers
  BY <1>1, <1>3, HeadTailProperties
<1>4. QED
  BY <1>1, <1>2, <1>3

LEMMA ShapeKept == FhShape /\ FhNext => FhShape'
<1> SUFFICES ASSUME FhShape, FhNext PROVE FhShape'
  OBVIOUS
<1>1. ASSUME NEW c \in FhCallers, CallAct(c) PROVE FhShape'
  <2>1. CallFrame(c) /\ CallMove(c)
    BY <1>1, CallsMove
  <2>2. fhSession' \in Nat
    BY <1>1, SessionMoves DEF FhShape
  <2>3. fhQueue' = fhQueue \/ fhQueue' = Append(fhQueue, c)
    BY <2>1 DEF CallMove, Begins, Refused, Closes, Registers1, Registers2, MarksIt, Sends, Panics, Answered, Finalizes, Resets
  <2>4. fhQueue' \in Seq(FhCallers)
    BY <2>3, QueueMoves DEF FhShape
  <2>5. QED
    BY <2>1, <2>2, <2>4 DEF CallFrame, FhShape, Busy
<1>2. ASSUME NEW w \in FhWorkers, FhWorkerStep(w) PROVE FhShape'
  <2>1. WorkerFrame(w) /\ WorkerMove(w)
    BY <1>2, WorkersMove
  <2>2. fhQueue' \in Seq(FhCallers)
    BY <2>1, QueueMoves DEF FhShape, WorkerMove, Receives, Exits, GoesOn, Finishes
  <2>3. Busy(w)' => fhPool'[w].call \in FhCallers
    <3>1. CASE Receives(w)
      BY <3>1, QueueMoves DEF Receives
    <3>2. CASE Exits(w)
      BY <3>2 DEF Exits, Busy
    <3>3. CASE GoesOn(w)
      BY <3>3 DEF GoesOn, CallOf, FhShape
    <3>4. ASSUME NEW act, NEW src, NEW err, Finishes(w, act, src, err) PROVE ~Busy(w)'
      BY <3>4 DEF Finishes, IdleWorker, Busy
    <3>5. QED
      BY <2>1, <3>1, <3>2, <3>3, <3>4 DEF WorkerMove
  <2>4. \A v \in FhWorkers : Busy(v)' => fhPool'[v].call \in FhCallers
    BY <2>1, <2>3 DEF WorkerFrame, FhShape, Busy
  <2>5. QED
    BY <2>1, <2>2, <2>4 DEF WorkerFrame, FhShape
<1>3. QED
  BY <1>1, <1>2, StepSplit

LEMMA PendingKept == FhShape /\ Pending /\ Flight /\ FhNext => Pending'
<1> SUFFICES ASSUME FhShape, Pending, Flight, FhNext, NEW d \in FhCallers
             PROVE  /\ fhCalls'[d].pc \in {"idle", "begun", "chain", "reset"} => fhCalls'[d].err = "none"
                    /\ fhCalls'[d].pc \in {"idle", "begun"} => fhCalls'[d].action = "none"
                    /\ fhCalls'[d].pc = "reply" => fhCalls'[d].op.kind = "submit"
                    /\ fhCalls'[d].pc \in {"begun", "reply"} /\ fhCalls'[d].op.kind \in SendKinds => fhCalls'[d].op.layer # NoLayerID
  BY DEF Pending
<1>0. /\ fhCalls[d].pc \in {"idle", "begun", "chain", "reset"} => fhCalls[d].err = "none"
      /\ fhCalls[d].pc \in {"idle", "begun"} => fhCalls[d].action = "none"
      /\ fhCalls[d].pc = "reply" => fhCalls[d].op.kind = "submit"
      /\ fhCalls[d].pc \in {"begun", "reply"} /\ fhCalls[d].op.kind \in SendKinds => fhCalls[d].op.layer # NoLayerID
  BY DEF Pending
<1>1. ASSUME NEW c \in FhCallers, CallAct(c), d = c
      PROVE  /\ fhCalls'[d].pc \in {"idle", "begun", "chain", "reset"} => fhCalls'[d].err = "none"
             /\ fhCalls'[d].pc \in {"idle", "begun"} => fhCalls'[d].action = "none"
             /\ fhCalls'[d].pc = "reply" => fhCalls'[d].op.kind = "submit"
             /\ fhCalls'[d].pc \in {"begun", "reply"} /\ fhCalls'[d].op.kind \in SendKinds => fhCalls'[d].op.layer # NoLayerID
  <2>1. CallFrame(c) /\ CallMove(c)
    BY <1>1, CallsMove
  <2>2. CASE Begins(c) \/ Refused(c) \/ Closes(c) \/ Registers1(c)
    BY <1>0, <1>1, <2>1, <2>2 DEF CallFrame, Begins, Refused, Closes, Registers1, Goes
  <2>3. CASE Registers2(c) \/ MarksIt(c) \/ Sends(c)
    BY <1>0, <1>1, <2>1, <2>3 DEF CallFrame, Registers2, MarksIt, Sends, Goes
  <2>4. CASE Panics(c) \/ Answered(c) \/ Finalizes(c) \/ Resets(c)
    BY <1>0, <1>1, <2>1, <2>4 DEF CallFrame, Panics, Answered, Finalizes, Resets, Goes
  <2>5. QED
    BY <2>1, <2>2, <2>3, <2>4 DEF CallMove
<1>2. ASSUME NEW c \in FhCallers, CallAct(c), d # c PROVE fhCalls'[d] = fhCalls[d]
  BY <1>2, CallsMove DEF CallFrame
<1>3. ASSUME NEW w \in FhWorkers, FhWorkerStep(w)
      PROVE  /\ fhCalls'[d].op = fhCalls[d].op /\ fhCalls'[d].pc = fhCalls[d].pc
             /\ \/ fhCalls'[d].err = fhCalls[d].err /\ fhCalls'[d].action = fhCalls[d].action
                \/ fhCalls'[d].pc \in {"reply", "done"}
  <2>1. WorkerFrame(w) /\ WorkerMove(w)
    BY <1>3, WorkersMove
  <2>2. CASE Receives(w) \/ Exits(w) \/ GoesOn(w)
    BY <2>1, <2>2 DEF WorkerFrame, Receives, Exits, GoesOn
  <2>3. ASSUME NEW act, NEW src, NEW err, Finishes(w, act, src, err)
        PROVE  \/ fhCalls'[d] = fhCalls[d]
               \/ fhCalls[d].pc \in {"reply", "done"}
    BY <2>3 DEF Finishes, Flight, InFlight, CallOf
  <2>4. QED
    BY <2>1, <2>2, <2>3 DEF WorkerMove, WorkerFrame
<1>4. QED
  BY <1>0, <1>1, <1>2, <1>3, StepSplit

(* Where events are: only a send adds one, only a worker takes one out.    *)
LEMMA FlightMoves ==
    ASSUME FhShape, FhNext
    PROVE  \A d \in FhCallers : InFlight(d)' => InFlight(d) \/ (Sends(d) /\ CallAct(d))
<1>1. ASSUME NEW c \in FhCallers, CallAct(c), NEW d \in FhCallers, InFlight(d)' PROVE InFlight(d) \/ (Sends(d) /\ CallAct(d))
  <2>1. CallFrame(c) /\ CallMove(c)
    BY <1>1, CallsMove
  <2>2. \A w \in FhWorkers : Busy(w)' <=> Busy(w)
    BY <2>1 DEF CallFrame, Busy
  <2>3. CASE fhQueue' = fhQueue
    BY <1>1, <2>1, <2>2, <2>3 DEF InFlight, Queued, CallFrame
  <2>4. CASE fhQueue' # fhQueue
    <3>1. Sends(c)
      BY <2>1, <2>4 DEF CallMove, Begins, Refused, Closes, Registers1, Registers2, MarksIt, Panics, Answered, Finalizes, Resets
    <3>2. fhQueue' = Append(fhQueue, c)
      BY <3>1 DEF Sends
    <3>3. Queued(d)' => Queued(d) \/ d = c
      BY <3>2, QueueMoves DEF Queued
    <3>4. QED
      BY <1>1, <2>1, <2>2, <3>1, <3>3 DEF InFlight, CallFrame
  <2>5. QED
    BY <2>3, <2>4
<1>2. ASSUME NEW w \in FhWorkers, FhWorkerStep(w), NEW d \in FhCallers, InFlight(d)' PROVE InFlight(d)
  <2>1. WorkerFrame(w) /\ WorkerMove(w)
    BY <1>2, WorkersMove
  <2>2. CASE Receives(w)
    <3>1. fhQueue # << >> /\ fhQueue' = Tail(fhQueue) /\ fhPool'[w].call = Head(fhQueue)
      BY <2>2 DEF Receives
    <3>q. /\ Len(fhQueue') = Len(fhQueue) - 1 /\ \A i \in 1..Len(fhQueue') : fhQueue'[i] = fhQueue[i + 1]
          /\ Head(fhQueue) = fhQueue[1] /\ Len(fhQueue) > 0 /\ Len(fhQueue) \in Nat
      BY <3>1, QueueMoves
    <3>2. Queued(d)' => Queued(d)
      <4> SUFFICES ASSUME NEW i \in 1..Len(fhQueue'), fhQueue'[i] = d PROVE Queued(d)
        BY DEF Queued
      <4>1. i + 1 \in 1..Len(fhQueue) /\ fhQueue[i + 1] = d
        BY <3>q
      <4>2. QED
        BY <4>1 DEF Queued
    <3>3. fhPool'[w].call = d => Queued(d)
      <4>1. 1 \in 1..Len(fhQueue)
        BY <3>q
      <4>2. QED
        BY <3>1, <3>q, <4>1 DEF Queued
    <3>4. QED
      BY <1>2, <2>1, <3>2, <3>3 DEF InFlight, WorkerFrame, Busy
  <2>3. CASE ~Receives(w)
    <3>1. fhQueue' = fhQueue /\ (Busy(w)' => Busy(w) /\ fhPool'[w].call = fhPool[w].call)
      BY <2>1, <2>3 DEF WorkerMove, Exits, GoesOn, Finishes, IdleWorker, Busy, CallOf
    <3>2. QED
      BY <1>2, <2>1, <3>1 DEF InFlight, Queued, WorkerFrame, Busy
  <2>4. QED
    BY <2>2, <2>3
<1>3. QED
  BY <1>1, <1>2, StepSplit

LEMMA LeavesFlight ==
    ASSUME FhShape, Flight, NEW w \in FhWorkers, WorkerFrame(w), NEW act, NEW src, NEW err, Finishes(w, act, src, err),
           NEW c, c = CallOf(w)
    PROVE  c \in FhCallers /\ InFlight(c) /\ ~InFlight(c)'
<1>1. Busy(w) /\ c \in FhCallers /\ InFlight(c)
  BY DEF Finishes, FhShape, InFlight, CallOf
<1>2. ~Busy(w)' /\ fhQueue' = fhQueue
  BY DEF Finishes, IdleWorker, Busy
<1>3. ~Queued(c)'
  BY <1>1, <1>2 DEF Flight, Queued, CallOf
<1>4. \A v \in FhWorkers : ~(Busy(v)' /\ fhPool'[v].call = c)
  BY <1>1, <1>2 DEF Flight, WorkerFrame, Busy, CallOf
<1>5. QED
  BY <1>1, <1>3, <1>4 DEF InFlight

LEMMA FlightKept == FhShape /\ Pending /\ Flight /\ FhNext => Flight'
<1> SUFFICES ASSUME FhShape, Pending, Flight, FhNext PROVE Flight'
  OBVIOUS
<1>f. /\ \A i, j \in 1..Len(fhQueue) : fhQueue[i] = fhQueue[j] => i = j
      /\ \A v, w \in FhWorkers : Busy(v) /\ Busy(w) /\ fhPool[v].call = fhPool[w].call => v = w
      /\ \A w \in FhWorkers : Busy(w) => ~Queued(fhPool[w].call)
  BY DEF Flight
<1>n. /\ \A c \in FhCallers : Sends(c) => ~InFlight(c)
      /\ Len(fhQueue) \in Nat
  BY QueueMoves DEF Flight, Sends
(* The three facts about places. *)
<1>1. ASSUME NEW c \in FhCallers, CallAct(c)
      PROVE  /\ \A i, j \in 1..Len(fhQueue') : fhQueue'[i] = fhQueue'[j] => i = j
             /\ \A v, w \in FhWorkers : Busy(v)' /\ Busy(w)' /\ fhPool'[v].call = fhPool'[w].call => v = w
             /\ \A w \in FhWorkers : Busy(w)' => ~Queued(fhPool[w].call)'
  <2>1. CallFrame(c) /\ CallMove(c)
    BY <1>1, CallsMove
  <2>2. fhPool' = fhPool /\ \A w \in FhWorkers : Busy(w)' = Busy(w)
    BY <2>1 DEF CallFrame, Busy
  <2>3. CASE fhQueue' = fhQueue
    BY <1>f, <2>2, <2>3 DEF Queued
  <2>4. CASE fhQueue' # fhQueue
    <3>1. Sends(c) /\ fhQueue' = Append(fhQueue, c)
      BY <2>1, <2>4 DEF CallMove, Begins, Refused, Closes, Registers1, Registers2, MarksIt, Sends, Panics, Answered, Finalizes, Resets
    <3>2. /\ Len(fhQueue') = Len(fhQueue) + 1
          /\ \A i \in 1..Len(fhQueue') : fhQueue'[i] = IF i = Len(fhQueue) + 1 THEN c ELSE fhQueue[i]
      BY <3>1, QueueMoves
    <3>3. \A i \in 1..Len(fhQueue) : fhQueue[i] # c
      BY <1>n, <3>1 DEF InFlight, Queued
    <3>4. \A w \in FhWorkers : Busy(w) => fhPool[w].call # c
      BY <1>n, <3>1 DEF InFlight
    <3>5. \A i, j \in 1..Len(fhQueue') : fhQueue'[i] = fhQueue'[j] => i = j
      BY <1>f, <1>n, <3>2, <3>3
    <3>6. \A w \in FhWorkers : Busy(w)' => ~Queued(fhPool[w].call)'
      BY <1>f, <1>n, <2>2, <3>2, <3>4 DEF Queued
    <3>7. QED
      BY <1>f, <2>2, <3>5, <3>6
  <2>5. QED
    BY <2>3, <2>4
<1>2. ASSUME NEW w \in FhWorkers, FhWorkerStep(w)
      PROVE  /\ \A i, j \in 1..Len(fhQueue') : fhQueue'[i] = fhQueue'[j] => i = j
             /\ \A u, v \in FhWorkers : Busy(u)' /\ Busy(v)' /\ fhPool'[u].call = fhPool'[v].call => u = v
             /\ \A v \in FhWorkers : Busy(v)' => ~Queued(fhPool[v].call)'
  <2>1. WorkerFrame(w) /\ WorkerMove(w)
    BY <1>2, WorkersMove
  <2>2. \A v \in FhWorkers \ {w} : fhPool'[v] = fhPool[v] /\ Busy(v)' = Busy(v)
    BY <2>1 DEF WorkerFrame, Busy
  <2>3. CASE Receives(w)
    <3>1. fhQueue # << >> /\ fhQueue' = Tail(fhQueue) /\ fhPool'[w].call = Head(fhQueue)
      BY <2>3 DEF Receives
    <3>2. /\ Len(fhQueue') = Len(fhQueue) - 1 /\ \A i \in 1..Len(fhQueue') : fhQueue'[i] = fhQueue[i + 1]
          /\ fhPool'[w].call = fhQueue[1] /\ Len(fhQueue) > 0
      BY <3>1, QueueMoves
    <3>3. \A i, j \in 1..Len(fhQueue') : fhQueue'[i] = fhQueue'[j] => i = j
      BY <1>f, <1>n, <3>2
    <3>4. 1 \in 1..Len(fhQueue) /\ \A v \in FhWorkers \ {w} : Busy(v)' => fhPool'[v].call # fhPool'[w].call
      BY <1>f, <1>n, <2>2, <3>2 DEF Queued
    <3>5. \A v \in FhWorkers \ {w} : Busy(v)' => ~Queued(fhPool[v].call)'
      BY <1>f, <1>n, <2>2, <3>2 DEF Queued
    <3>6. ~Queued(fhPool[w].call)'
      BY <1>f, <1>n, <3>2 DEF Queued
    <3>7. QED
      BY <1>f, <2>2, <3>3, <3>4, <3>5, <3>6
  <2>4. CASE ~Receives(w)
    <3>1. fhQueue' = fhQueue /\ (Busy(w)' => Busy(w) /\ fhPool'[w].call = fhPool[w].call)
      BY <2>1, <2>4 DEF WorkerMove, Exits, GoesOn, Finishes, IdleWorker, Busy, CallOf
    <3>2. \A v \in FhWorkers : Busy(v)' => Busy(v) /\ fhPool'[v].call = fhPool[v].call
      BY <2>2, <3>1
    <3>3. QED
      BY <1>f, <3>1, <3>2 DEF Queued
  <2>5. QED
    BY <2>3, <2>4
(* What is known of the call of an event. *)
<1> DEFINE OK(c) == /\ fhCalls[c].op.kind \in SendKinds /\ fhCalls[c].op.layer # NoLayerID /\ fhCalls[c].action = "none"
                    /\ \/ fhCalls[c].pc = "reply" /\ fhCalls[c].err = "none"
                       \/ fhCalls[c].pc = "done" /\ (fhCalls[c].op.kind = "submit" => fhCalls[c].err # "nil")
<1>k. \A c \in FhCallers : InFlight(c) => OK(c)
  BY DEF Flight
<1>3. ASSUME NEW c \in FhCallers, CallAct(c), NEW d \in FhCallers, InFlight(d)' PROVE OK(d)'
  <2>1. CallFrame(c) /\ CallMove(c)
    BY <1>3, CallsMove
  <2>2. InFlight(d) \/ Sends(d)
    BY <1>3, FlightMoves
  <2>3. CASE d # c
    <3>1. fhCalls'[d] = fhCalls[d]
      BY <2>1, <2>3 DEF CallFrame
    <3>2. ~Sends(d)
      BY <2>1, <3>1 DEF Sends
    <3>3. QED
      BY <1>k, <2>2, <3>1, <3>2
  <2>4. CASE d = c /\ Sends(c)
    <3>1. fhCalls[c].err = "none" /\ fhCalls[c].action = "none" /\ fhCalls[c].op.layer # NoLayerID
      BY <2>4 DEF Pending, Sends
    <3>2. fhCalls'[c].op = fhCalls[c].op /\ fhCalls'[c].action = fhCalls[c].action
      BY <2>1 DEF CallFrame
    <3>3. QED
      BY <2>4, <3>1, <3>2 DEF Sends, SendKinds
  <2>5. CASE d = c /\ ~Sends(c)
    <3>1. OK(c)
      BY <1>k, <2>2, <2>5
    <3>2. fhCalls'[c].op = fhCalls[c].op /\ fhCalls'[c].action = fhCalls[c].action
      BY <2>1 DEF CallFrame
    <3>3. CASE Refused(c)
      BY <2>5, <3>1, <3>2, <3>3 DEF Refused
    <3>4. CASE Panics(c)
      BY <2>5, <3>1, <3>2, <3>4 DEF Panics
    <3>5. ~Begins(c) /\ ~Closes(c) /\ ~Registers1(c) /\ ~Registers2(c) /\ ~MarksIt(c) /\ ~Answered(c) /\ ~Finalizes(c) /\ ~Resets(c)
      BY <3>1 DEF Begins, Goes, Closes, Registers1, Registers2, MarksIt, Answered, Finalizes, Resets, SendKinds
    <3>6. QED
      BY <2>1, <2>5, <3>3, <3>4, <3>5 DEF CallMove
  <2>6. QED
    BY <2>3, <2>4, <2>5
<1>4. ASSUME NEW w \in FhWorkers, FhWorkerStep(w), NEW d \in FhCallers, InFlight(d)' PROVE OK(d)'
  <2>1. WorkerFrame(w) /\ WorkerMove(w)
    BY <1>4, WorkersMove
  <2>2. fhCalls'[d].op = fhCalls[d].op /\ fhCalls'[d].pc = fhCalls[d].pc
    BY <2>1 DEF WorkerFrame
  <2>3. InFlight(d)
    BY <1>4, <2>2, FlightMoves DEF Sends
  <2>4. fhCalls'[d].action = fhCalls[d].action /\ fhCalls'[d].err = fhCalls[d].err
    <3>1. CASE Receives(w) \/ Exits(w) \/ GoesOn(w)
      BY <3>1 DEF Receives, Exits, GoesOn
    <3>2. ASSUME NEW act, NEW src, NEW err, Finishes(w, act, src, err)
          PROVE  fhCalls'[d] = fhCalls[d]
      <4>1. d # CallOf(w)
        BY <1>4, <2>1, <3>2, LeavesFlight
      <4>2. QED
        BY <3>2, <4>1 DEF Finishes
    <3>3. QED
      BY <2>1, <3>1, <3>2 DEF WorkerMove
  <2>5. QED
    BY <1>k, <2>2, <2>3, <2>4
<1>5. \A c \in FhCallers : InFlight(c)' => OK(c)'
  BY <1>3, <1>4, StepSplit
<1>6. QED
  BY <1>1, <1>2, <1>5, StepSplit DEF Flight

PastPcs == {"lookup", "rehash", "compute", "record"}
Passes(w) ==
    /\ Busy(w) /\ fhPool'[w].pc = "lookup" /\ fhPool'[w].call = CallOf(w)
    /\ KeyOf(CallOf(w)) \notin fhFilter /\ fhFilter' = fhFilter \union {KeyOf(CallOf(w))}
    /\ fhCalls'[CallOf(w)].session = fhSession
    /\ \A d \in FhCallers : fhCalls'[d].action = fhCalls[d].action
    /\ \A d \in FhCallers \ {CallOf(w)} : fhCalls'[d] = fhCalls[d]
GoesPast(w) ==
    /\ fhFilter \subseteq fhFilter' /\ \A d \in FhCallers : fhCalls'[d].session = fhCalls[d].session
    /\ fhPool'[w].pc \in PastPcs => fhPool[w].pc \in PastPcs /\ fhPool'[w].call = fhPool[w].call
    /\ \A d \in FhCallers : fhCalls'[d].action \in Hashed =>
          fhCalls[d].action \in Hashed \/ (d = fhPool[w].call /\ fhPool[w].pc \in PastPcs)
LEMMA WorkersPast ==
    ASSUME FhShape, NEW w \in FhWorkers, FhWorkerStep(w)
    PROVE  Passes(w) \/ GoesPast(w)
<1>0. /\ DOMAIN fhCalls = FhCallers /\ \A d \in FhCallers : DOMAIN fhCalls[d] = CallFields
      /\ DOMAIN fhPool = FhWorkers /\ \A v \in FhWorkers : DOMAIN fhPool[v] = WorkerFields
      /\ Busy(w) => CallOf(w) \in FhCallers
  BY DEF FhShape, CallOf
<1>a. ASSUME NEW pc \in Beyond \cup {"gone"}, FhTo(w, pc), UNCHANGED <<fhCalls, fhFilter>>, pc \in PastPcs => fhPool[w].pc \in PastPcs
      PROVE  GoesPast(w)
  BY <1>a, <1>0, WorkerTo DEF GoesPast, CallOf
<1>b. ASSUME NEW act \in Outcomes \ {"none"}, NEW src, NEW err, FhFinish(w, act, src, err), Busy(w),
             UNCHANGED <<fhQueue, fhChains, fhChan, fhSession>>, fhFilter \subseteq fhFilter', act \in Hashed => fhPool[w].pc \in PastPcs
      PROVE  GoesPast(w)
  <2>1. WorkerFrame(w) /\ Finishes(w, act, src, err)
    BY <1>b, WorkerFinishes
  <2>2. fhPool'[w].pc \notin PastPcs
    BY <2>1 DEF Finishes, IdleWorker, PastPcs
  <2>3. QED
    BY <1>b, <2>1, <2>2 DEF GoesPast, Finishes, CallOf
<1>1. CASE FhReceive(w)
  <2>1. fhPool' = [fhPool EXCEPT ![w].pc = "event", ![w].call = Head(fhQueue)] /\ UNCHANGED <<fhCalls, fhFilter>>
    BY <1>1 DEF FhReceive, FhHashing
  <2>2. fhPool'[w].pc = "event"
    BY <1>0, <2>1 DEF WorkerFields
  <2>3. QED
    BY <2>1, <2>2 DEF GoesPast, PastPcs
<1>2. CASE FhExit(w)
  BY <1>2, <1>a DEF FhExit, FhHashing, PastPcs
<1>3. CASE FhInterpret(w)
  <2>1. Busy(w) /\ UNCHANGED <<fhQueue, fhChains, fhChan, fhSession, fhFilter>>
    BY <1>3 DEF FhInterpret, FhWorking, Busy, FhHashing
  <2>2. \/ FhFinish(w, "lost", NoLayerID, "notfound") \/ FhFinish(w, "marked", NoLayerID, "nil")
        \/ FhTo(w, "owner") /\ UNCHANGED fhCalls
    BY <1>3 DEF FhInterpret
  <2>3. QED
    BY <1>a, <1>b, <2>1, <2>2 DEF Outcomes, Beyond, PastPcs, Hashed
<1>4. CASE FhOwner(w)
  <2>1. UNCHANGED <<fhFilter, fhCalls>>
        /\ fhPool' = [fhPool EXCEPT ![w].pc = "visible", ![w].owner = OwnerOf(ChainFor(w), FhEvent(w).path)]
    BY <1>4 DEF FhOwner
  <2>2. fhPool'[w].pc = "visible"
    BY <1>0, <2>1 DEF WorkerFields
  <2>3. QED
    BY <2>1, <2>2 DEF GoesPast, PastPcs
<1>5. CASE FhVisible(w)
  <2>1. /\ Busy(w) /\ UNCHANGED <<fhQueue, fhChains, fhChan, fhSession, fhFilter>>
        /\ \/ FhTo(w, "filter") /\ UNCHANGED fhCalls
           \/ FhFinish(w, "exclude", NoLayerID, "nil")
    BY <1>5 DEF FhVisible, FhWorking, Busy, FhStore
  <2>2. QED
    BY <1>a, <1>b, <2>1 DEF Outcomes, Beyond, PastPcs, Hashed
<1>6. CASE FhTestAndAdd(w)
  <2> DEFINE key == KeyOf(CallOf(w))
  <2>1. /\ fhPool[w].pc = "filter" /\ Busy(w) /\ UNCHANGED <<fhQueue, fhChains, fhChan, fhSession>>
        /\ fhFilter' = fhFilter \union {key}
        /\ \E present \in Present(key) :
              IF present THEN FhFinish(w, "skip", NoLayerID, "nil")
              ELSE fhCalls' = [fhCalls EXCEPT ![fhPool[w].call].session = fhSession] /\ FhTo(w, "lookup")
    BY <1>6 DEF FhTestAndAdd, FhWorking, Busy, FhStore, KeyOf, CallOf, FhEvent
  <2>2. CASE FhFinish(w, "skip", NoLayerID, "nil")
    BY <1>b, <2>1, <2>2 DEF Outcomes, Hashed
  <2>3. CASE ~FhFinish(w, "skip", NoLayerID, "nil")
    <3>1. fhCalls' = [fhCalls EXCEPT ![CallOf(w)].session = fhSession] /\ FhTo(w, "lookup") /\ CallOf(w) \in FhCallers
      BY <1>0, <2>1, <2>3 DEF CallOf
    <3>2. key \notin fhFilter
      BY <2>1, <2>3 DEF Present
    <3>3. /\ fhCalls'[CallOf(w)].session = fhSession
          /\ \A d \in FhCallers : fhCalls'[d].action = fhCalls[d].action
          /\ \A d \in FhCallers \ {CallOf(w)} : fhCalls'[d] = fhCalls[d]
      BY <1>0, <3>1 DEF CallFields
    <3>4. fhPool'[w].pc = "lookup" /\ fhPool'[w].call = CallOf(w)
      BY <3>1, WorkerTo DEF Beyond
    <3>5. QED
      BY <2>1, <3>2, <3>3, <3>4 DEF Passes
  <2>4. QED
    BY <2>2, <2>3
<1>7. CASE FhLookup(w)
  <2>1. /\ fhPool[w].pc = "lookup" /\ UNCHANGED <<fhFilter, fhCalls>>
        /\ FhTo(w, "compute") \/ fhPool' = [fhPool EXCEPT ![w].pc = "rehash", ![w].cached = fhCache'[1]]
    BY <1>7 DEF FhLookup, FhWorking
  <2>2. CASE FhTo(w, "compute")
    BY <1>a, <2>1, <2>2 DEF Beyond, PastPcs
  <2>3. CASE fhPool' = [fhPool EXCEPT ![w].pc = "rehash", ![w].cached = fhCache'[1]]
    <3>1. fhPool'[w].call = fhPool[w].call
      BY <1>0, <2>3 DEF WorkerFields
    <3>2. QED
      BY <2>1, <3>1 DEF GoesPast, PastPcs
  <2>4. QED
    BY <2>1, <2>2, <2>3
<1>8. CASE FhResolve(w)
  <2>1. /\ fhPool[w].pc = "rehash" /\ Busy(w) /\ UNCHANGED <<fhQueue, fhChains, fhChan, fhSession, fhFilter>>
        /\ \/ FhTo(w, "compute") /\ UNCHANGED fhCalls
           \/ FhFinish(w, "reuse", fhPool[w].cached.layer, "nil")
    BY <1>8 DEF FhResolve, FhWorking, Busy, FhStore
  <2>2. QED
    BY <1>a, <1>b, <2>1 DEF Outcomes, Beyond, PastPcs
<1>9. CASE FhCompute(w)
  <2>1. fhPool[w].pc = "compute" /\ FhTo(w, "record") /\ UNCHANGED <<fhCalls, fhFilter>>
    BY <1>9 DEF FhCompute, FhWorking
  <2>2. QED
    BY <1>a, <2>1 DEF Beyond, PastPcs
<1>10. CASE FhRecord(w)
  <2>1. /\ fhPool[w].pc = "record" /\ Busy(w) /\ UNCHANGED <<fhQueue, fhChains, fhChan, fhSession, fhFilter>>
        /\ FhFinish(w, "compute", FhEvent(w).layer, "nil")
    BY <1>10 DEF FhRecord, FhWorking, Busy, FhStore
  <2>2. QED
    BY <1>b, <2>1 DEF Outcomes, PastPcs
<1>11. QED
  BY <1>1, <1>2, <1>3, <1>4, <1>5, <1>6, <1>7, <1>8, <1>9, <1>10 DEF FhWorkerStep

LEMMA FilterKept == FhShape /\ Flight /\ FilterHolds /\ FhNext => FilterHolds'
<1> SUFFICES ASSUME FhShape, Flight, FilterHolds, FhNext PROVE FilterHolds'
  OBVIOUS
<1>f. /\ \A c \in FhCallers : Past(c) => fhCalls[c].session \in 0..fhSession
      /\ \A c \in FhCallers : Past(c) /\ fhCalls[c].session = fhSession => KeyOf(c) \in fhFilter
      /\ \A c, d \in FhCallers :
            c # d /\ Past(c) /\ Past(d) /\ KeyOf(c) = KeyOf(d) => fhCalls[c].session # fhCalls[d].session
      /\ fhSession \in Nat
  BY DEF FilterHolds, FhShape
<1>1. ASSUME NEW c \in FhCallers, CallAct(c) PROVE FilterHolds'
  <2>1. /\ fhPool' = fhPool
        /\ \A d \in FhCallers : /\ fhCalls'[d].op = fhCalls[d].op /\ fhCalls'[d].action = fhCalls[d].action
                                /\ fhCalls'[d].session = fhCalls[d].session
    BY <1>1, CallsMove DEF CallFrame
  <2>2. \A d \in FhCallers : Past(d)' = Past(d) /\ KeyOf(d)' = KeyOf(d)
    BY <2>1 DEF Past, KeyOf
  <2>3. CASE UNCHANGED <<fhSession, fhFilter>>
    BY <1>f, <2>1, <2>2, <2>3 DEF FilterHolds
  <2>4. CASE fhSession' = fhSession + 1 /\ fhFilter' = {}
    <3>1. \A d \in FhCallers : Past(d)' => fhCalls'[d].session \in 0..fhSession' /\ fhCalls'[d].session # fhSession'
      BY <1>f, <2>1, <2>2, <2>4
    <3>2. QED
      BY <1>f, <2>1, <2>2, <3>1 DEF FilterHolds
  <2>5. QED
    BY <1>1, <2>3, <2>4, SessionMoves
<1>2. ASSUME NEW w \in FhWorkers, FhWorkerStep(w) PROVE FilterHolds'
  <2>1. /\ fhSession' = fhSession /\ \A v \in FhWorkers \ {w} : fhPool'[v] = fhPool[v]
        /\ \A d \in FhCallers : fhCalls'[d].op = fhCalls[d].op
    BY <1>2, WorkersMove DEF WorkerFrame
  <2>2. \A d \in FhCallers : KeyOf(d)' = KeyOf(d)
    BY <2>1 DEF KeyOf
  <2>3. CASE Passes(w)
    <3> DEFINE k == CallOf(w)
    <3>1. k \in FhCallers /\ KeyOf(k) \notin fhFilter /\ fhFilter' = fhFilter \union {KeyOf(k)} /\ fhCalls'[k].session = fhSession
      BY <2>3 DEF Passes, FhShape, CallOf
    <3>2. \A d \in FhCallers \ {k} : fhCalls'[d] = fhCalls[d] /\ (Past(d)' => Past(d))
      BY <2>1, <2>3 DEF Passes, Past
    <3> HIDE DEF k
    <3>3. \A d \in FhCallers \ {k} : Past(d)' /\ fhCalls'[d].session = fhSession => KeyOf(d) # KeyOf(k)
      BY <1>f, <3>1, <3>2
    <3>4. \A d \in FhCallers : Past(d)' => fhCalls'[d].session \in 0..fhSession'
      BY <1>f, <2>1, <3>1, <3>2
    <3>5. \A d \in FhCallers : Past(d)' /\ fhCalls'[d].session = fhSession' => KeyOf(d)' \in fhFilter'
      BY <1>f, <2>1, <2>2, <3>1, <3>2
    <3>6. ASSUME NEW c \in FhCallers, NEW d \in FhCallers, c # d, Past(c)', Past(d)', KeyOf(c)' = KeyOf(d)'
          PROVE  fhCalls'[c].session # fhCalls'[d].session
      <4>1. CASE c = k
        BY <2>2, <3>1, <3>3, <3>6, <4>1
      <4>2. CASE d = k
        BY <2>2, <3>1, <3>3, <3>6, <4>2
      <4>3. CASE c # k /\ d # k
        BY <1>f, <2>2, <3>2, <3>6, <4>3
      <4>4. QED
        BY <4>1, <4>2, <4>3
    <3>7. QED
      BY <3>4, <3>5, <3>6 DEF FilterHolds
  <2>4. CASE GoesPast(w)
    <3>1. \A d \in FhCallers : Past(d)' => Past(d)
      BY <2>1, <2>4 DEF GoesPast, Past, PastPcs
    <3>2. fhFilter \subseteq fhFilter' /\ \A d \in FhCallers : fhCalls'[d].session = fhCalls[d].session
      BY <2>4 DEF GoesPast
    <3>3. QED
      BY <1>f, <2>1, <2>2, <3>1, <3>2 DEF FilterHolds
  <2>5. QED
    BY <1>2, <2>3, <2>4, WorkersPast
<1>3. QED
  BY <1>1, <1>2, StepSplit

(* An event that was accepted stays in flight until it has been decided.   *)
LEMMA FlightStays ==
    ASSUME FhShape, FhNext, NEW d \in FhCallers, InFlight(d)
    PROVE  InFlight(d)' \/ fhCalls'[d].action # "none"
<1>1. ASSUME NEW c \in FhCallers, CallAct(c) PROVE InFlight(d)'
  <2>1. CallFrame(c) /\ CallMove(c)
    BY <1>1, CallsMove
  <2>2. fhPool' = fhPool
    BY <2>1 DEF CallFrame
  <2>3. CASE fhQueue' = fhQueue
    BY <2>2, <2>3 DEF InFlight, Queued, Busy
  <2>4. CASE fhQueue' # fhQueue
    <3>1. fhQueue' = Append(fhQueue, c)
      BY <2>1, <2>4 DEF CallMove, Begins, Refused, Closes, Registers1, Registers2, MarksIt, Sends, Panics, Answered, Finalizes, Resets
    <3>2. Queued(d) => Queued(d)'
      <4> SUFFICES ASSUME NEW i \in 1..Len(fhQueue), fhQueue[i] = d PROVE Queued(d)'
        BY DEF Queued
      <4>1. i \in 1..Len(fhQueue') /\ fhQueue'[i] = d
        BY <3>1, QueueMoves
      <4>2. QED
        BY <4>1 DEF Queued
    <3>3. QED
      BY <2>2, <3>2 DEF InFlight, Busy
  <2>5. QED
    BY <2>3, <2>4
<1>2. ASSUME NEW w \in FhWorkers, FhWorkerStep(w) PROVE InFlight(d)' \/ fhCalls'[d].action # "none"
  <2>1. WorkerFrame(w) /\ WorkerMove(w)
    BY <1>2, WorkersMove
  <2>2. \A v \in FhWorkers \ {w} : fhPool'[v] = fhPool[v] /\ Busy(v)' = Busy(v)
    BY <2>1 DEF WorkerFrame, Busy
  <2>3. CASE Receives(w)
    <3>1. fhQueue # << >> /\ fhQueue' = Tail(fhQueue) /\ fhPool'[w].call = Head(fhQueue) /\ Busy(w)' /\ ~Busy(w)
      BY <2>3 DEF Receives, Busy
    <3>2. /\ Len(fhQueue') = Len(fhQueue) - 1 /\ \A i \in 1..Len(fhQueue') : fhQueue'[i] = fhQueue[i + 1]
          /\ fhPool'[w].call = fhQueue[1] /\ Len(fhQueue) > 0 /\ Len(fhQueue) \in Nat
      BY <3>1, QueueMoves
    <3>3. ASSUME NEW i \in 1..Len(fhQueue), fhQueue[i] = d PROVE InFlight(d)'
      <4>1. CASE i = 1
        BY <3>1, <3>2, <3>3, <4>1 DEF InFlight
      <4>2. CASE i # 1
        <5>1. i - 1 \in 1..Len(fhQueue') /\ fhQueue'[i - 1] = d
          BY <3>2, <3>3, <4>2
        <5>2. QED
          BY <5>1 DEF InFlight, Queued
      <4>3. QED
        BY <4>1, <4>2
    <3>4. QED
      BY <2>2, <3>1, <3>3 DEF InFlight, Queued
  <2>4. CASE Exits(w) \/ GoesOn(w)
    <3>1. fhQueue' = fhQueue /\ (Busy(w) => Busy(w)' /\ fhPool'[w].call = fhPool[w].call)
      BY <2>4 DEF Exits, GoesOn, Busy, CallOf, Beyond
    <3>2. QED
      BY <2>2, <3>1 DEF InFlight, Queued
  <2>5. ASSUME NEW act, NEW src, NEW err, Finishes(w, act, src, err) PROVE InFlight(d)' \/ fhCalls'[d].action # "none"
    <3>1. CASE d = CallOf(w)
      BY <2>5, <3>1 DEF Finishes
    <3>2. CASE d # CallOf(w)
      BY <2>2, <2>5, <3>2 DEF Finishes, InFlight, Queued, CallOf
    <3>3. QED
      BY <3>1, <3>2
  <2>6. QED
    BY <2>1, <2>3, <2>4, <2>5 DEF WorkerMove
<1>3. QED
  BY <1>1, <1>2, StepSplit

LEMMA ChanMoves ==
    ASSUME NEW c \in FhCallers, CallAct(c), fhChan = "shut"
    PROVE  fhChan' = "shut"
BY DEF CallAct, FhCallStep, FhBegin, FhClose, FhGiveUp, FhRegister, FhChainBuilt, FhMark, FhSend, FhReply, FhFinalize,
       FhResetSession, FhShut, FhClosed

LEMMA AcceptedKept == FhShape /\ Pending /\ Flight /\ Accepted /\ FhNext => Accepted'
<1> SUFFICES ASSUME FhShape, Pending, Flight, Accepted, FhNext PROVE Accepted'
  OBVIOUS
<1>a. /\ \A c \in FhCallers : fhCalls[c].op.kind = "async" /\ fhCalls[c].err = "nil" /\ fhCalls[c].action = "none" => InFlight(c)
      /\ (\E w \in FhWorkers : fhPool[w].pc = "gone") => fhChan = "shut" /\ fhQueue = << >>
  BY DEF Accepted
<1>1. ASSUME NEW d \in FhCallers, fhCalls'[d].op.kind = "async", fhCalls'[d].err = "nil", fhCalls'[d].action = "none"
      PROVE  InFlight(d)'
  <2>1. ASSUME NEW c \in FhCallers, CallAct(c)
        PROVE  InFlight(d)' \/ (fhCalls[d].op.kind = "async" /\ fhCalls[d].err = "nil" /\ fhCalls[d].action = "none")
    <3>1. CallFrame(c) /\ CallMove(c)
      BY <2>1, CallsMove
    <3>2. fhCalls'[d].op = fhCalls[d].op /\ fhCalls'[d].action = fhCalls[d].action
      BY <3>1 DEF CallFrame
    <3>3. CASE d # c
      BY <1>1, <3>1, <3>3 DEF CallFrame
    <3>4. CASE d = c /\ Sends(c)
      <4>1. fhQueue' = Append(fhQueue, c)
        BY <3>4 DEF Sends
      <4>2. Len(fhQueue') \in 1..Len(fhQueue') /\ fhQueue'[Len(fhQueue')] = c
        BY <4>1, QueueMoves
      <4>3. QED
        BY <3>4, <4>2 DEF InFlight, Queued
    <3>5. CASE d = c /\ ~Sends(c)
      <4>1. ~Refused(c) /\ ~Closes(c) /\ ~Registers2(c) /\ ~MarksIt(c) /\ ~Finalizes(c) /\ ~Resets(c)
        BY <1>1, <3>2, <3>5 DEF Refused, Closes, Registers2, MarksIt, Finalizes, Resets
      <4>2. fhCalls'[c].err = fhCalls[c].err
        BY <3>1, <3>5, <4>1 DEF CallMove, Begins, Registers1, Panics, Answered
      <4>3. QED
        BY <1>1, <3>2, <3>5, <4>2
    <3>6. QED
      BY <3>3, <3>4, <3>5
  <2>2. ASSUME NEW w \in FhWorkers, FhWorkerStep(w)
        PROVE  fhCalls[d].op.kind = "async" /\ fhCalls[d].err = "nil" /\ fhCalls[d].action = "none"
    <3>1. WorkerFrame(w) /\ WorkerMove(w)
      BY <2>2, WorkersMove
    <3>2. fhCalls'[d].op = fhCalls[d].op
      BY <3>1 DEF WorkerFrame
    <3>3. CASE Receives(w) \/ Exits(w) \/ GoesOn(w)
      BY <1>1, <3>2, <3>3 DEF Receives, Exits, GoesOn
    <3>4. ASSUME NEW act, NEW src, NEW err, Finishes(w, act, src, err) PROVE fhCalls'[d] = fhCalls[d]
      BY <1>1, <3>4 DEF Finishes
    <3>5. QED
      BY <1>1, <3>1, <3>2, <3>3, <3>4 DEF WorkerMove
  <2>3. QED
    BY <1>1, <1>a, <2>1, <2>2, FlightStays, StepSplit
<1>2. ASSUME NEW v \in FhWorkers, fhPool'[v].pc = "gone" PROVE fhChan' = "shut" /\ fhQueue' = << >>
  <2>1. ASSUME NEW c \in FhCallers, CallAct(c) PROVE fhChan' = "shut" /\ fhQueue' = << >>
    <3>1. CallFrame(c) /\ CallMove(c)
      BY <2>1, CallsMove
    <3>2. fhChan = "shut" /\ fhQueue = << >>
      BY <1>2, <1>a, <3>1 DEF CallFrame
    <3>3. ~Sends(c)
      BY <3>2 DEF Sends
    <3>4. QED
      BY <2>1, <3>1, <3>2, <3>3, ChanMoves
         DEF CallMove, Begins, Refused, Closes, Registers1, Registers2, MarksIt, Panics, Answered, Finalizes, Resets
  <2>2. ASSUME NEW w \in FhWorkers, FhWorkerStep(w) PROVE fhChan' = "shut" /\ fhQueue' = << >>
    <3>1. WorkerFrame(w) /\ WorkerMove(w)
      BY <2>2, WorkersMove
    <3>2. fhChan' = fhChan /\ (v # w => fhPool'[v] = fhPool[v])
      BY <3>1 DEF WorkerFrame
    <3>3. CASE Receives(w)
      BY <1>2, <1>a, <3>2, <3>3 DEF Receives
    <3>4. CASE Exits(w)
      BY <3>2, <3>4 DEF Exits
    <3>5. CASE GoesOn(w)
      BY <1>2, <1>a, <3>2, <3>5 DEF GoesOn, Beyond
    <3>6. ASSUME NEW act, NEW src, NEW err, Finishes(w, act, src, err) PROVE fhChan' = "shut" /\ fhQueue' = << >>
      BY <1>2, <1>a, <3>2, <3>6 DEF Finishes, IdleWorker
    <3>7. QED
      BY <3>1, <3>3, <3>4, <3>5, <3>6 DEF WorkerMove
  <2>3. QED
    BY <2>1, <2>2, StepSplit
<1>3. QED
  BY <1>1, <1>2 DEF Accepted

(* The cache: what is put in front of it, and that it keeps to its size.   *)
CacheEntry == [layer : FhLayers, path : FhPaths, hash : {"path", "data"} \X (FhPaths \union FhContents)]
LEMMA RemovedAt ==
    ASSUME NEW S, NEW s \in Seq(S), NEW i \in 1..Len(s)
    PROVE  RemoveAt(s, i) \in Seq(S) /\ Len(RemoveAt(s, i)) = Len(s) - 1
<1>1. SubSeq(s, 1, i - 1) \in Seq(S) /\ Len(SubSeq(s, 1, i - 1)) = i - 1
  BY SubSeqProperties
<1>2. SubSeq(s, i + 1, Len(s)) \in Seq(S) /\ Len(SubSeq(s, i + 1, Len(s))) = Len(s) - i
  BY SubSeqProperties
<1> DEFINE front == SubSeq(s, 1, i - 1)
           back == SubSeq(s, i + 1, Len(s))
<1>3. front \in Seq(S) /\ Len(front) = i - 1 /\ back \in Seq(S) /\ Len(back) = Len(s) - i /\ RemoveAt(s, i) = front \o back
  BY <1>1, <1>2 DEF RemoveAt
<1> HIDE DEF front, back
<1>4. front \o back \in Seq(S) /\ Len(front \o back) = Len(front) + Len(back)
  BY <1>3, ConcatProperties
<1>5. QED
  BY <1>3, <1>4

LEMMA PutInFront ==
    ASSUME NEW S, NEW s \in Seq(S), NEW e \in S
    PROVE  /\ <<e>> \o s \in Seq(S) /\ Len(<<e>> \o s) = Len(s) + 1 /\ (<<e>> \o s)[1] = e
           /\ SubSeq(<<e>> \o s, 1, Len(<<e>> \o s) - 1) \in Seq(S)
           /\ Len(SubSeq(<<e>> \o s, 1, Len(<<e>> \o s) - 1)) = Len(s)
<1>1. <<e>> \in Seq(S) /\ Len(<<e>>) = 1 /\ <<e>>[1] = e
  OBVIOUS
<1>2. <<e>> \o s \in Seq(S) /\ Len(<<e>> \o s) = Len(s) + 1 /\ (<<e>> \o s)[1] = e
  BY <1>1, ConcatProperties
<1>3. QED
  BY <1>2, SubSeqProperties

LEMMA CacheMoves ==
    ASSUME CacheTyped
    PROVE  /\ \A i \in DOMAIN fhCache :
                 ToFront(i) \in Seq(CacheEntry) /\ Len(ToFront(i)) = Len(fhCache) /\ ToFront(i)[1] = fhCache[i]
           /\ \A e \in CacheEntry :
                 FhPut(e) \in Seq(CacheEntry) /\ (Len(fhCache) <= FhCapacity => Len(FhPut(e)) <= FhCapacity)
<1>1. fhCache \in Seq(CacheEntry)
  BY DEF CacheTyped, CacheEntry
<1>2. ASSUME NEW i \in DOMAIN fhCache
      PROVE  /\ ToFront(i) \in Seq(CacheEntry) /\ Len(ToFront(i)) = Len(fhCache) /\ ToFront(i)[1] = fhCache[i]
             /\ RemoveAt(fhCache, i) \in Seq(CacheEntry) /\ Len(RemoveAt(fhCache, i)) = Len(fhCache) - 1
  <2>1. i \in 1..Len(fhCache) /\ fhCache[i] \in CacheEntry
    BY <1>1
  <2>2. RemoveAt(fhCache, i) \in Seq(CacheEntry) /\ Len(RemoveAt(fhCache, i)) = Len(fhCache) - 1
    BY <1>1, <2>1, RemovedAt
  <2>3. QED
    BY <1>1, <2>1, <2>2, PutInFront DEF ToFront
<1>3. ASSUME NEW e \in CacheEntry
      PROVE  FhPut(e) \in Seq(CacheEntry) /\ (Len(fhCache) <= FhCapacity => Len(FhPut(e)) <= FhCapacity)
  <2> DEFINE old == Keyed(e.layer, e.path)
             rest == IF old = {} THEN fhCache ELSE RemoveAt(fhCache, CHOOSE i \in old : TRUE)
             new == <<e>> \o rest
  <2>1. rest \in Seq(CacheEntry) /\ Len(rest) <= Len(fhCache) /\ Len(rest) \in Nat /\ Len(fhCache) \in Nat
    <3>1. CASE old = {}
      BY <1>1, <3>1
    <3>2. CASE old # {}
      <4>1. (CHOOSE i \in old : TRUE) \in DOMAIN fhCache
        BY <3>2 DEF Keyed
      <4>2. QED
        BY <1>1, <1>2, <3>2, <4>1
    <3>3. QED
      BY <3>1, <3>2
  <2>2. FhPut(e) = IF Len(new) > FhCapacity THEN SubSeq(new, 1, Len(new) - 1) ELSE new
    BY DEF FhPut
  <2> HIDE DEF rest
  <2>3. /\ new \in Seq(CacheEntry) /\ Len(new) = Len(rest) + 1
        /\ SubSeq(new, 1, Len(new) - 1) \in Seq(CacheEntry) /\ Len(SubSeq(new, 1, Len(new) - 1)) = Len(rest)
    BY <2>1, PutInFront
  <2> HIDE DEF new
  <2>4. FhCapacity \in Nat
    BY FhBounds
  <2>5. QED
    BY <2>1, <2>2, <2>3, <2>4
<1>4. QED
  BY <1>2, <1>3

(* The event a worker has is that of a call that waits for it.             *)
LEMMA EventTyped ==
    ASSUME FhShape, Flight, NEW w \in FhWorkers, Busy(w)
    PROVE  /\ CallOf(w) \in FhCallers /\ FhEvent(w) = fhCalls[CallOf(w)].op /\ FhEvent(w) \in FhOps
           /\ FhEvent(w).layer \in FhLayers /\ FhEvent(w).path \in FhPaths
           /\ InFlight(CallOf(w))
<1>1. CallOf(w) \in FhCallers /\ InFlight(CallOf(w)) /\ FhEvent(w) = fhCalls[CallOf(w)].op
  BY DEF FhShape, CallOf, InFlight, FhEvent
<1>2. FhEvent(w) \in FhOps /\ FhEvent(w).layer # NoLayerID
  BY <1>1 DEF FhShape, Flight
<1>3. FhEvent(w).layer \in FhLayers /\ FhEvent(w).path \in FhPaths
  BY <1>2 DEF FhOps
<1>4. QED
  BY <1>1, <1>2, <1>3

LEMMA ComputedTyped ==
    ASSUME FhShape, Flight, NEW w \in FhWorkers, Busy(w)
    PROVE  Computed(w) \in CacheEntry
<1>1. FhEvent(w) \in FhOps /\ FhEvent(w).layer \in FhLayers /\ FhEvent(w).path \in FhPaths
  BY EventTyped
<1>2. FhEvent(w).data \in FhContents \cup {NoData}
  BY <1>1 DEF FhOps
<1>3. HashOf(FhEvent(w)) \in {"path", "data"} \X (FhPaths \union FhContents)
  BY <1>1, <1>2 DEF HashOf
<1>4. QED
  BY <1>1, <1>3 DEF Computed, CacheEntry

(* The lookup finds an entry for the path in a layer of the chain.         *)
Hit(w) == CHOOSE k \in Keyed(ChainFor(w)[CachedAt(ChainFor(w), FhEvent(w).path)], FhEvent(w).path) : TRUE
LEMMA LookupHits ==
    ASSUME NEW w \in FhWorkers, CachedAt(ChainFor(w), FhEvent(w).path) # 0,
           NEW S, ChainFor(w) \in Seq(S)
    PROVE  /\ Hit(w) \in DOMAIN fhCache /\ fhCache[Hit(w)].path = FhEvent(w).path
           /\ fhCache[Hit(w)].layer \in Range(ChainFor(w))
<1> DEFINE chain == ChainFor(w)
           p == FhEvent(w).path
           hits == {i \in DOMAIN chain : Keyed(chain[i], p) # {}}
           i == CachedAt(chain, p)
<1>1. hits # {} /\ i = CHOOSE j \in hits : \A k \in hits : j <= k
  BY DEF CachedAt
<1>2. hits \in SUBSET Nat
  OBVIOUS
<1>3. \E j \in hits : \A k \in hits : j <= k
  BY <1>1, <1>2, LeastOf
<1>4. i \in hits
  BY <1>1, <1>3
<1>5. Hit(w) \in Keyed(chain[i], p)
  BY <1>4 DEF Hit
<1>6. QED
  BY <1>4, <1>5 DEF Keyed, Range

LEMMA ChainSeqsKept == FhShape /\ ChainSeqs /\ FhNext => ChainSeqs'
<1> SUFFICES ASSUME FhShape, ChainSeqs, FhNext PROVE ChainSeqs'
  OBVIOUS
<1>1. ASSUME NEW c \in FhCallers, CallAct(c) PROVE ChainSeqs'
  <2>1. CASE Registers2(c)
    <3>1. fhChains' = [fhChains EXCEPT ![fhCalls[c].op.layer] = ChainOn(fhCalls[c].op)]
      BY <2>1 DEF Registers2, FhChainBuilt
    <3>2. fhCalls[c].op.layer \in FhLayers /\ fhCalls[c].op.parent \in FhLayers \cup {NoLayerID}
      BY <2>1 DEF Registers2, FhShape, FhOps
    <3>3. (IF fhCalls[c].op.parent = NoLayerID THEN << >> ELSE fhChains[fhCalls[c].op.parent]) \in Seq(FhLayers)
      BY <3>2 DEF ChainSeqs
    <3>4. <<fhCalls[c].op.layer>> \in Seq(FhLayers)
      BY <3>2
    <3>5. ChainOn(fhCalls[c].op) \in Seq(FhLayers)
      BY <3>3, <3>4, ConcatProperties DEF ChainOn
    <3>6. QED
      BY <3>1, <3>2, <3>5 DEF ChainSeqs
  <2>2. CASE ~Registers2(c)
    <3>1. CallMove(c)
      BY <1>1, CallsMove
    <3>2. UNCHANGED fhChains
      BY <2>2, <3>1 DEF CallMove, Begins, Refused, Closes, Registers1, FhRegister, MarksIt, FhMark, Sends, Panics, Answered, Finalizes, Resets, FhStore
    <3>3. QED
      BY <3>2 DEF ChainSeqs
  <2>3. QED
    BY <2>1, <2>2
<1>2. ASSUME NEW w \in FhWorkers, FhWorkerStep(w) PROVE ChainSeqs'
  BY <1>2, WorkersMove DEF WorkerFrame, ChainSeqs
<1>3. QED
  BY <1>1, <1>2, StepSplit

(* What the workers do to the cache and to the tracker.                    *)
LEMMA CacheWorks ==
    ASSUME FhShape, Flight, CacheTyped, ChainSeqs, NEW w \in FhWorkers, FhWorkerStep(w)
    PROVE  /\ CacheTyped' /\ (Len(fhCache) <= FhCapacity => Len(fhCache') <= FhCapacity)
           /\ fhPool'[w].pc = "rehash" =>
                /\ fhPool[w].pc = "lookup" /\ fhPool'[w].call = CallOf(w) /\ fhPool'[w].cached \in CacheEntry
                /\ fhPool'[w].cached.path = FhEvent(w).path /\ fhPool'[w].cached.layer \in Range(ChainFor(w))
<1>0. DOMAIN fhPool = FhWorkers /\ DOMAIN fhPool[w] = WorkerFields
  BY DEF FhShape
<1>1. CASE FhLookup(w)
  <2>1. Busy(w) /\ fhPool[w].pc = "lookup"
    BY <1>1 DEF FhLookup, FhWorking, Busy
  <2>2. ChainFor(w) \in Seq(FhLayers)
    BY <2>1, EventTyped DEF ChainSeqs, ChainFor
  <2>3. CASE CachedAt(ChainFor(w), FhEvent(w).path) = 0
    <3>1. fhCache' = fhCache /\ FhTo(w, "compute")
      BY <1>1, <2>3 DEF FhLookup
    <3>2. fhPool'[w].pc = "compute"
      BY <3>1, WorkerTo DEF Beyond
    <3>3. QED
      BY <3>1, <3>2 DEF CacheTyped
  <2>4. CASE CachedAt(ChainFor(w), FhEvent(w).path) # 0
    <3>1. fhCache' = ToFront(Hit(w)) /\ fhPool' = [fhPool EXCEPT ![w].pc = "rehash", ![w].cached = fhCache'[1]]
      BY <1>1, <2>4 DEF FhLookup, Hit
    <3>2. /\ Hit(w) \in DOMAIN fhCache /\ fhCache[Hit(w)].path = FhEvent(w).path
          /\ fhCache[Hit(w)].layer \in Range(ChainFor(w))
      BY <2>2, <2>4, LookupHits
    <3>3. ToFront(Hit(w)) \in Seq(CacheEntry) /\ Len(ToFront(Hit(w))) = Len(fhCache) /\ ToFront(Hit(w))[1] = fhCache[Hit(w)]
      BY <3>2, CacheMoves
    <3>4. fhCache[Hit(w)] \in CacheEntry
      <4>1. fhCache \in Seq(CacheEntry)
        BY DEF CacheTyped, CacheEntry
      <4>2. QED
        BY <3>2, <4>1
    <3>5. fhPool'[w].call = CallOf(w) /\ fhPool'[w].cached = fhCache'[1]
      BY <1>0, <3>1 DEF WorkerFields, CallOf
    <3>6. QED
      BY <2>1, <3>1, <3>2, <3>3, <3>4, <3>5 DEF CacheTyped, CacheEntry
  <2>5. QED
    BY <2>3, <2>4
<1>2. CASE FhCompute(w)
  <2>1. Busy(w) /\ fhCache' = FhPut(Computed(w)) /\ FhTo(w, "record")
    BY <1>2 DEF FhCompute, FhWorking, Busy
  <2>2. FhPut(Computed(w)) \in Seq(CacheEntry) /\ (Len(fhCache) <= FhCapacity => Len(FhPut(Computed(w))) <= FhCapacity)
    BY <2>1, ComputedTyped, CacheMoves
  <2>3. fhPool'[w].pc = "record"
    BY <2>1, WorkerTo DEF Beyond
  <2>4. QED
    BY <2>1, <2>2, <2>3 DEF CacheTyped, CacheEntry
<1>a. ASSUME NEW pc \in (Beyond \cup {"gone"}) \ {"rehash"}, FhTo(w, pc) PROVE fhPool'[w].pc # "rehash"
  BY <1>a, WorkerTo
<1>b. ASSUME NEW act, NEW src, NEW err, FhFinish(w, act, src, err) PROVE fhPool'[w].pc # "rehash"
  BY <1>0, <1>b DEF FhFinish, IdleWorker
<1>3. CASE FhReceive(w) \/ FhOwner(w)
  <2>1. fhCache' = fhCache
    BY <1>3 DEF FhReceive, FhOwner, FhHashing
  <2>2. fhPool'[w].pc # "rehash"
    <3>1. CASE FhReceive(w)
      <4>1. fhPool' = [fhPool EXCEPT ![w].pc = "event", ![w].call = Head(fhQueue)]
        BY <3>1 DEF FhReceive
      <4>2. QED
        BY <1>0, <4>1 DEF WorkerFields
    <3>2. CASE FhOwner(w)
      <4>1. fhPool' = [fhPool EXCEPT ![w].pc = "visible", ![w].owner = OwnerOf(ChainFor(w), FhEvent(w).path)]
        BY <3>2 DEF FhOwner
      <4>2. QED
        BY <1>0, <4>1 DEF WorkerFields
    <3>3. QED
      BY <1>3, <3>1, <3>2
  <2>3. QED
    BY <2>1, <2>2 DEF CacheTyped
<1>4. CASE FhExit(w) \/ FhInterpret(w) \/ FhVisible(w) \/ FhTestAndAdd(w) \/ FhResolve(w) \/ FhRecord(w)
  <2>1. fhCache' = fhCache
    BY <1>4 DEF FhExit, FhInterpret, FhVisible, FhTestAndAdd, FhResolve, FhRecord, FhHashing
  <2>2. (\E pc \in (Beyond \cup {"gone"}) \ {"rehash"} : FhTo(w, pc)) \/ (\E act, src, err : FhFinish(w, act, src, err))
    BY <1>4 DEF FhExit, FhInterpret, FhVisible, FhTestAndAdd, FhResolve, FhRecord, Beyond
  <2>3. QED
    BY <1>a, <1>b, <2>1, <2>2 DEF CacheTyped
<1>5. QED
  BY <1>1, <1>2, <1>3, <1>4 DEF FhWorkerStep

LEMMA CacheKept == FhShape /\ Flight /\ CacheTyped /\ ChainSeqs /\ FhNext => CacheTyped'
<1> SUFFICES ASSUME FhShape, Flight, CacheTyped, ChainSeqs, FhNext PROVE CacheTyped'
  OBVIOUS
<1>1. ASSUME NEW c \in FhCallers, CallAct(c) PROVE CacheTyped'
  BY <1>1, CallsMove DEF CallFrame, CacheTyped
<1>2. QED
  BY <1>1, CacheWorks, StepSplit

Leaf(T, l, p) == \E t \in T : t.layer = l /\ t.path = p
LEMMA TrackerWorks ==
    ASSUME FhShape, Flight, NEW w \in FhWorkers, FhWorkerStep(w),
           fhPool[w].pc = "rehash" => fhPool[w].cached.path = FhEvent(w).path
    PROVE  /\ \A l, p : Leaf(fhTracker, l, p) => Leaf(fhTracker', l, p)
           /\ \A d \in FhCallers : fhCalls'[d].action \in Hashed =>
                fhCalls[d].action \in Hashed \/ Leaf(fhTracker', fhCalls[d].op.layer, fhCalls[d].op.path)
<1>a. ASSUME NEW entry, fhTracker' = FhTracked(FhEvent(w).layer, entry), entry.path = FhEvent(w).path
      PROVE  /\ \A l, p : Leaf(fhTracker, l, p) => Leaf(fhTracker', l, p)
             /\ Leaf(fhTracker', FhEvent(w).layer, FhEvent(w).path)
  <2> DEFINE new == [layer |-> FhEvent(w).layer, path |-> entry.path, hash |-> entry.hash, src |-> entry.layer]
  <2>1. fhTracker' = {t \in fhTracker : t.layer # FhEvent(w).layer \/ t.path # entry.path} \union {new}
    BY <1>a DEF FhTracked
  <2>2. new \in fhTracker' /\ new.layer = FhEvent(w).layer /\ new.path = FhEvent(w).path
    BY <1>a, <2>1
  <2>3. ASSUME NEW l, NEW p, NEW t \in fhTracker, t.layer = l, t.path = p PROVE Leaf(fhTracker', l, p)
    <3>1. CASE l = FhEvent(w).layer /\ p = FhEvent(w).path
      BY <2>2, <3>1 DEF Leaf
    <3>2. CASE ~(l = FhEvent(w).layer /\ p = FhEvent(w).path)
      BY <1>a, <2>1, <2>3, <3>2 DEF Leaf
    <3>3. QED
      BY <3>1, <3>2
  <2> HIDE DEF new
  <2>4. QED
    BY <2>2, <2>3 DEF Leaf
<1>b. ASSUME NEW act, NEW src, NEW err, FhFinish(w, act, src, err), Busy(w)
      PROVE  /\ \A d \in FhCallers \ {CallOf(w)} : fhCalls'[d] = fhCalls[d]
             /\ fhCalls'[CallOf(w)].action = act
             /\ CallOf(w) \in FhCallers /\ FhEvent(w) = fhCalls[CallOf(w)].op
  <2>1. CallOf(w) \in FhCallers /\ FhEvent(w) = fhCalls[CallOf(w)].op
    BY <1>b, EventTyped
  <2>2. DOMAIN fhCalls = FhCallers /\ DOMAIN fhCalls[CallOf(w)] = CallFields
    BY <2>1 DEF FhShape
  <2> DEFINE er == IF fhCalls[fhPool[w].call].pc = "reply" THEN err ELSE fhCalls[fhPool[w].call].err
  <2>3. fhCalls' = [fhCalls EXCEPT ![CallOf(w)].action = act, ![CallOf(w)].src = src, ![CallOf(w)].err = er]
    BY <1>b, <2>1, <2>2 DEF FhFinish, CallOf, CallFields
  <2> HIDE DEF er
  <2>4. QED
    BY <2>1, <2>2, <2>3 DEF CallFields
<1>1. CASE FhResolve(w)
  <2>1. /\ fhPool[w].pc = "rehash" /\ Busy(w)
        /\ \/ UNCHANGED <<fhTracker, fhCalls>>
           \/ fhTracker' = FhTracked(FhEvent(w).layer, fhPool[w].cached) /\ FhFinish(w, "reuse", fhPool[w].cached.layer, "nil")
    BY <1>1 DEF FhResolve, FhWorking, Busy
  <2>2. QED
    BY <1>a, <1>b, <2>1
<1>2. CASE FhRecord(w)
  <2>1. /\ Busy(w) /\ fhTracker' = FhTracked(FhEvent(w).layer, Computed(w)) /\ FhFinish(w, "compute", FhEvent(w).layer, "nil")
    BY <1>2 DEF FhRecord, FhWorking, Busy
  <2>2. Computed(w).path = FhEvent(w).path
    BY DEF Computed
  <2>3. QED
    BY <1>a, <1>b, <2>1, <2>2
<1>3. CASE FhReceive(w) \/ FhExit(w) \/ FhOwner(w) \/ FhLookup(w) \/ FhCompute(w)
  BY <1>3 DEF FhReceive, FhExit, FhOwner, FhLookup, FhCompute, FhHashing
<1>4. CASE FhTestAndAdd(w)
  <2>1. /\ Busy(w) /\ fhTracker' = fhTracker
        /\ \E present \in Present(<<FhEvent(w).layer, FhEvent(w).path>>) :
              IF present THEN FhFinish(w, "skip", NoLayerID, "nil")
              ELSE fhCalls' = [fhCalls EXCEPT ![fhPool[w].call].session = fhSession]
    BY <1>4 DEF FhTestAndAdd, FhWorking, Busy
  <2>2. CASE FhFinish(w, "skip", NoLayerID, "nil")
    BY <1>b, <2>1, <2>2 DEF Hashed
  <2>3. CASE fhCalls' = [fhCalls EXCEPT ![CallOf(w)].session = fhSession]
    <3>1. CallOf(w) \in FhCallers /\ DOMAIN fhCalls = FhCallers /\ DOMAIN fhCalls[CallOf(w)] = CallFields
      BY <2>1, EventTyped DEF FhShape
    <3>2. \A d \in FhCallers : fhCalls'[d].action = fhCalls[d].action
      BY <2>3, <3>1 DEF CallFields
    <3>3. QED
      BY <2>1, <3>2
  <2>4. QED
    BY <2>1, <2>2, <2>3 DEF CallOf
<1>5. CASE FhInterpret(w) \/ FhVisible(w)
  <2>1. /\ Busy(w) /\ fhTracker' = fhTracker
        /\ UNCHANGED fhCalls \/ \E act \in Outcomes \ Hashed : \E src, err : FhFinish(w, act, src, err)
    BY <1>5 DEF FhInterpret, FhVisible, FhWorking, Busy, Outcomes, Hashed, FhHashing
  <2>2. QED
    BY <1>b, <2>1
<1>6. QED
  BY <1>1, <1>2, <1>3, <1>4, <1>5 DEF FhWorkerStep

LEMMA TrackedKept == SessionInv /\ FhNext => Tracked'
<1> SUFFICES ASSUME FhShape, Pending, Flight, CacheTyped, ChainSeqs, Tracked, FhNext PROVE Tracked'
  BY DEF SessionInv
<1> DEFINE Reads(f) == fhCalls[f].op.kind = "finalize" /\ (fhCalls[f].pc = "reset" \/ fhCalls[f].err \in {"nil", "empty"})
           Wanted(f, c) == fhCalls[c].op.kind = "submit" /\ fhCalls[c].action \in Hashed /\ fhCalls[c].op.layer = fhCalls[f].op.layer
<1>t. /\ \A c \in FhCallers : fhCalls[c].action \in Hashed => Leaf(fhTracker, fhCalls[c].op.layer, fhCalls[c].op.path)
      /\ \A w \in FhWorkers : fhPool[w].pc = "rehash" => fhPool[w].cached.path = FhEvent(w).path
      /\ \A f \in FhCallers : \A c \in fhCalls[f].before : c \in FhCallers /\ fhCalls[c].pc = "done" /\ fhCalls[c].err = "nil"
      /\ \A f \in FhCallers : Reads(f) => \A c \in fhCalls[f].before : Wanted(f, c) => \E t \in fhCalls[f].leaves : t.path = fhCalls[c].op.path
  BY DEF Tracked, Leaf
<1>1. ASSUME NEW c \in FhCallers, CallAct(c) PROVE Tracked'
  <2>1. CallFrame(c) /\ CallMove(c)
    BY <1>1, CallsMove
  <2>f. /\ UNCHANGED <<fhPool, fhTracker>>
        /\ \A d \in FhCallers : fhCalls'[d].op = fhCalls[d].op /\ fhCalls'[d].action = fhCalls[d].action
        /\ \A d \in FhCallers \ {c} : fhCalls'[d] = fhCalls[d]
    BY <2>1 DEF CallFrame
  <2>2. \A d \in FhCallers : fhCalls'[d].action \in Hashed => Leaf(fhTracker', fhCalls'[d].op.layer, fhCalls'[d].op.path)
    BY <1>t, <2>f
  <2>3. \A w \in FhWorkers : fhPool'[w].pc = "rehash" => fhPool'[w].cached.path = FhEvent(w)'.path
    BY <1>t, <2>f DEF FhEvent, FhShape, Busy
  <2>4. \A d \in FhCallers : fhCalls[d].pc = "done" /\ fhCalls[d].err = "nil" => fhCalls'[d].pc = "done" /\ fhCalls'[d].err = "nil"
    <3>1. CASE Panics(c)
      BY <2>f, <3>1 DEF Panics
    <3>2. CASE ~Panics(c)
      BY <2>1, <2>f, <3>2 DEF CallMove, Begins, Refused, Closes, Registers1, Registers2, MarksIt, Sends, Answered, Finalizes, Resets, Goes
    <3>3. QED
      BY <3>1, <3>2
  <2>5. \/ fhCalls'[c].before = fhCalls[c].before
        \/ Begins(c)
    BY <2>1 DEF CallMove, Refused, Closes, Registers1, Registers2, MarksIt, Sends, Answered, Finalizes, Resets, Panics, Kept3
  <2>6. \A f \in FhCallers : \A d \in fhCalls'[f].before : d \in FhCallers /\ fhCalls'[d].pc = "done" /\ fhCalls'[d].err = "nil"
    <3>1. ASSUME NEW f \in FhCallers, NEW d \in fhCalls'[f].before PROVE d \in FhCallers /\ fhCalls[d].pc = "done" /\ fhCalls[d].err = "nil"
      <4>1. CASE f # c \/ ~Begins(c)
        BY <1>t, <2>5, <2>f, <3>1, <4>1
      <4>2. CASE f = c /\ Begins(c)
        BY <3>1, <4>2 DEF Begins, FhReturned
      <4>3. QED
        BY <4>1, <4>2
    <3>2. QED
      BY <2>4, <3>1
  <2>7. ASSUME NEW f \in FhCallers, fhCalls'[f].op.kind = "finalize", fhCalls'[f].pc = "reset" \/ fhCalls'[f].err \in {"nil", "empty"},
               NEW d \in fhCalls'[f].before,
               fhCalls'[d].op.kind = "submit", fhCalls'[d].action \in Hashed, fhCalls'[d].op.layer = fhCalls'[f].op.layer
        PROVE  \E t \in fhCalls'[f].leaves : t.path = fhCalls'[d].op.path
    <3>1. d \in FhCallers /\ fhCalls'[d].op = fhCalls[d].op /\ fhCalls'[d].action = fhCalls[d].action
      BY <2>6, <2>7, <2>f
    <3>2. CASE f # c \/ Panics(c)
      <4>1. fhCalls'[f] = fhCalls[f]
        BY <2>f, <3>2 DEF Panics
      <4>2. QED
        BY <1>t, <2>7, <3>1, <4>1
    <3>3. CASE f = c /\ ~Panics(c) /\ ~Finalizes(c)
      <4>1. fhCalls[c].op.kind = "finalize"
        BY <2>7, <2>f, <3>3
      <4>2. ~Closes(c) /\ ~Registers1(c) /\ ~Registers2(c) /\ ~MarksIt(c) /\ ~Sends(c) /\ ~Answered(c) /\ ~Refused(c)
        BY <2>7, <3>3, <4>1 DEF Closes, Registers1, Registers2, MarksIt, Sends, Answered, Refused, SendKinds
      <4>3. ~Begins(c)
        BY <2>7, <3>3 DEF Begins, Goes, Pending
      <4>4. Resets(c)
        BY <2>1, <3>3, <4>2, <4>3 DEF CallMove
      <4>5. fhCalls[c].pc = "reset" /\ fhCalls'[c].leaves = fhCalls[c].leaves /\ fhCalls'[c].before = fhCalls[c].before
        BY <4>4 DEF Resets, Goes, Kept3
      <4>6. QED
        BY <1>t, <2>7, <2>f, <3>1, <3>3, <4>1, <4>5
    <3>4. CASE f = c /\ Finalizes(c)
      <4>1. PICK t \in fhTracker : t.layer = fhCalls[c].op.layer /\ t.path = fhCalls[d].op.path
        BY <1>t, <2>7, <2>f, <3>1, <3>4 DEF Leaf
      <4>2. fhCalls'[c].leaves = {u \in fhTracker : u.layer = fhCalls[c].op.layer}
        BY <3>4, <4>1 DEF Finalizes
      <4>3. QED
        BY <3>1, <3>4, <4>1, <4>2
    <3>5. QED
      BY <3>2, <3>3, <3>4
  <2>8. QED
    BY <2>2, <2>3, <2>6, <2>7 DEF Tracked, Leaf
<1>2. ASSUME NEW w \in FhWorkers, FhWorkerStep(w) PROVE Tracked'
  <2>1. WorkerFrame(w) /\ WorkerMove(w)
    BY <1>2, WorkersMove
  <2>f. /\ \A v \in FhWorkers \ {w} : fhPool'[v] = fhPool[v]
        /\ \A d \in FhCallers : /\ fhCalls'[d].op = fhCalls[d].op /\ fhCalls'[d].pc = fhCalls[d].pc
                                /\ fhCalls'[d].leaves = fhCalls[d].leaves /\ fhCalls'[d].before = fhCalls[d].before
    BY <2>1 DEF WorkerFrame, Kept3
  <2>2. \A d \in FhCallers : fhCalls'[d].action \in Hashed => Leaf(fhTracker', fhCalls'[d].op.layer, fhCalls'[d].op.path)
    BY <1>2, <1>t, <2>f, TrackerWorks
  <2>3. \A v \in FhWorkers : fhPool'[v].pc = "rehash" => fhPool'[v].cached.path = FhEvent(v)'.path
    <3>1. fhPool'[w].pc = "rehash" => fhPool'[w].cached.path = FhEvent(w)'.path
      <4> SUFFICES ASSUME fhPool'[w].pc = "rehash" PROVE fhPool'[w].cached.path = FhEvent(w)'.path
        OBVIOUS
      <4>1. fhPool[w].pc = "lookup" /\ fhPool'[w].call = CallOf(w) /\ fhPool'[w].cached.path = FhEvent(w).path
        BY <1>2, CacheWorks
      <4>2. CallOf(w) \in FhCallers
        BY <4>1 DEF FhShape, Busy, CallOf
      <4>3. QED
        BY <2>f, <4>1, <4>2 DEF FhEvent, CallOf
    <3>2. ASSUME NEW v \in FhWorkers \ {w}, fhPool'[v].pc = "rehash" PROVE fhPool'[v].cached.path = FhEvent(v)'.path
      <4>1. fhPool'[v] = fhPool[v]
        BY <2>f
      <4>2. fhPool[v].call \in FhCallers
        BY <3>2, <4>1 DEF FhShape, Busy
      <4>3. QED
        BY <1>t, <2>f, <3>2, <4>1, <4>2 DEF FhEvent
    <3>3. QED
      BY <3>1, <3>2
  <2>4. ASSUME NEW d \in FhCallers, fhCalls[d].pc = "done"
        PROVE  /\ fhCalls'[d].err = fhCalls[d].err
               /\ fhCalls[d].op.kind = "submit" /\ fhCalls[d].err = "nil" => fhCalls'[d].action = fhCalls[d].action
    <3>1. CASE Receives(w) \/ Exits(w) \/ GoesOn(w)
      BY <3>1 DEF Receives, Exits, GoesOn
    <3>2. ASSUME NEW act, NEW src, NEW err, Finishes(w, act, src, err)
          PROVE  /\ fhCalls'[d].err = fhCalls[d].err
                 /\ fhCalls[d].op.kind = "submit" /\ fhCalls[d].err = "nil" => fhCalls'[d].action = fhCalls[d].action
      <4>1. CASE d # CallOf(w)
        BY <3>2, <4>1 DEF Finishes
      <4>2. CASE d = CallOf(w)
        <5>1. fhCalls'[d].err = fhCalls[d].err
          BY <2>4, <3>2, <4>2 DEF Finishes
        <5>2. InFlight(d)
          BY <2>1, <3>2, <4>2, LeavesFlight
        <5>3. QED
          BY <2>4, <5>1, <5>2 DEF Flight
      <4>3. QED
        BY <4>1, <4>2
    <3>3. QED
      BY <2>1, <3>1, <3>2 DEF WorkerMove
  <2>5. \A f \in FhCallers : \A c \in fhCalls'[f].before : c \in FhCallers /\ fhCalls'[c].pc = "done" /\ fhCalls'[c].err = "nil"
    BY <1>t, <2>f, <2>4
  <2>6. ASSUME NEW f \in FhCallers, fhCalls'[f].op.kind = "finalize", fhCalls'[f].pc = "reset" \/ fhCalls'[f].err \in {"nil", "empty"},
               NEW d \in fhCalls'[f].before,
               fhCalls'[d].op.kind = "submit", fhCalls'[d].action \in Hashed, fhCalls'[d].op.layer = fhCalls'[f].op.layer
        PROVE  \E t \in fhCalls'[f].leaves : t.path = fhCalls'[d].op.path
    <3>1. d \in fhCalls[f].before /\ d \in FhCallers /\ fhCalls[d].pc = "done" /\ fhCalls[d].err = "nil"
      BY <1>t, <2>6, <2>f
    <3>2. fhCalls[d].op = fhCalls'[d].op /\ fhCalls'[d].action = fhCalls[d].action
      BY <2>4, <2>6, <2>f, <3>1
    <3>3. fhCalls'[f].err = fhCalls[f].err
      <4>1. ~InFlight(f)
        BY <2>6, <2>f DEF Flight, SendKinds
      <4>2. CASE Receives(w) \/ Exits(w) \/ GoesOn(w)
        BY <4>2 DEF Receives, Exits, GoesOn
      <4>3. ASSUME NEW act, NEW src, NEW err, Finishes(w, act, src, err) PROVE fhCalls'[f].err = fhCalls[f].err
        <5>1. f # CallOf(w)
          BY <2>1, <4>1, <4>3, LeavesFlight
        <5>2. QED
          BY <4>3, <5>1 DEF Finishes
      <4>4. QED
        BY <2>1, <4>2, <4>3 DEF WorkerMove
    <3>4. QED
      BY <1>t, <2>6, <2>f, <3>1, <3>2, <3>3
  <2>7. QED
    BY <2>2, <2>3, <2>5, <2>6 DEF Tracked, Leaf
<1>3. QED
  BY <1>1, <1>2, StepSplit

LEMMA SessionStarts == FhInit => SessionInv
<1> SUFFICES ASSUME FhInit PROVE SessionInv
  OBVIOUS
<1>1. PICK script \in FhScripts : FhInitWith(script)
  BY DEF FhInit
<1>2. /\ fhCalls = [c \in FhCallers |-> IdleCall(script.calls[c])]
      /\ fhChains = StackOf(script.stack)
      /\ fhQueue = << >> /\ fhChan = "open" /\ fhFilter = {} /\ fhCache = << >> /\ fhTracker = {}
      /\ fhSession = 0 /\ fhPool = [w \in FhWorkers |-> IdleWorker]
  BY <1>1 DEF FhInitWith
<1>3. /\ script.stack \in Seq(FhLayers) /\ script.calls \in [FhCallers -> FhOps]
      /\ \A c \in FhCallers : script.calls[c].kind = "register" => script.calls[c].layer # NoLayerID
  BY FhScriptsAssumption
<1>4. \A c \in FhCallers :
         /\ DOMAIN fhCalls[c] = CallFields /\ fhCalls[c].op = script.calls[c] /\ fhCalls[c].pc = "idle"
         /\ fhCalls[c].err = "none" /\ fhCalls[c].action = "none" /\ fhCalls[c].before = {} /\ fhCalls[c].session = 0
  BY <1>2 DEF IdleCall, CallFields
<1>5. \A w \in FhWorkers : DOMAIN fhPool[w] = WorkerFields /\ fhPool[w].pc = "wait"
  BY <1>2 DEF IdleWorker, WorkerFields
<1>6. FhShape
  <2>1. DOMAIN fhCalls = FhCallers /\ DOMAIN fhPool = FhWorkers
    BY <1>2
  <2>2. fhSession \in Nat /\ fhQueue \in Seq(FhCallers)
    BY <1>2
  <2>3. QED
    BY <1>3, <1>4, <1>5, <2>1, <2>2 DEF FhShape, Busy
<1>7. Pending
  BY <1>4 DEF Pending
<1>8. \A c : ~InFlight(c)
  BY <1>2, <1>5 DEF InFlight, Queued, Busy
<1>9. Flight
  BY <1>2, <1>5, <1>8 DEF Flight, Busy
<1>10. FilterHolds
  BY <1>4, <1>5 DEF FilterHolds, Past, Hashed
<1>11. Accepted
  BY <1>4, <1>5 DEF Accepted
<1>12. CacheTyped
  BY <1>2 DEF CacheTyped
<1>13. ChainSeqs
  <2>1. ASSUME NEW l \in FhLayers PROVE (IF l \in Range(script.stack) THEN SubSeq(script.stack, 1, ChainPos(script.stack, l)) ELSE << >>) \in Seq(FhLayers)
    <3>1. CASE l \in Range(script.stack)
      <4>1. \E i \in DOMAIN script.stack : script.stack[i] = l
        BY <3>1 DEF Range
      <4>2. ChainPos(script.stack, l) \in DOMAIN script.stack
        BY <3>1, <4>1 DEF ChainPos
      <4>3. ChainPos(script.stack, l) \in Int /\ \A i \in 1..ChainPos(script.stack, l) : script.stack[i] \in FhLayers
        BY <1>3, <4>2
      <4>4. QED
        BY <3>1, <4>3, SubSeqProperties
    <3>2. CASE l \notin Range(script.stack)
      BY <3>2
    <3>3. QED
      BY <3>1, <3>2
  <2>2. QED
    BY <1>2, <2>1 DEF ChainSeqs, StackOf
<1>14. Tracked
  BY <1>4, <1>5 DEF Tracked, Hashed
<1>15. QED
  BY <1>6, <1>7, <1>9, <1>10, <1>11, <1>12, <1>13, <1>14 DEF SessionInv

LEMMA SessionKept == SessionInv /\ [FhNext]_fhVars => SessionInv'
<1> SUFFICES ASSUME SessionInv, [FhNext]_fhVars PROVE SessionInv'
  OBVIOUS
<1>1. CASE FhNext
  BY <1>1, ShapeKept, PendingKept, FlightKept, FilterKept, AcceptedKept, CacheKept, ChainSeqsKept, TrackedKept DEF SessionInv
<1>2. CASE UNCHANGED fhVars
  <2>0. UNCHANGED <<fhCalls, fhPool, fhQueue, fhChan, fhFilter, fhCache, fhTracker, fhSession, fhChains>>
    BY <1>2 DEF fhVars
  <2>1. FhShape' /\ Pending' /\ CacheTyped' /\ ChainSeqs'
    BY <2>0 DEF SessionInv, FhShape, Pending, CacheTyped, ChainSeqs, Busy
  <2>2. \A c : InFlight(c)' = InFlight(c) /\ Queued(c)' = Queued(c)
    BY <2>0 DEF InFlight, Queued, Busy
  <2>3. Flight' /\ Accepted'
    BY <2>0, <2>2 DEF SessionInv, Flight, Accepted, Busy
  <2>4. FilterHolds' /\ Tracked'
    BY <2>0 DEF SessionInv, FilterHolds, Tracked, Past, KeyOf, FhEvent
  <2>5. QED
    BY <2>1, <2>3, <2>4 DEF SessionInv
<1>3. QED
  BY <1>1, <1>2

LEMMA SessionSays == SessionInv => SessionsSound
<1> SUFFICES ASSUME SessionInv PROVE SessionsSound
  OBVIOUS
<1>1. OncePerSession
  BY DEF SessionInv, FilterHolds, OncePerSession, Past, KeyOf
<1>2. FinalizeComplete
  BY DEF SessionInv, Tracked, FinalizeComplete
<1>3. CloseDrains
  <2> SUFFICES ASSUME \A w \in FhWorkers : fhPool[w].pc = "gone"
               PROVE  /\ fhQueue = << >>
                      /\ \A c \in FhCallers :
                            (fhCalls[c].op.kind = "async" /\ fhCalls[c].err = "nil") => fhCalls[c].action # "none"
    BY DEF CloseDrains
  <2>1. fhQueue = << >>
    BY FhBounds DEF SessionInv, Accepted
  <2>2. \A c : ~InFlight(c)
    BY <2>1 DEF InFlight, Queued, Busy
  <2>3. QED
    BY <2>1, <2>2 DEF SessionInv, Accepted
<1>4. QED
  BY <1>1, <1>2, <1>3 DEF SessionsSound

(* In one session a file of a layer is hashed once, although two workers   *)
(* look at the same time; Finalize has a leaf for every answer given before *)
(* it; Close leaves no accepted event undecided (filter.go TestAndAdd,     *)
(* processor.go Finalize, Close).                                          *)
THEOREM SessionsAreSound == FhSpec => []SessionsSound
<1>1. FhSpec => []SessionInv
  BY SessionStarts, SessionKept, PTL DEF FhSpec
<1>2. QED
  BY <1>1, SessionSays, PTL

-----------------------------------------------------------------------------
(* The store of layers and the chains: known layers and marks are only     *)
(* added, and the chain of a layer is built once.                          *)
StoreFields == {"known", "modified", "deleted", "opaque"}
Registering(c) ==
    /\ CallAct(c) /\ Registers1(c) /\ UNCHANGED fhChains
    /\ fhLayers' = [fhLayers EXCEPT !.known = @ \union {fhCalls[c].op.layer}]
    /\ fhCalls[c].op.layer \notin fhLayers.known
    /\ fhCalls[c].op.parent = NoLayerID \/ fhCalls[c].op.parent \in fhLayers.known
ChainBuilding(c) ==
    /\ CallAct(c) /\ Registers2(c) /\ UNCHANGED fhLayers
    /\ fhChains' = [fhChains EXCEPT ![fhCalls[c].op.layer] = ChainOn(fhCalls[c].op)]
Marking ==
    \E x \in {"modified", "deleted", "opaque"}, l \in fhLayers.known, p \in FhPaths :
        fhLayers' = [fhLayers EXCEPT ![x] = @ \union {<<l, p>>}] /\ UNCHANGED fhChains
LEMMA LastOf ==
    ASSUME NEW S, NEW s \in Seq(S), s # << >>
    PROVE  Last(s) \in S /\ Last(s) \in Range(s)
<1>1. Len(s) \in 1..Len(s) /\ s[Len(s)] \in S /\ DOMAIN s = 1..Len(s)
  BY EmptySeq
<1>2. QED
  BY <1>1 DEF Last, Range

LEMMA StoreMoves ==
    ASSUME SessionInv, Chains, FhNext
    PROVE  \/ UNCHANGED FhStore
           \/ \E c \in FhCallers : Registering(c) \/ ChainBuilding(c)
           \/ Marking
<1>1. ASSUME NEW c \in FhCallers, CallAct(c)
      PROVE  UNCHANGED FhStore \/ Registering(c) \/ ChainBuilding(c) \/ Marking
  <2>1. CallMove(c)
    BY <1>1, CallsMove DEF SessionInv
  <2>2. CASE Registers1(c)
    <3>1. FhRegister(c) /\ fhCalls[c].pc = "begun" /\ fhCalls'[c].pc = "chain" /\ DOMAIN fhCalls = FhCallers /\ DOMAIN fhCalls[c] = CallFields
      BY <2>2 DEF Registers1, Goes, SessionInv, FhShape
    <3>2. \A err : ~FhReturn(c, err)
      BY <3>1 DEF FhReturn, CallFields
    <3>3. QED
      BY <1>1, <2>2, <3>1, <3>2 DEF FhRegister, Registering
  <2>3. CASE Registers2(c)
    BY <1>1, <2>3 DEF Registers2, FhChainBuilt, ChainBuilding
  <2>4. CASE MarksIt(c)
    <3>1. FhMark(c) /\ fhCalls'[c].err = "nil" /\ DOMAIN fhCalls = FhCallers /\ DOMAIN fhCalls[c] = CallFields
      BY <2>4 DEF MarksIt, SessionInv, FhShape
    <3>2. ~FhReturn(c, "notfound")
      BY <3>1 DEF FhReturn, CallFields
    <3>3. /\ fhCalls[c].op.layer \in fhLayers.known /\ UNCHANGED fhChains
          /\ fhLayers' = [fhLayers EXCEPT ![fhCalls[c].op.what] = @ \union {<<fhCalls[c].op.layer, fhCalls[c].op.path>>}]
      BY <3>1, <3>2 DEF FhMark
    <3>4. fhCalls[c].op.what \in {"modified", "deleted", "opaque"} /\ fhCalls[c].op.path \in FhPaths
      BY DEF SessionInv, FhShape, FhOps
    <3>5. QED
      BY <3>3, <3>4 DEF Marking
  <2>5. CASE Begins(c) \/ Refused(c) \/ Closes(c) \/ Sends(c) \/ Panics(c) \/ Answered(c) \/ Finalizes(c) \/ Resets(c)
    BY <2>5 DEF Begins, Refused, Closes, Sends, Panics, Answered, Finalizes, Resets
  <2>6. QED
    BY <2>1, <2>2, <2>3, <2>4, <2>5 DEF CallMove
<1>2. ASSUME NEW w \in FhWorkers, FhWorkerStep(w)
      PROVE  UNCHANGED FhStore \/ Marking
  <2>1. CASE ~FhInterpret(w)
    BY <1>2, <2>1 DEF FhWorkerStep, FhReceive, FhExit, FhOwner, FhVisible, FhTestAndAdd, FhLookup, FhResolve, FhCompute, FhRecord
  <2>2. CASE FhInterpret(w)
    <3>1. Busy(w) /\ UNCHANGED fhChains
      BY <2>2 DEF FhInterpret, FhWorking, Busy
    <3>2. \/ UNCHANGED fhLayers
          \/ ChainFor(w) # << >> /\ fhLayers' = [fhLayers EXCEPT ![Marked(FhEvent(w))] = @ \union {<<FhEvent(w).layer, FhEvent(w).path>>}]
      BY <2>2 DEF FhInterpret
    <3>3. FhEvent(w).layer \in FhLayers /\ FhEvent(w).path \in FhPaths
      BY <3>1, EventTyped DEF SessionInv
    <3>4. ChainFor(w) # << >> => FhEvent(w).layer \in fhLayers.known
      <4>1. fhChains[FhEvent(w).layer] \in Seq(fhLayers.known)
        BY <3>3 DEF Chains
      <4>2. ChainFor(w) # << >> => Last(ChainFor(w)) = FhEvent(w).layer
        BY <3>3 DEF Chains, HasChain, ChainFor
      <4>3. QED
        BY <4>1, <4>2, LastOf DEF ChainFor
    <3>5. Marked(FhEvent(w)) \in {"deleted", "opaque"}
      BY DEF Marked
    <3>6. QED
      BY <3>1, <3>2, <3>3, <3>4, <3>5 DEF FhStore, Marking
  <2>3. QED
    BY <2>1, <2>2
<1>3. QED
  BY <1>1, <1>2, StepSplit

Grown ==
    /\ DOMAIN fhLayers' = StoreFields
    /\ fhLayers.known \subseteq fhLayers'.known /\ fhLayers.modified \subseteq fhLayers'.modified
    /\ fhLayers.deleted \subseteq fhLayers'.deleted /\ fhLayers.opaque \subseteq fhLayers'.opaque
    /\ DOMAIN fhChains' = FhLayers
    /\ \A l \in FhLayers : HasChain(l) => fhChains'[l] = fhChains[l]
LEMMA Grows ==
    ASSUME SessionInv, Chains, FhNext
    PROVE  Grown
<1>0. DOMAIN fhLayers = StoreFields /\ DOMAIN fhChains = FhLayers
  BY DEF Chains, StoreFields
<1>1. CASE UNCHANGED FhStore
  BY <1>0, <1>1 DEF Grown, FhStore
<1>2. ASSUME NEW c \in FhCallers, Registering(c) PROVE Grown
  <2>1. fhChains' = fhChains /\ fhLayers' = [fhLayers EXCEPT !.known = @ \union {fhCalls[c].op.layer}]
    BY <1>2 DEF Registering
  <2>2. QED
    BY <1>0, <2>1 DEF Grown, StoreFields
<1>3. ASSUME NEW c \in FhCallers, ChainBuilding(c) PROVE Grown
  <2>1. fhLayers' = fhLayers /\ fhChains' = [fhChains EXCEPT ![fhCalls[c].op.layer] = ChainOn(fhCalls[c].op)]
    BY <1>3 DEF ChainBuilding
  <2>2. ~HasChain(fhCalls[c].op.layer)
    BY <1>3 DEF ChainBuilding, Registers2, Goes, Chains
  <2>3. QED
    BY <1>0, <2>1, <2>2 DEF Grown, StoreFields
<1>4. ASSUME Marking PROVE Grown
  <2>1. PICK x \in {"modified", "deleted", "opaque"}, l \in fhLayers.known, p \in FhPaths :
            fhLayers' = [fhLayers EXCEPT ![x] = @ \union {<<l, p>>}] /\ UNCHANGED fhChains
    BY <1>4 DEF Marking
  <2>2. QED
    BY <1>0, <2>1 DEF Grown, StoreFields
<1>5. QED
  BY <1>1, <1>2, <1>3, <1>4, StoreMoves

(* A worker's step in detail: what it has found out when it goes on or     *)
(* decides the event.                                                      *)
PathOf(w) == FhEvent(w).path
Advances(w) ==
    /\ GoesOn(w)
    /\ \/ fhPool'[w].pc = "owner" /\ HasChain(FhEvent(w).layer)
       \/ /\ fhPool[w].pc = "owner" /\ fhPool'[w].pc = "visible"
          /\ fhPool'[w].owner = OwnerOf(ChainFor(w), PathOf(w))
       \/ /\ fhPool[w].pc = "visible" /\ fhPool'[w].pc = "filter"
          /\ IsFileVisible(ChainFor(w), PathOf(w), fhPool[w].owner)
       \/ fhPool[w].pc \in {"filter", "lookup", "rehash", "compute"} /\ fhPool'[w].pc \in PastPcs
Decides(w) ==
    \/ \E act \in {"lost", "marked"} : \E err : Finishes(w, act, NoLayerID, err)
    \/ /\ UNCHANGED FhStore
       /\ \/ /\ fhPool[w].pc = "visible" /\ ~IsFileVisible(ChainFor(w), PathOf(w), fhPool[w].owner)
             /\ Finishes(w, "exclude", NoLayerID, "nil")
          \/ fhPool[w].pc = "filter" /\ Finishes(w, "skip", NoLayerID, "nil")
          \/ /\ fhPool[w].pc = "rehash" /\ ~NeedsRehash(ChainFor(w), PathOf(w), fhPool[w].cached.layer)
             /\ Finishes(w, "reuse", fhPool[w].cached.layer, "nil")
          \/ fhPool[w].pc = "record" /\ Finishes(w, "compute", FhEvent(w).layer, "nil")
LEMMA WorkersTurn ==
    ASSUME FhShape, NEW w \in FhWorkers, FhWorkerStep(w)
    PROVE  WorkerFrame(w) /\ (Receives(w) \/ Exits(w) \/ Advances(w) \/ Decides(w))
<1>1. WorkerFrame(w) /\ WorkerMove(w)
  BY WorkersMove
<1>0. DOMAIN fhPool = FhWorkers /\ DOMAIN fhPool[w] = WorkerFields
  BY DEF FhShape
<1>a. \A pc \in Beyond : FhTo(w, pc) => fhPool'[w].pc = pc
  BY WorkerTo
<1>g. fhPool'[w].pc \in Beyond => GoesOn(w)
  BY <1>1 DEF WorkerMove, Receives, Exits, Finishes, IdleWorker, Beyond
<1>2. CASE FhReceive(w)
  <2>1. fhPool[w].pc = "wait" /\ fhPool' = [fhPool EXCEPT ![w].pc = "event", ![w].call = Head(fhQueue)]
    BY <1>2 DEF FhReceive, FhWorking
  <2>2. fhPool'[w].pc = "event" /\ fhPool[w].pc = "wait"
    BY <1>0, <2>1 DEF WorkerFields
  <2>3. ~Exits(w) /\ ~GoesOn(w) /\ \A act, src, err : ~Finishes(w, act, src, err)
    BY <2>2 DEF Exits, GoesOn, Finishes, IdleWorker, Beyond
  <2>4. QED
    BY <1>1, <2>3 DEF WorkerMove
<1>3. CASE FhExit(w)
  <2>1. fhPool[w].pc = "wait" /\ FhTo(w, "gone")
    BY <1>3 DEF FhExit, FhWorking
  <2>2. fhPool'[w].pc = "gone"
    BY <2>1, WorkerTo
  <2>3. QED
    BY <1>1, <2>1, <2>2 DEF WorkerMove, Receives, GoesOn, Finishes, IdleWorker, Beyond
<1>b. ASSUME NEW act \in Outcomes \ {"none"}, NEW src, NEW err, FhFinish(w, act, src, err), Busy(w),
             UNCHANGED <<fhQueue, fhChains, fhChan, fhSession>>
      PROVE  Finishes(w, act, src, err)
  BY <1>b, WorkerFinishes
<1>4. CASE FhInterpret(w)
  <2>1. Busy(w) /\ UNCHANGED <<fhQueue, fhChains, fhChan, fhSession>>
    BY <1>4 DEF FhInterpret, FhWorking, Busy, FhHashing
  <2>2. CASE FhFinish(w, "lost", NoLayerID, "notfound")
    BY <1>1, <1>b, <2>1, <2>2 DEF Outcomes, Decides
  <2>3. CASE FhFinish(w, "marked", NoLayerID, "nil")
    BY <1>1, <1>b, <2>1, <2>3 DEF Outcomes, Decides
  <2>4. CASE FhTo(w, "owner") /\ ChainFor(w) # << >>
    BY <1>1, <1>a, <1>g, <2>4 DEF Advances, Beyond, HasChain, ChainFor
  <2>5. QED
    BY <1>4, <2>2, <2>3, <2>4 DEF FhInterpret
<1>5. CASE FhOwner(w)
  <2>1. fhPool[w].pc = "owner" /\ fhPool' = [fhPool EXCEPT ![w].pc = "visible", ![w].owner = OwnerOf(ChainFor(w), PathOf(w))]
    BY <1>5 DEF FhOwner, FhWorking, PathOf
  <2> DEFINE o == OwnerOf(ChainFor(w), PathOf(w))
  <2> HIDE DEF o
  <2>2. fhPool'[w].pc = "visible" /\ fhPool'[w].owner = o
    BY <1>0, <2>1 DEF WorkerFields, o
  <2>3. QED
    BY <1>1, <1>g, <2>1, <2>2 DEF Advances, Beyond, o
<1>6. CASE FhVisible(w)
  <2>1. Busy(w) /\ fhPool[w].pc = "visible" /\ UNCHANGED <<fhQueue, FhStore, fhChains, fhChan, fhSession>>
    BY <1>6 DEF FhVisible, FhWorking, Busy, FhStore
  <2>2. CASE IsFileVisible(ChainFor(w), PathOf(w), fhPool[w].owner)
    <3>1. fhPool'[w].pc = "filter"
      BY <1>6, <1>a, <2>2 DEF FhVisible, PathOf, Beyond
    <3>2. QED
      BY <1>1, <1>g, <2>1, <2>2, <3>1 DEF Advances, Beyond
  <2>3. CASE ~IsFileVisible(ChainFor(w), PathOf(w), fhPool[w].owner)
    <3>1. FhFinish(w, "exclude", NoLayerID, "nil")
      BY <1>6, <2>3 DEF FhVisible, PathOf
    <3>2. QED
      BY <1>1, <1>b, <2>1, <2>3, <3>1 DEF Decides, Outcomes
  <2>4. QED
    BY <2>2, <2>3
<1>7. CASE FhTestAndAdd(w)
  <2>1. Busy(w) /\ fhPool[w].pc = "filter" /\ UNCHANGED <<fhQueue, FhStore, fhChains, fhChan, fhSession>>
    BY <1>7 DEF FhTestAndAdd, FhWorking, Busy, FhStore
  <2>2. CASE FhFinish(w, "skip", NoLayerID, "nil")
    BY <1>1, <1>b, <2>1, <2>2 DEF Decides, Outcomes
  <2>3. CASE FhTo(w, "lookup")
    <3>1. fhPool'[w].pc = "lookup"
      BY <1>a, <2>3 DEF Beyond
    <3>2. QED
      BY <1>1, <1>g, <2>1, <3>1 DEF Advances, Beyond, PastPcs
  <2>4. QED
    BY <1>7, <2>2, <2>3 DEF FhTestAndAdd
<1>8. CASE FhLookup(w)
  <2>1. /\ fhPool[w].pc = "lookup"
        /\ FhTo(w, "compute") \/ fhPool' = [fhPool EXCEPT ![w].pc = "rehash", ![w].cached = fhCache'[1]]
    BY <1>8 DEF FhLookup, FhWorking
  <2>a. fhPool[w].pc = "lookup"
    BY <2>1
  <2>2. fhPool[w].pc = "lookup" /\ fhPool'[w].pc \in {"compute", "rehash"}
    <3>1. CASE FhTo(w, "compute")
      BY <1>a, <2>a, <3>1 DEF Beyond
    <3>2. CASE fhPool' = [fhPool EXCEPT ![w].pc = "rehash", ![w].cached = fhCache'[1]]
      <4>1. fhPool'[w].pc = "rehash"
        BY <1>0, <3>2 DEF WorkerFields
      <4>2. QED
        BY <2>a, <4>1
    <3>3. QED
      BY <2>1, <3>1, <3>2
  <2>3. QED
    BY <1>1, <1>g, <2>2 DEF Advances, Beyond, PastPcs
<1>9. CASE FhResolve(w)
  <2>1. Busy(w) /\ fhPool[w].pc = "rehash" /\ UNCHANGED <<fhQueue, FhStore, fhChains, fhChan, fhSession>>
    BY <1>9 DEF FhResolve, FhWorking, Busy, FhStore
  <2>2. CASE NeedsRehash(ChainFor(w), PathOf(w), fhPool[w].cached.layer)
    <3>1. fhPool'[w].pc = "compute"
      BY <1>9, <1>a, <2>2 DEF FhResolve, PathOf, Beyond
    <3>2. QED
      BY <1>1, <1>g, <2>1, <3>1 DEF Advances, Beyond, PastPcs
  <2>3. CASE ~NeedsRehash(ChainFor(w), PathOf(w), fhPool[w].cached.layer)
    <3>1. FhFinish(w, "reuse", fhPool[w].cached.layer, "nil")
      BY <1>9, <2>3 DEF FhResolve, PathOf
    <3>2. QED
      BY <1>1, <1>b, <2>1, <2>3, <3>1 DEF Decides, Outcomes
  <2>4. QED
    BY <2>2, <2>3
<1>10. CASE FhCompute(w)
  <2>1. fhPool[w].pc = "compute" /\ FhTo(w, "record")
    BY <1>10 DEF FhCompute, FhWorking
  <2>2. fhPool'[w].pc = "record"
    BY <1>a, <2>1 DEF Beyond
  <2>3. QED
    BY <1>1, <1>g, <2>1, <2>2 DEF Advances, Beyond, PastPcs
<1>11. CASE FhRecord(w)
  <2>1. Busy(w) /\ fhPool[w].pc = "record" /\ UNCHANGED <<fhQueue, FhStore, fhChains, fhChan, fhSession>>
        /\ FhFinish(w, "compute", FhEvent(w).layer, "nil")
    BY <1>11 DEF FhRecord, FhWorking, Busy, FhStore
  <2>2. QED
    BY <1>1, <1>b, <2>1 DEF Decides, Outcomes
<1>12. QED
  BY <1>2, <1>3, <1>4, <1>5, <1>6, <1>7, <1>8, <1>9, <1>10, <1>11 DEF FhWorkerStep

LEMMA OneElement ==
    ASSUME NEW S, NEW e \in S
    PROVE  <<e>> \in Seq(S) /\ Len(<<e>>) = 1 /\ <<e>>[1] = e
OBVIOUS

(* The parts of Chains, one lemma each.                                    *)
LEMMA ChainsStore ==
    ASSUME SessionInv, Chains, FhNext
    PROVE  /\ DOMAIN fhLayers' = StoreFields /\ fhLayers'.known \subseteq FhLayers
           /\ fhLayers'.modified \union fhLayers'.deleted \union fhLayers'.opaque \subseteq fhLayers'.known \X FhPaths
           /\ DOMAIN fhChains' = FhLayers
           /\ \A l \in FhLayers : fhChains'[l] \in Seq(fhLayers'.known) /\ (HasChain(l)' => Last(fhChains'[l]) = l)
<1>0. /\ DOMAIN fhLayers = StoreFields /\ fhLayers.known \subseteq FhLayers
      /\ fhLayers.modified \union fhLayers.deleted \union fhLayers.opaque \subseteq fhLayers.known \X FhPaths
      /\ DOMAIN fhChains = FhLayers
      /\ \A l \in FhLayers : fhChains[l] \in Seq(fhLayers.known) /\ (HasChain(l) => Last(fhChains[l]) = l)
  BY DEF Chains, StoreFields
<1>1. CASE UNCHANGED FhStore
  BY <1>0, <1>1 DEF FhStore, HasChain
<1>2. ASSUME NEW c \in FhCallers, Registering(c)
      PROVE  /\ DOMAIN fhLayers' = StoreFields /\ fhLayers'.known \subseteq FhLayers
             /\ fhLayers'.modified \union fhLayers'.deleted \union fhLayers'.opaque \subseteq fhLayers'.known \X FhPaths
             /\ DOMAIN fhChains' = FhLayers
             /\ \A l \in FhLayers : fhChains'[l] \in Seq(fhLayers'.known) /\ (HasChain(l)' => Last(fhChains'[l]) = l)
  <2> DEFINE lay == fhCalls[c].op.layer
  <2>1. fhChains' = fhChains /\ fhLayers' = [fhLayers EXCEPT !.known = @ \union {lay}]
    BY <1>2 DEF Registering
  <2>2. lay \in FhLayers
    BY <1>2 DEF Registering, Registers1, SessionInv, FhShape, FhOps
  <2> HIDE DEF lay
  <2>3. /\ DOMAIN fhLayers' = StoreFields /\ fhLayers'.known = fhLayers.known \union {lay}
        /\ fhLayers'.modified = fhLayers.modified /\ fhLayers'.deleted = fhLayers.deleted /\ fhLayers'.opaque = fhLayers.opaque
    BY <1>0, <2>1 DEF StoreFields
  <2>4. \A l \in FhLayers : fhChains[l] \in Seq(fhLayers'.known)
    BY <1>0, <2>3
  <2>5. QED
    BY <1>0, <2>1, <2>2, <2>3, <2>4 DEF HasChain
<1>3. ASSUME NEW c \in FhCallers, ChainBuilding(c)
      PROVE  /\ DOMAIN fhLayers' = StoreFields /\ fhLayers'.known \subseteq FhLayers
             /\ fhLayers'.modified \union fhLayers'.deleted \union fhLayers'.opaque \subseteq fhLayers'.known \X FhPaths
             /\ DOMAIN fhChains' = FhLayers
             /\ \A l \in FhLayers : fhChains'[l] \in Seq(fhLayers'.known) /\ (HasChain(l)' => Last(fhChains'[l]) = l)
  <2> DEFINE op == fhCalls[c].op
             base == IF op.parent = NoLayerID THEN << >> ELSE fhChains[op.parent]
  <2>1. fhLayers' = fhLayers /\ fhChains' = [fhChains EXCEPT ![op.layer] = base \o <<op.layer>>]
    BY <1>3 DEF ChainBuilding, ChainOn
  <2>2. op.layer \in fhLayers.known /\ (op.parent = NoLayerID \/ op.parent \in fhLayers.known)
    BY <1>3 DEF ChainBuilding, Registers2, Goes, Chains
  <2> HIDE DEF op
  <2>b. base \in Seq(fhLayers.known)
    <3>1. CASE op.parent = NoLayerID
      BY <3>1
    <3>2. CASE op.parent # NoLayerID
      <4>1. op.parent \in FhLayers /\ base = fhChains[op.parent]
        BY <1>0, <2>2, <3>2
      <4>2. QED
        BY <1>0, <4>1
    <3>3. QED
      BY <3>1, <3>2
  <2>3. base \in Seq(fhLayers.known) /\ <<op.layer>> \in Seq(fhLayers.known) /\ Len(<<op.layer>>) = 1 /\ <<op.layer>>[1] = op.layer
    BY <2>b, <2>2, OneElement
  <2> HIDE DEF base
  <2> DEFINE chain == base \o <<op.layer>>
  <2>a. /\ chain \in Seq(fhLayers.known) /\ Len(chain) = Len(base) + 1 /\ Len(base) \in Nat
        /\ chain[Len(base) + 1] = op.layer
    BY <2>3, ConcatProperties
  <2> HIDE DEF chain
  <2>4. chain \in Seq(fhLayers.known) /\ Last(chain) = op.layer
    BY <2>a DEF Last
  <2>5. QED
    BY <1>0, <2>1, <2>2, <2>4 DEF HasChain, chain
<1>4. ASSUME Marking
      PROVE  /\ DOMAIN fhLayers' = StoreFields /\ fhLayers'.known \subseteq FhLayers
             /\ fhLayers'.modified \union fhLayers'.deleted \union fhLayers'.opaque \subseteq fhLayers'.known \X FhPaths
             /\ DOMAIN fhChains' = FhLayers
             /\ \A l \in FhLayers : fhChains'[l] \in Seq(fhLayers'.known) /\ (HasChain(l)' => Last(fhChains'[l]) = l)
  <2>1. PICK x \in {"modified", "deleted", "opaque"}, l \in fhLayers.known, p \in FhPaths :
            fhLayers' = [fhLayers EXCEPT ![x] = @ \union {<<l, p>>}] /\ UNCHANGED fhChains
    BY <1>4 DEF Marking
  <2>2. DOMAIN fhLayers' = StoreFields /\ fhLayers'.known = fhLayers.known
    BY <1>0, <2>1 DEF StoreFields
  <2>3. fhLayers'.modified \union fhLayers'.deleted \union fhLayers'.opaque \subseteq fhLayers.known \X FhPaths
    BY <1>0, <2>1 DEF StoreFields
  <2>4. QED
    BY <1>0, <2>1, <2>2, <2>3 DEF HasChain
<1>5. QED
  BY <1>1, <1>2, <1>3, <1>4, StoreMoves

Builds(c) == fhCalls[c].op.kind = "register" /\ fhCalls[c].pc = "chain"
LEMMA ChainsRegister ==
    ASSUME SessionInv, Chains, FhNext, NEW c \in FhCallers, Builds(c)'
    PROVE  /\ fhCalls'[c].op.layer \in fhLayers'.known /\ ~HasChain(fhCalls[c].op.layer)'
           /\ fhCalls'[c].op.parent = NoLayerID \/ fhCalls'[c].op.parent \in fhLayers'.known \ {fhCalls'[c].op.layer}
           /\ \A d \in FhCallers \ {c} : ~(Builds(d)' /\ fhCalls'[d].op.layer = fhCalls'[c].op.layer)
<1>c. \A d \in FhCallers : Builds(d) =>
          /\ fhCalls[d].op.layer \in fhLayers.known /\ ~HasChain(fhCalls[d].op.layer)
          /\ fhCalls[d].op.parent = NoLayerID \/ fhCalls[d].op.parent \in fhLayers.known \ {fhCalls[d].op.layer}
          /\ \A e \in FhCallers \ {d} : ~(Builds(e) /\ fhCalls[e].op.layer = fhCalls[d].op.layer)
  BY DEF Chains, Builds
<1>g. fhLayers.known \subseteq fhLayers'.known
  BY Grows DEF Grown
<1>o. \A d \in FhCallers : fhCalls'[d].op = fhCalls[d].op
  BY CallsMove, WorkersMove, StepSplit DEF SessionInv, CallFrame, WorkerFrame
<1>b. \A d \in FhCallers : Builds(d)' => Builds(d) \/ Registering(d)
  <2>1. ASSUME NEW b \in FhCallers, CallAct(b), NEW d \in FhCallers, Builds(d)', ~Builds(d) PROVE Registering(d)
    <3>1. CallFrame(b) /\ CallMove(b)
      BY <2>1, CallsMove DEF SessionInv
    <3>2. d = b
      BY <2>1, <3>1 DEF CallFrame, Builds
    <3>3. Registers1(b)
      BY <2>1, <3>1, <3>2 DEF CallFrame, Builds, CallMove, Begins, Refused, Closes, Registers2, MarksIt, Sends, Panics, Answered, Finalizes, Resets, Goes
    <3>4. FhRegister(b) /\ DOMAIN fhCalls = FhCallers /\ DOMAIN fhCalls[b] = CallFields /\ fhCalls'[b].pc = "chain"
      BY <3>3 DEF Registers1, Goes, SessionInv, FhShape
    <3>5. \A err : ~FhReturn(b, err)
      BY <3>4 DEF FhReturn, CallFields
    <3>6. QED
      BY <2>1, <3>2, <3>3, <3>4, <3>5 DEF FhRegister, Registering
  <2>2. ASSUME NEW w \in FhWorkers, FhWorkerStep(w), NEW d \in FhCallers, Builds(d)' PROVE Builds(d)
    BY <2>2, WorkersMove DEF SessionInv, WorkerFrame, Builds
  <2>3. QED
    BY <2>1, <2>2, StepSplit
<1>1. CASE Registering(c)
  <2>1. /\ fhLayers' = [fhLayers EXCEPT !.known = @ \union {fhCalls[c].op.layer}] /\ fhChains' = fhChains
        /\ fhCalls[c].op.layer \notin fhLayers.known
        /\ fhCalls[c].op.parent = NoLayerID \/ fhCalls[c].op.parent \in fhLayers.known
    BY <1>1 DEF Registering
  <2>2. fhCalls[c].op.layer \in fhLayers'.known
    BY <2>1 DEF Chains, StoreFields
  <2>3. fhCalls[c].op.layer \in FhLayers
    BY <1>1 DEF Registering, Registers1, SessionInv, FhShape, FhOps
  <2>4. ~HasChain(fhCalls[c].op.layer)
    BY <2>1, <2>3, LastOf DEF Chains, HasChain
  <2>5. ~HasChain(fhCalls[c].op.layer)'
    BY <1>o, <2>1, <2>4 DEF HasChain
  <2>6. ASSUME NEW d \in FhCallers \ {c}, Builds(d)', fhCalls'[d].op.layer = fhCalls'[c].op.layer PROVE FALSE
    <3>1. fhCalls'[d] = fhCalls[d]
      BY <1>1, <2>6, CallsMove DEF Registering, SessionInv, CallFrame
    <3>2. Builds(d) /\ fhCalls[d].op.layer = fhCalls[c].op.layer
      BY <1>o, <2>6, <3>1 DEF Builds
    <3>3. QED
      BY <1>c, <2>1, <3>2
  <2>7. QED
    BY <1>g, <1>o, <2>1, <2>2, <2>5, <2>6
<1>2. CASE ~Registering(c)
  <2>1. Builds(c)
    BY <1>2, <1>b
  <2>2. ASSUME NEW d \in FhCallers, d # c, Builds(d)', fhCalls'[d].op.layer = fhCalls'[c].op.layer PROVE FALSE
    <3>1. ~Builds(d)
      BY <1>c, <1>o, <2>1, <2>2
    <3>2. Registering(d)
      BY <1>b, <2>2, <3>1
    <3>3. QED
      BY <1>c, <1>o, <2>1, <2>2, <3>2 DEF Registering
  <2>3. ~HasChain(fhCalls[c].op.layer)'
    <3>1. ASSUME NEW b \in FhCallers, ChainBuilding(b) PROVE ~HasChain(fhCalls[c].op.layer)'
      <4>1. Builds(b) /\ ~Builds(b)'
        BY <3>1 DEF ChainBuilding, Registers2, Goes, Builds
      <4>2. fhCalls[b].op.layer # fhCalls[c].op.layer
        BY <1>c, <2>1, <4>1
      <4>3. fhChains' = [fhChains EXCEPT ![fhCalls[b].op.layer] = ChainOn(fhCalls[b].op)]
        BY <3>1 DEF ChainBuilding
      <4>4. fhChains'[fhCalls[c].op.layer] = fhChains[fhCalls[c].op.layer]
        BY <1>c, <2>1, <4>2, <4>3 DEF Chains
      <4>5. QED
        BY <1>c, <1>o, <2>1, <4>4 DEF HasChain
    <3>2. ASSUME fhChains' = fhChains PROVE ~HasChain(fhCalls[c].op.layer)'
      BY <1>c, <1>o, <2>1, <3>2 DEF HasChain
    <3>3. QED
      BY <3>1, <3>2, StoreMoves DEF FhStore, Registering, Marking
  <2>4. QED
    BY <1>c, <1>g, <1>o, <2>1, <2>2, <2>3
<1>3. QED
  BY <1>1, <1>2

(* What a call has seen when it began stays, and so does what has been     *)
(* decided of its event.                                                   *)
LEMMA CallsKeep ==
    ASSUME SessionInv, FhNext, NEW d \in FhCallers
    PROVE  /\ fhCalls'[d].op = fhCalls[d].op
           /\ fhCalls[d].pc # "idle" => Kept3(d) /\ fhCalls'[d].pc # "idle"
           /\ Kept3(d) \/ Begins(d)
           /\ fhCalls[d].action # "none" => fhCalls'[d].action = fhCalls[d].action /\ fhCalls'[d].src = fhCalls[d].src
           /\ InFlight(d) \/ fhCalls[d].action # "none" => fhCalls[d].pc # "idle"
<1>1. InFlight(d) \/ fhCalls[d].action # "none" => fhCalls[d].pc # "idle"
  BY DEF SessionInv, Flight, Pending
<1>2. ASSUME NEW c \in FhCallers, CallAct(c)
      PROVE  /\ fhCalls'[d].op = fhCalls[d].op /\ fhCalls'[d].action = fhCalls[d].action /\ fhCalls'[d].src = fhCalls[d].src
             /\ fhCalls[d].pc # "idle" => Kept3(d) /\ fhCalls'[d].pc # "idle"
             /\ Kept3(d) \/ Begins(d)
  <2>1. CallFrame(c) /\ CallMove(c)
    BY <1>2, CallsMove DEF SessionInv
  <2>2. CASE d # c
    BY <2>1, <2>2 DEF CallFrame, Kept3
  <2>3. CASE d = c
    BY <2>1, <2>3 DEF CallFrame, CallMove, Begins, Refused, Closes, Registers1, Registers2, MarksIt, Sends, Panics, Answered, Finalizes, Resets,
                      Goes, Kept3
  <2>4. QED
    BY <2>2, <2>3
<1>3. ASSUME NEW w \in FhWorkers, FhWorkerStep(w)
      PROVE  /\ fhCalls'[d].op = fhCalls[d].op /\ Kept3(d) /\ fhCalls'[d].pc = fhCalls[d].pc
             /\ fhCalls[d].action # "none" => fhCalls'[d].action = fhCalls[d].action /\ fhCalls'[d].src = fhCalls[d].src
  <2>1. WorkerFrame(w) /\ WorkerMove(w)
    BY <1>3, WorkersMove DEF SessionInv
  <2>2. ASSUME NEW act, NEW src, NEW err, Finishes(w, act, src, err), fhCalls[d].action # "none" PROVE fhCalls'[d] = fhCalls[d]
    <3>1. d # CallOf(w)
      BY <2>1, <2>2, LeavesFlight DEF SessionInv, Flight
    <3>2. QED
      BY <2>2, <3>1 DEF Finishes
  <2>3. QED
    BY <2>1, <2>2 DEF WorkerFrame, WorkerMove, Receives, Exits, GoesOn
<1>4. QED
  BY <1>1, <1>2, <1>3, StepSplit

(* A worker that does not move keeps its event and the event's chain.      *)
LEMMA WorkersKeep ==
    ASSUME SessionInv, Chains, FhNext, NEW v \in FhWorkers, Busy(v)
    PROVE  /\ CallOf(v) \in FhCallers /\ FhEvent(v).layer \in FhLayers /\ FhEvent(v).path \in FhPaths
           /\ FhEvent(v) = fhCalls[CallOf(v)].op /\ fhCalls'[CallOf(v)].op = FhEvent(v)
           /\ Kept3(CallOf(v))
           /\ fhPool'[v].call = CallOf(v) => FhEvent(v)' = FhEvent(v)
           /\ HasChain(FhEvent(v).layer) => fhChains'[FhEvent(v).layer] = ChainFor(v) /\ ChainFor(v) # << >>
<1>1. /\ CallOf(v) \in FhCallers /\ FhEvent(v).layer \in FhLayers /\ FhEvent(v).path \in FhPaths
      /\ FhEvent(v) = fhCalls[CallOf(v)].op /\ InFlight(CallOf(v))
  BY EventTyped DEF SessionInv
<1>2. fhCalls'[CallOf(v)].op = FhEvent(v) /\ Kept3(CallOf(v))
  BY <1>1, CallsKeep
<1>3. fhPool'[v].call = CallOf(v) => FhEvent(v)' = FhEvent(v)
  BY <1>2 DEF FhEvent
<1> DEFINE l == FhEvent(v).layer
<1>4. HasChain(l) => fhChains'[l] = fhChains[l]
  BY <1>1, Grows DEF Grown
<1>5. QED
  BY <1>1, <1>2, <1>3, <1>4 DEF HasChain, ChainFor

LEMMA ChainsWorkers ==
    ASSUME SessionInv, Chains, FhNext, NEW v \in FhWorkers, fhPool'[v].pc \in Beyond
    PROVE  /\ HasChain(FhEvent(v).layer)' /\ Busy(v) /\ HasChain(FhEvent(v).layer)
           /\ fhPool'[v].call = CallOf(v)
<1>0. fhPool[v].pc \in Beyond => HasChain(FhEvent(v).layer) /\ Busy(v)
  BY DEF Chains, Beyond, Busy
<1>1. HasChain(FhEvent(v).layer) /\ Busy(v) /\ fhPool'[v].call = CallOf(v)
  <2>1. ASSUME NEW c \in FhCallers, CallAct(c) PROVE fhPool' = fhPool
    BY <2>1, CallsMove DEF CallFrame, SessionInv
  <2>2. ASSUME NEW w \in FhWorkers, FhWorkerStep(w)
        PROVE  HasChain(FhEvent(v).layer) /\ Busy(v) /\ fhPool'[v].call = CallOf(v)
    <3>1. WorkerFrame(w) /\ (Receives(w) \/ Exits(w) \/ Advances(w) \/ Decides(w))
      BY <2>2, WorkersTurn DEF SessionInv
    <3>2. CASE v # w
      BY <1>0, <3>1, <3>2 DEF WorkerFrame, CallOf
    <3>3. CASE v = w
      <4>1. ~Receives(w) /\ ~Exits(w) /\ ~Decides(w)
        BY <3>3 DEF Receives, Exits, Decides, Finishes, IdleWorker, Beyond
      <4>2. Advances(w)
        BY <3>1, <4>1
      <4>3. QED
        BY <1>0, <3>3, <4>2 DEF Advances, GoesOn, Beyond
    <3>4. QED
      BY <3>2, <3>3
  <2>3. QED
    BY <1>0, <2>1, <2>2, StepSplit DEF CallOf
<1>2. QED
  BY <1>1, WorkersKeep DEF HasChain, ChainFor

(* Whose event has just been decided, and how.                             *)
LEMMA DecidedBy ==
    ASSUME SessionInv, FhNext, NEW d \in FhCallers, fhCalls'[d].action # fhCalls[d].action
    PROVE  \E w \in FhWorkers : FhWorkerStep(w) /\ Decides(w) /\ CallOf(w) = d /\ Busy(w) /\ fhPool' [w] = IdleWorker
<1>1. ASSUME NEW c \in FhCallers, CallAct(c) PROVE FALSE
  BY <1>1, CallsMove DEF CallFrame, SessionInv
<1>2. PICK w \in FhWorkers : FhWorkerStep(w)
  BY <1>1, StepSplit
<1>3. Receives(w) \/ Exits(w) \/ Advances(w) \/ Decides(w)
  BY <1>2, WorkersTurn DEF SessionInv
<1>4. Decides(w)
  BY <1>3 DEF Receives, Exits, Advances, GoesOn
<1>5. PICK act, src, err : Finishes(w, act, src, err)
  BY <1>4 DEF Decides
<1>6. CallOf(w) = d /\ Busy(w) /\ fhPool'[w] = IdleWorker
  BY <1>5 DEF Finishes
<1>7. QED
  BY <1>2, <1>4, <1>6

LEMMA ChainsCalls ==
    ASSUME SessionInv, Chains, FhNext, NEW c \in FhCallers
    PROVE  /\ fhCalls'[c].action \in Outcomes
           /\ fhCalls'[c].action \in Hashed \cup {"skip", "exclude"} => fhCalls'[c].op.layer \in FhLayers /\ HasChain(fhCalls[c].op.layer)'
           /\ fhCalls'[c].op.kind = "register" /\ fhCalls'[c].err = "nil" => HasChain(fhCalls[c].op.layer)'
<1>0. /\ fhCalls[c].action \in Outcomes
      /\ fhCalls[c].action \in Hashed \cup {"skip", "exclude"} => fhCalls[c].op.layer \in FhLayers /\ HasChain(fhCalls[c].op.layer)
      /\ fhCalls[c].op.kind = "register" /\ fhCalls[c].err = "nil" => HasChain(fhCalls[c].op.layer)
  BY DEF Chains
<1>o. fhCalls'[c].op = fhCalls[c].op
  BY CallsKeep
<1>g. fhCalls[c].op.layer \in FhLayers /\ HasChain(fhCalls[c].op.layer) => HasChain(fhCalls[c].op.layer)'
  BY <1>o, Grows DEF Grown, HasChain
<1>1. ASSUME fhCalls'[c].action = fhCalls[c].action
      PROVE  /\ fhCalls'[c].action \in Outcomes
             /\ fhCalls'[c].action \in Hashed \cup {"skip", "exclude"} => fhCalls'[c].op.layer \in FhLayers /\ HasChain(fhCalls[c].op.layer)'
  BY <1>0, <1>1, <1>g, <1>o
<1>2. ASSUME fhCalls'[c].action # fhCalls[c].action
      PROVE  /\ fhCalls'[c].action \in Outcomes
             /\ fhCalls'[c].action \in Hashed \cup {"skip", "exclude"} => fhCalls'[c].op.layer \in FhLayers /\ HasChain(fhCalls[c].op.layer)'
  <2>1. PICK w \in FhWorkers : FhWorkerStep(w) /\ Decides(w) /\ CallOf(w) = c /\ Busy(w)
    BY <1>2, DecidedBy
  <2>2. FhEvent(w) = fhCalls[c].op /\ FhEvent(w).layer \in FhLayers
    BY <2>1, WorkersKeep
  <2>3. fhPool[w].pc \in Beyond => HasChain(FhEvent(w).layer)
    BY DEF Chains
  <2>4. CASE \E act \in {"lost", "marked"} : \E err : Finishes(w, act, NoLayerID, err)
    BY <2>1, <2>4 DEF Finishes, Hashed
  <2>5. CASE ~\E act \in {"lost", "marked"} : \E err : Finishes(w, act, NoLayerID, err)
    <3>1. fhPool[w].pc \in Beyond /\ \E act, src, err : Finishes(w, act, src, err)
      BY <2>1, <2>5 DEF Decides, Beyond
    <3>2. fhCalls'[c].action \in Outcomes
      BY <2>1, <3>1 DEF Finishes
    <3>3. QED
      BY <1>g, <1>o, <2>2, <2>3, <3>1, <3>2
  <2>6. QED
    BY <2>4, <2>5
<1>3. ASSUME fhCalls'[c].op.kind = "register", fhCalls'[c].err = "nil" PROVE HasChain(fhCalls[c].op.layer)'
  <2>0. fhCalls[c].op.layer \in FhLayers
    BY <1>3, <1>o DEF SessionInv, FhShape, FhOps
  <2>1. CASE fhCalls[c].err = "nil"
    BY <1>0, <1>3, <1>g, <1>o, <2>0, <2>1
  <2>2. CASE fhCalls[c].err # "nil"
    <3>1. ASSUME NEW w \in FhWorkers, FhWorkerStep(w) PROVE FALSE
      <4>1. WorkerFrame(w) /\ WorkerMove(w)
        BY <3>1, WorkersMove DEF SessionInv
      <4>2. PICK act, src, err : Finishes(w, act, src, err)
        BY <1>3, <2>2, <4>1 DEF WorkerMove, Receives, Exits, GoesOn
      <4>3. CallOf(w) = c
        BY <1>3, <2>2, <4>2 DEF Finishes
      <4>4. InFlight(c)
        BY <4>1, <4>2, <4>3, LeavesFlight DEF SessionInv
      <4>5. QED
        BY <1>3, <1>o, <4>4 DEF SessionInv, Flight, SendKinds
    <3>2. PICK b \in FhCallers : CallAct(b)
      BY <3>1, StepSplit
    <3>3. CallFrame(b) /\ CallMove(b)
      BY <3>2, CallsMove DEF SessionInv
    <3>4. b = c
      BY <1>3, <2>2, <3>3 DEF CallFrame
    <3>5. fhCalls[c].op.kind = "register"
      BY <1>3, <1>o
    <3>6. Registers2(c)
      BY <1>3, <2>2, <3>3, <3>4, <3>5
         DEF CallMove, Begins, Refused, Closes, Registers1, MarksIt, Sends, Panics, Answered, Finalizes, Resets, SendKinds
    <3>7. fhChains' = [fhChains EXCEPT ![fhCalls[c].op.layer] = ChainOn(fhCalls[c].op)]
      BY <3>6 DEF Registers2, FhChainBuilt
    <3>8. fhChains'[fhCalls[c].op.layer] = ChainOn(fhCalls[c].op)
      BY <2>0, <3>7 DEF Chains
    <3>9. ChainOn(fhCalls[c].op) # << >>
      <4> DEFINE l == fhCalls[c].op.layer
                 base == IF fhCalls[c].op.parent = NoLayerID THEN << >> ELSE fhChains[fhCalls[c].op.parent]
      <4>1. ChainOn(fhCalls[c].op) = base \o <<l>>
        BY DEF ChainOn
      <4>2. base \in Seq(FhLayers)
        BY DEF SessionInv, ChainSeqs, FhShape, FhOps
      <4>3. <<l>> \in Seq(FhLayers) /\ Len(<<l>>) = 1
        BY <2>0, OneElement
      <4> HIDE DEF base, l
      <4>4. Len(base \o <<l>>) = Len(base) + 1 /\ Len(base) \in Nat
        BY <4>2, <4>3, ConcatProperties
      <4>5. Len(base \o <<l>>) # 0
        BY <4>4
      <4>6. QED
        BY <4>1, <4>5
    <3>10. QED
      BY <1>o, <3>8, <3>9 DEF HasChain
  <2>3. QED
    BY <2>1, <2>2
<1>4. QED
  BY <1>1, <1>2, <1>3, <1>0

LEMMA ChainsKept == SessionInv /\ Chains /\ FhNext => Chains'
<1> SUFFICES ASSUME SessionInv, Chains, FhNext PROVE Chains'
  OBVIOUS
<1>1. \A c \in FhCallers : fhCalls'[c].op = fhCalls[c].op
  BY CallsKeep
<1>2. \A c \in FhCallers : Builds(c)' =>
           /\ fhCalls'[c].op.layer \in fhLayers'.known /\ ~HasChain(fhCalls[c].op.layer)'
           /\ fhCalls'[c].op.parent = NoLayerID \/ fhCalls'[c].op.parent \in fhLayers'.known \ {fhCalls'[c].op.layer}
           /\ \A d \in FhCallers \ {c} : ~(Builds(d)' /\ fhCalls'[d].op.layer = fhCalls'[c].op.layer)
  BY ChainsRegister
<1>3. \A v \in FhWorkers : fhPool'[v].pc \in Beyond => HasChain(FhEvent(v).layer)'
  BY ChainsWorkers
<1>4. QED
  BY <1>2, <1>3, ChainsStore, ChainsCalls DEF Chains, StoreFields, Builds

-----------------------------------------------------------------------------
(* Owners: with more marks the owner of a path is not lower.               *)
LEMMA OwnerGrows ==
    ASSUME NEW S, NEW chain \in Seq(S), NEW A, NEW B, A \subseteq B
    PROVE  /\ OwnerWith(A, chain) \in Nat /\ OwnerWith(B, chain) \in Nat
           /\ OwnerWith(A, chain) <= OwnerWith(B, chain)
<1> DEFINE own(M) == {i \in DOMAIN chain : chain[i] \in M}
<1>1. /\ Len(chain) \in Nat /\ \A M : own(M) \in SUBSET (1..Len(chain))
      /\ own(A) \subseteq own(B)
  OBVIOUS
<1>2. \A M : OwnerWith(M, chain) = IF own(M) = {} THEN 1 ELSE FhTop(own(M))
  BY DEF OwnerWith
<1> HIDE DEF own
<1>3. ASSUME NEW M, own(M) # {}
      PROVE  FhTop(own(M)) \in own(M) /\ FhTop(own(M)) \in 1..Len(chain) /\ \A y \in own(M) : y <= FhTop(own(M))
  BY <1>1, <1>3, TopOf
<1>4. \A M : OwnerWith(M, chain) \in Nat /\ OwnerWith(M, chain) >= 1
  <2> TAKE M
  <2>1. CASE own(M) = {}
    BY <1>2, <2>1
  <2>2. CASE own(M) # {}
    BY <1>1, <1>2, <1>3, <2>2
  <2>3. QED
    BY <2>1, <2>2
<1>5. CASE own(A) = {}
  BY <1>2, <1>4, <1>5
<1>6. CASE own(A) # {}
  <2>1. own(B) # {}
    BY <1>1, <1>6
  <2>2. FhTop(own(A)) \in own(B)
    BY <1>1, <1>3, <1>6
  <2>3. QED
    BY <1>2, <1>3, <1>4, <1>6, <2>1, <2>2
<1>7. QED
  BY <1>4, <1>5, <1>6

LEMMA MarksGrow ==
    ASSUME Grown
    PROVE  /\ \A l, p : Hides(l, p) => Hides(l, p)'
           /\ \A p : ModsNow(p) \subseteq ModsNow(p)'
BY DEF Grown, Hides, ModsNow

LEMMA MarksKept == SessionInv /\ Chains /\ MarksStay /\ FhNext => MarksStay'
<1> SUFFICES ASSUME SessionInv, Chains, MarksStay, FhNext, NEW c \in FhCallers
             PROVE  /\ fhCalls'[c].mods \subseteq ModsNow(fhCalls[c].op.path)'
                    /\ \A l \in fhCalls'[c].hides : Hides(l, fhCalls[c].op.path)'
  BY DEF MarksStay
<1>1. Grown
  BY Grows
<1>2. fhCalls'[c].op = fhCalls[c].op /\ (Kept3(c) \/ Begins(c))
  BY CallsKeep
<1> DEFINE p == fhCalls[c].op.path
<1>3. fhCalls'[c].mods \subseteq ModsNow(p) /\ \A l \in fhCalls'[c].hides : Hides(l, p)
  <2>1. CASE Kept3(c)
    BY <2>1 DEF Kept3, MarksStay
  <2>2. CASE Begins(c)
    BY <2>2 DEF Begins, ModsNow
  <2>3. QED
    BY <1>2, <2>1, <2>2
<1>4. fhCalls'[c].mods \subseteq {l \in FhLayers : <<l, p>> \in fhLayers'.modified}
  BY <1>1, <1>3 DEF Grown, ModsNow
<1>5. \A l \in fhCalls'[c].hides : \/ <<l, p>> \in fhLayers'.deleted
                                   \/ \E d \in DirsOf(p) : <<l, d>> \in fhLayers'.opaque
  BY <1>1, <1>3 DEF Grown, Hides
<1>6. p = fhCalls'[c].op.path
  BY <1>2
<1> HIDE DEF p
<1>7. QED
  BY <1>4, <1>5, <1>6 DEF ModsNow, Hides

(* The owner that a worker reads is that of the marks of the moment.       *)
LEMMA OwnerIsNow ==
    ASSUME NEW chain \in Seq(FhLayers), NEW p
    PROVE  OwnerOf(chain, p) = OwnerWith(ModsNow(p), chain)
<1>1. ModifiedIn(chain, p) = {i \in DOMAIN chain : chain[i] \in ModsNow(p)}
  BY DEF ModifiedIn, ModsNow
<1>2. QED
  BY <1>1 DEF OwnerOf, OwnerWith

LEMMA OwnerKept == SessionInv /\ Chains /\ MarksStay /\ OwnerKnown /\ FhNext => OwnerKnown'
<1> SUFFICES ASSUME SessionInv, Chains, MarksStay, OwnerKnown, FhNext PROVE OwnerKnown'
  OBVIOUS
<1> DEFINE Later(p) == {l \in FhLayers : <<l, p>> \in fhLayers'.modified}
<1>1. ASSUME NEW v \in FhWorkers, fhPool'[v].pc \in {"visible", "filter"} \cup PastPcs,
             NEW c, c = CallOf(v), NEW chain, chain = ChainFor(v), NEW p, p = FhEvent(v).path, NEW M, M = Later(p)
      PROVE  /\ fhPool'[v].call = c /\ c \in FhCallers /\ fhCalls'[c].op = FhEvent(v) /\ fhChains'[FhEvent(v).layer] = chain
             /\ fhPool'[v].pc = "visible" => fhPool'[v].owner \in OwnerWith(fhCalls'[c].mods, chain)..OwnerWith(M, chain)
             /\ fhPool'[v].pc \in {"filter"} \cup PastPcs =>
                  \A i \in (OwnerWith(M, chain) + 1)..Len(chain) : chain[i] \notin fhCalls'[c].hides
             /\ fhPool'[v].pc = "rehash" => fhPool'[v].cached.layer \in Range(chain) /\ fhPool'[v].cached.path = p
  <2>1. Busy(v) /\ HasChain(FhEvent(v).layer) /\ fhPool'[v].call = c
    BY <1>1, ChainsWorkers DEF PastPcs, Beyond
  <2>2. /\ c \in FhCallers /\ FhEvent(v).layer \in FhLayers /\ FhEvent(v) = fhCalls[c].op /\ fhCalls'[c].op = FhEvent(v)
        /\ Kept3(c) /\ fhChains'[FhEvent(v).layer] = chain
    BY <1>1, <2>1, WorkersKeep
  <2>3. /\ fhPool[v].pc = "visible" => fhPool[v].owner \in OwnerWith(fhCalls[c].mods, chain)..OwnerWith(ModsNow(p), chain)
        /\ fhPool[v].pc \in {"filter"} \cup PastPcs =>
             \A i \in (OwnerWith(ModsNow(p), chain) + 1)..Len(chain) : chain[i] \notin fhCalls[c].hides
        /\ fhPool[v].pc = "rehash" => fhPool[v].cached.layer \in Range(chain) /\ fhPool[v].cached.path = p
    BY <1>1, <2>2 DEF OwnerKnown, CallOf, ChainFor, FhEvent, PastPcs
  <2>4. /\ fhCalls[c].mods \subseteq ModsNow(p) /\ \A l \in fhCalls[c].hides : Hides(l, p)
        /\ fhCalls'[c].mods = fhCalls[c].mods /\ fhCalls'[c].hides = fhCalls[c].hides
    BY <1>1, <2>2 DEF MarksStay, Kept3
  <2>5. ModsNow(p) \subseteq M
    BY <1>1, Grows DEF Grown, ModsNow
  <2>c. chain \in Seq(FhLayers) /\ Len(chain) \in Nat
    BY <1>1, <2>2 DEF ChainFor, SessionInv, ChainSeqs
  <2>6. /\ OwnerWith(fhCalls[c].mods, chain) \in Nat /\ OwnerWith(ModsNow(p), chain) \in Nat /\ OwnerWith(M, chain) \in Nat
        /\ OwnerWith(fhCalls[c].mods, chain) <= OwnerWith(ModsNow(p), chain)
        /\ OwnerWith(ModsNow(p), chain) <= OwnerWith(M, chain)
    BY <2>4, <2>5, <2>c, OwnerGrows
  <2> DEFINE lo == OwnerWith(fhCalls[c].mods, chain)
             mid == OwnerWith(ModsNow(p), chain)
             hi == OwnerWith(M, chain)
  <2>7. CASE fhPool'[v] = fhPool[v]
    <3> HIDE DEF lo, mid, hi
    <3>1. fhPool'[v].pc = "visible" => fhPool'[v].owner \in lo..hi
      BY <2>3, <2>6, <2>7 DEF lo, mid, hi
    <3>2. fhPool'[v].pc \in {"filter"} \cup PastPcs => \A i \in (hi + 1)..Len(chain) : chain[i] \notin fhCalls[c].hides
      BY <2>3, <2>6, <2>7, <2>c DEF lo, mid, hi
    <3>3. QED
      BY <2>1, <2>2, <2>3, <2>4, <2>7, <3>1, <3>2 DEF lo, hi
  <2>8. CASE fhPool'[v] # fhPool[v]
    <3>1. FhWorkerStep(v) /\ Advances(v)
      <4>1. ASSUME NEW b \in FhCallers, CallAct(b) PROVE FALSE
        BY <2>8, <4>1, CallsMove DEF CallFrame, SessionInv
      <4>2. PICK w \in FhWorkers : FhWorkerStep(w)
        BY <4>1, StepSplit
      <4>3. WorkerFrame(w) /\ (Receives(w) \/ Exits(w) \/ Advances(w) \/ Decides(w))
        BY <4>2, WorkersTurn DEF SessionInv
      <4>4. w = v
        BY <2>8, <4>3 DEF WorkerFrame
      <4>5. ~Receives(v) /\ ~Exits(v) /\ ~Decides(v)
        BY <1>1 DEF Receives, Exits, Decides, Finishes, IdleWorker, PastPcs
      <4>6. QED
        BY <4>2, <4>3, <4>4, <4>5
    <3>2. fhPool'[v].pc = "visible" => fhPool'[v].owner \in lo..hi
      <4> SUFFICES ASSUME fhPool'[v].pc = "visible" PROVE fhPool'[v].owner \in lo..hi
        OBVIOUS
      <4>1. fhPool'[v].owner = OwnerOf(chain, p)
        BY <1>1, <3>1 DEF Advances, PathOf, PastPcs
      <4>2. fhPool'[v].owner = mid
        BY <2>c, <4>1, OwnerIsNow
      <4> HIDE DEF lo, mid, hi
      <4>3. QED
        BY <2>6, <4>2 DEF lo, mid, hi
    <3>3. fhPool'[v].pc \in {"filter"} \cup PastPcs => \A i \in (hi + 1)..Len(chain) : chain[i] \notin fhCalls[c].hides
      <4>1. CASE fhPool[v].pc \in {"filter"} \cup PastPcs
        <5> HIDE DEF lo, mid, hi
        <5>1. QED
          BY <2>3, <2>6, <2>c, <4>1 DEF lo, mid, hi
      <4>2. CASE fhPool'[v].pc \in {"filter"} \cup PastPcs /\ fhPool[v].pc \notin {"filter"} \cup PastPcs
        <5>1. fhPool[v].pc = "visible" /\ IsFileVisible(chain, p, fhPool[v].owner)
          BY <1>1, <3>1, <4>2 DEF Advances, PathOf, PastPcs
        <5> HIDE DEF lo, mid, hi
        <5>2. fhPool[v].owner \in lo..mid
          BY <2>3, <5>1 DEF lo, mid
        <5>3. \A i \in (fhPool[v].owner + 1)..Len(chain) : ~Hides(chain[i], p)
          BY <5>1 DEF IsFileVisible
        <5>4. \A i \in (hi + 1)..Len(chain) : ~Hides(chain[i], p)
          BY <2>6, <2>c, <5>2, <5>3 DEF lo, mid, hi
        <5>5. QED
          BY <2>4, <5>4
      <4>3. QED
        BY <4>1, <4>2
    <3>4. fhPool'[v].pc = "rehash" => fhPool'[v].cached.layer \in Range(chain) /\ fhPool'[v].cached.path = p
      BY <1>1, <3>1, CacheWorks DEF SessionInv
    <3>5. QED
      BY <2>1, <2>2, <2>4, <3>2, <3>3, <3>4
  <2>9. QED
    BY <2>7, <2>8
<1> HIDE DEF Later
<1>2. ASSUME NEW v \in FhWorkers
      PROVE  /\ fhPool'[v].pc = "visible" =>
                  fhPool'[v].owner \in OwnerWith(fhCalls'[fhPool'[v].call].mods, fhChains'[fhCalls'[fhPool'[v].call].op.layer])
                                         ..OwnerWith(Later(fhCalls'[fhPool'[v].call].op.path), fhChains'[fhCalls'[fhPool'[v].call].op.layer])
             /\ fhPool'[v].pc \in {"filter", "lookup", "rehash", "compute", "record"} =>
                  \A i \in (OwnerWith(Later(fhCalls'[fhPool'[v].call].op.path), fhChains'[fhCalls'[fhPool'[v].call].op.layer]) + 1)
                               ..Len(fhChains'[fhCalls'[fhPool'[v].call].op.layer]) :
                      fhChains'[fhCalls'[fhPool'[v].call].op.layer][i] \notin fhCalls'[fhPool'[v].call].hides
             /\ fhPool'[v].pc = "rehash" =>
                  /\ fhPool'[v].cached.layer \in Range(fhChains'[fhCalls'[fhPool'[v].call].op.layer])
                  /\ fhPool'[v].cached.path = fhCalls'[fhPool'[v].call].op.path
  <2>1. CASE fhPool'[v].pc \in {"visible", "filter"} \cup PastPcs
    BY <1>1, <2>1 DEF PastPcs
  <2>2. CASE fhPool'[v].pc \notin {"visible", "filter"} \cup PastPcs
    BY <2>2 DEF PastPcs
  <2>3. QED
    BY <2>1, <2>2
<1>3. QED
  BY <1>2 DEF OwnerKnown, Later, ModsNow

(* What has been decided stands, and what it was decided from.             *)
Decided == Hashed \cup {"skip", "exclude"}
LEMMA DecidedStays ==
    ASSUME SessionInv, Chains, FhNext, NEW d \in FhCallers, fhCalls[d].action \in Decided
    PROVE  /\ fhCalls'[d].op = fhCalls[d].op /\ fhCalls'[d].action = fhCalls[d].action /\ fhCalls'[d].src = fhCalls[d].src
           /\ fhCalls'[d].mods = fhCalls[d].mods /\ fhCalls'[d].hides = fhCalls[d].hides
           /\ fhChains'[fhCalls[d].op.layer] = fhChains[fhCalls[d].op.layer] /\ fhCalls[d].op.layer \in FhLayers
<1>1. fhCalls[d].action # "none"
  BY DEF Decided, Hashed
<1>2. fhCalls[d].op.layer \in FhLayers /\ HasChain(fhCalls[d].op.layer)
  BY DEF Decided, Chains
<1>3. fhChains'[fhCalls[d].op.layer] = fhChains[fhCalls[d].op.layer]
  BY <1>2, Grows DEF Grown
<1>4. QED
  BY <1>1, <1>2, <1>3, CallsKeep DEF Kept3

LEMMA NewlyDecided ==
    ASSUME SessionInv, Chains, FhNext, NEW d \in FhCallers, fhCalls'[d].action # fhCalls[d].action, fhCalls'[d].action \in Decided
    PROVE  \E w \in FhWorkers :
             /\ FhWorkerStep(w) /\ CallOf(w) = d /\ Busy(w) /\ FhEvent(w) = fhCalls[d].op /\ fhCalls'[d].op = fhCalls[d].op
             /\ UNCHANGED FhStore /\ FhEvent(w).layer \in FhLayers
             /\ fhCalls'[d].mods = fhCalls[d].mods /\ fhCalls'[d].hides = fhCalls[d].hides
             /\ \/ /\ fhPool[w].pc = "visible" /\ ~IsFileVisible(ChainFor(w), PathOf(w), fhPool[w].owner)
                   /\ fhCalls'[d].action = "exclude"
                \/ fhPool[w].pc = "filter" /\ fhCalls'[d].action = "skip"
                \/ /\ fhPool[w].pc = "rehash" /\ ~NeedsRehash(ChainFor(w), PathOf(w), fhPool[w].cached.layer)
                   /\ fhCalls'[d].action = "reuse" /\ fhCalls'[d].src = fhPool[w].cached.layer
                \/ fhPool[w].pc = "record" /\ fhCalls'[d].action = "compute"
<1>1. PICK w \in FhWorkers : FhWorkerStep(w) /\ Decides(w) /\ CallOf(w) = d /\ Busy(w)
  BY DecidedBy
<1>2. ~\E act \in {"lost", "marked"} : \E err : Finishes(w, act, NoLayerID, err)
  BY <1>1 DEF Finishes, Decided, Hashed
<1>3. /\ FhEvent(w) = fhCalls[d].op /\ fhCalls'[d].op = fhCalls[d].op /\ FhEvent(w).layer \in FhLayers
      /\ fhCalls'[d].mods = fhCalls[d].mods /\ fhCalls'[d].hides = fhCalls[d].hides
  BY <1>1, WorkersKeep DEF Kept3
<1>4. UNCHANGED FhStore
  BY <1>1, <1>2 DEF Decides
<1>5. \/ /\ fhPool[w].pc = "visible" /\ ~IsFileVisible(ChainFor(w), PathOf(w), fhPool[w].owner)
         /\ fhCalls'[d].action = "exclude"
      \/ fhPool[w].pc = "filter" /\ fhCalls'[d].action = "skip"
      \/ /\ fhPool[w].pc = "rehash" /\ ~NeedsRehash(ChainFor(w), PathOf(w), fhPool[w].cached.layer)
         /\ fhCalls'[d].action = "reuse" /\ fhCalls'[d].src = fhPool[w].cached.layer
      \/ fhPool[w].pc = "record" /\ fhCalls'[d].action = "compute"
  BY <1>1, <1>2 DEF Decides, Finishes
<1>6. QED
  BY <1>1, <1>3, <1>4, <1>5

LEMMA ReuseKept == SessionInv /\ Chains /\ MarksStay /\ OwnerKnown /\ ReuseCurrent /\ FhNext => ReuseCurrent'
<1> SUFFICES ASSUME SessionInv, Chains, MarksStay, OwnerKnown, ReuseCurrent, FhNext, NEW d \in FhCallers, fhCalls'[d].action = "reuse"
             PROVE  fhCalls'[d].mods \intersect LayersAbove(fhChains'[fhCalls'[d].op.layer], fhCalls'[d].src) = {}
  BY DEF ReuseCurrent, LayersAbove, ChainPos
<1>0. fhCalls'[d].action \in Decided
  BY DEF Decided, Hashed
<1>1. CASE fhCalls'[d].action = fhCalls[d].action
  BY <1>0, <1>1, DecidedStays DEF ReuseCurrent
<1>2. CASE fhCalls'[d].action # fhCalls[d].action
  <2>1. PICK w \in FhWorkers :
             /\ CallOf(w) = d /\ Busy(w) /\ FhEvent(w) = fhCalls[d].op /\ fhCalls'[d].op = fhCalls[d].op
             /\ UNCHANGED FhStore /\ FhEvent(w).layer \in FhLayers
             /\ fhCalls'[d].mods = fhCalls[d].mods
             /\ fhPool[w].pc = "rehash" /\ ~NeedsRehash(ChainFor(w), PathOf(w), fhPool[w].cached.layer)
             /\ fhCalls'[d].src = fhPool[w].cached.layer
    BY <1>0, <1>2, NewlyDecided
  <2> DEFINE chain == ChainFor(w)
             p == FhEvent(w).path
             src == fhPool[w].cached.layer
  <2>2. src \in Range(chain) /\ \A i \in ModifiedIn(chain, p) : ~(i > ChainPos(chain, src))
    BY <2>1 DEF NeedsRehash, PathOf
  <2>3. fhCalls[d].mods \subseteq ModsNow(p)
    BY <2>1 DEF MarksStay
  <2>4. fhChains'[fhCalls'[d].op.layer] = chain /\ chain \in Seq(FhLayers)
    BY <2>1 DEF FhStore, ChainFor, SessionInv, ChainSeqs
  <2>5. ChainPos(chain, src) \in 1..Len(chain)
    <3>1. \E i \in DOMAIN chain : chain[i] = src
      BY <2>2 DEF Range
    <3>2. ChainPos(chain, src) \in DOMAIN chain
      BY <2>2, <3>1 DEF ChainPos
    <3>3. QED
      BY <2>4, <3>2
  <2>6. ASSUME NEW l \in fhCalls'[d].mods, l \in LayersAbove(chain, src) PROVE FALSE
    <3> HIDE DEF chain, p, src
    <3>1. PICK i \in (ChainPos(chain, src) + 1)..Len(chain) : l = chain[i]
      BY <2>6 DEF LayersAbove
    <3>2. i \in DOMAIN chain /\ i > ChainPos(chain, src)
      BY <2>4, <2>5, <3>1
    <3>3. <<chain[i], p>> \in fhLayers.modified
      BY <2>1, <2>3, <2>6, <3>1 DEF ModsNow
    <3>4. QED
      BY <2>2, <3>2, <3>3 DEF ModifiedIn
  <2>7. QED
    BY <2>1, <2>4, <2>6
<1>3. QED
  BY <1>1, <1>2

LEMMA VisibilityKept == SessionInv /\ Chains /\ MarksStay /\ OwnerKnown /\ VisibilityDecided /\ FhNext => VisibilityDecided'
<1> SUFFICES ASSUME SessionInv, Chains, MarksStay, OwnerKnown, VisibilityDecided, FhNext PROVE VisibilityDecided'
  OBVIOUS
<1> DEFINE Later(p) == {l \in FhLayers : <<l, p>> \in fhLayers'.modified}
           HidesNext(l, p) == \/ <<l, p>> \in fhLayers'.deleted
                              \/ \E e \in DirsOf(p) : <<l, e>> \in fhLayers'.opaque
<1>1. ASSUME NEW d \in FhCallers, fhCalls'[d].action \in Decided,
             NEW chain, chain = fhChains'[fhCalls'[d].op.layer], NEW p, p = fhCalls'[d].op.path, NEW M, M = Later(p)
      PROVE  /\ fhCalls'[d].action = "exclude" =>
                   \E i \in (OwnerWith(fhCalls'[d].mods, chain) + 1)..Len(chain) : HidesNext(chain[i], p)
             /\ fhCalls'[d].action \in Hashed \union {"skip"} =>
                   \A i \in (OwnerWith(M, chain) + 1)..Len(chain) : chain[i] \notin fhCalls'[d].hides
  <2>o. fhCalls'[d].op = fhCalls[d].op
    BY CallsKeep
  <2>g. ModsNow(p) \subseteq M /\ \A l : Hides(l, p) => HidesNext(l, p)
    BY <1>1, Grows DEF Grown, ModsNow, Hides
  <2>1. CASE fhCalls'[d].action = fhCalls[d].action
    <3>1. /\ fhCalls'[d].mods = fhCalls[d].mods /\ fhCalls'[d].hides = fhCalls[d].hides
          /\ chain = fhChains[fhCalls[d].op.layer] /\ fhCalls[d].op.layer \in FhLayers
      BY <1>1, <2>1, <2>o, DecidedStays
    <3>2. /\ fhCalls[d].action = "exclude" =>
                   \E i \in (OwnerWith(fhCalls[d].mods, chain) + 1)..Len(chain) : Hides(chain[i], p)
          /\ fhCalls[d].action \in Hashed \union {"skip"} =>
                   \A i \in (OwnerWith(ModsNow(p), chain) + 1)..Len(chain) : chain[i] \notin fhCalls[d].hides
      BY <1>1, <2>o, <3>1 DEF VisibilityDecided
    <3>3. chain \in Seq(FhLayers) /\ Len(chain) \in Nat
      BY <3>1 DEF SessionInv, ChainSeqs
    <3>4. OwnerWith(ModsNow(p), chain) \in Nat /\ OwnerWith(M, chain) \in Nat /\ OwnerWith(ModsNow(p), chain) <= OwnerWith(M, chain)
      BY <2>g, <3>3, OwnerGrows
    <3> DEFINE mid == OwnerWith(ModsNow(p), chain)
               hi == OwnerWith(M, chain)
    <3> HIDE DEF mid, hi, HidesNext
    <3>5. fhCalls[d].action \in Hashed \union {"skip"} => \A i \in (hi + 1)..Len(chain) : chain[i] \notin fhCalls[d].hides
      BY <3>2, <3>3, <3>4 DEF mid, hi
    <3>6. QED
      BY <2>1, <2>g, <3>1, <3>2, <3>5 DEF hi
  <2>2. CASE fhCalls'[d].action # fhCalls[d].action
    <3>1. PICK w \in FhWorkers :
             /\ CallOf(w) = d /\ Busy(w) /\ FhEvent(w) = fhCalls[d].op
             /\ UNCHANGED FhStore /\ FhEvent(w).layer \in FhLayers
             /\ fhCalls'[d].mods = fhCalls[d].mods /\ fhCalls'[d].hides = fhCalls[d].hides
             /\ \/ /\ fhPool[w].pc = "visible" /\ ~IsFileVisible(ChainFor(w), PathOf(w), fhPool[w].owner)
                   /\ fhCalls'[d].action = "exclude"
                \/ fhPool[w].pc \in {"filter", "rehash", "record"} /\ fhCalls'[d].action \in Hashed \union {"skip"}
      BY <1>1, <2>2, NewlyDecided DEF Hashed
    <3>2. chain = ChainFor(w) /\ p = PathOf(w) /\ chain \in Seq(FhLayers) /\ Len(chain) \in Nat /\ M = ModsNow(p)
      BY <1>1, <2>o, <3>1 DEF FhStore, ChainFor, PathOf, SessionInv, ChainSeqs, ModsNow
    <3>3. /\ fhPool[w].pc = "visible" => fhPool[w].owner \in OwnerWith(fhCalls[d].mods, chain)..OwnerWith(ModsNow(p), chain)
          /\ fhPool[w].pc \in {"filter", "rehash", "record"} =>
               \A i \in (OwnerWith(ModsNow(p), chain) + 1)..Len(chain) : chain[i] \notin fhCalls[d].hides
      BY <3>1, <3>2 DEF OwnerKnown, CallOf, ChainFor, PathOf, FhEvent
    <3>4. fhCalls[d].mods \subseteq ModsNow(p)
      BY <1>1, <2>o DEF MarksStay
    <3>5. OwnerWith(fhCalls[d].mods, chain) \in Nat /\ OwnerWith(ModsNow(p), chain) \in Nat
      BY <3>2, <3>4, OwnerGrows
    <3> DEFINE lo == OwnerWith(fhCalls[d].mods, chain)
               hi == OwnerWith(M, chain)
    <3> HIDE DEF lo, hi, HidesNext
    <3>6. CASE fhPool[w].pc = "visible" /\ ~IsFileVisible(chain, p, fhPool[w].owner) /\ fhCalls'[d].action = "exclude"
      <4>1. fhPool[w].owner \in lo..hi /\ lo \in Nat /\ hi \in Nat
        BY <3>2, <3>3, <3>5, <3>6 DEF lo, hi
      <4>2. PICK i \in (fhPool[w].owner + 1)..Len(chain) : Hides(chain[i], p)
        BY <3>6 DEF IsFileVisible
      <4>3. i \in (lo + 1)..Len(chain) /\ HidesNext(chain[i], p)
        BY <2>g, <3>2, <4>1, <4>2
      <4>4. QED
        BY <3>1, <3>6, <4>3 DEF lo, Hashed
    <3>7. CASE fhPool[w].pc \in {"filter", "rehash", "record"} /\ fhCalls'[d].action \in Hashed \union {"skip"}
      BY <3>1, <3>2, <3>3, <3>7 DEF hi, Hashed
    <3>8. QED
      BY <3>1, <3>2, <3>6, <3>7
  <2>3. QED
    BY <2>1, <2>2
<1>2. ASSUME NEW d \in FhCallers
      PROVE  /\ fhCalls'[d].action = "exclude" =>
                   \E i \in (OwnerWith(fhCalls'[d].mods, fhChains'[fhCalls'[d].op.layer]) + 1)..Len(fhChains'[fhCalls'[d].op.layer]) :
                       HidesNext(fhChains'[fhCalls'[d].op.layer][i], fhCalls'[d].op.path)
             /\ fhCalls'[d].action \in Hashed \union {"skip"} =>
                   \A i \in (OwnerWith(Later(fhCalls'[d].op.path), fhChains'[fhCalls'[d].op.layer]) + 1)..Len(fhChains'[fhCalls'[d].op.layer]) :
                       fhChains'[fhCalls'[d].op.layer][i] \notin fhCalls'[d].hides
  <2> HIDE DEF Later, HidesNext
  <2>1. CASE fhCalls'[d].action \in Decided
    BY <1>1, <2>1
  <2>2. CASE fhCalls'[d].action \notin Decided
    BY <2>2 DEF Decided
  <2>3. QED
    BY <2>1, <2>2
<1>3. QED
  BY <1>2 DEF VisibilityDecided, ModsNow, Hides

(* The bounds of the channel and of the cache, and what the tracker holds. *)
LEMMA CallsBound ==
    ASSUME SessionInv, Entries, NEW c \in FhCallers, CallAct(c)
    PROVE  Len(fhQueue') <= FhBuffer /\ fhChan' \in {"open", "closed", "shut"} /\ fhFilter' \subseteq FhLayers \X FhPaths
<1>1. CallMove(c)
  BY CallsMove DEF SessionInv
<1>2. Len(fhQueue') <= FhBuffer
  <2>1. CASE Sends(c)
    <3>1. Len(fhQueue') = Len(fhQueue) + 1 /\ Len(fhQueue) \in Nat /\ Len(fhQueue) < FhBuffer /\ FhBuffer \in Nat
      BY <2>1, QueueMoves, FhBounds DEF Sends, SessionInv
    <3>2. QED
      BY <3>1
  <2>2. CASE ~Sends(c)
    <3>1. fhQueue' = fhQueue
      BY <1>1, <2>2 DEF CallMove, Begins, Refused, Closes, Registers1, Registers2, MarksIt, Panics, Answered, Finalizes, Resets
    <3>2. QED
      BY <3>1 DEF Entries
  <2>3. QED
    BY <2>1, <2>2
<1>3. fhChan' \in {"open", "closed", "shut"}
  BY DEF Entries, CallAct, FhCallStep, FhBegin, FhClose, FhGiveUp, FhRegister, FhChainBuilt, FhMark, FhSend, FhReply, FhFinalize,
         FhResetSession, FhShut, FhClosed
<1>4. fhFilter' \subseteq FhLayers \X FhPaths
  BY SessionMoves DEF Entries
<1>5. QED
  BY <1>2, <1>3, <1>4

LEMMA WorkersBound ==
    ASSUME SessionInv, Entries, NEW w \in FhWorkers, FhWorkerStep(w)
    PROVE  Len(fhQueue') <= FhBuffer /\ fhChan' \in {"open", "closed", "shut"} /\ fhFilter' \subseteq FhLayers \X FhPaths
<1>1. WorkerFrame(w) /\ WorkerMove(w)
  BY WorkersMove DEF SessionInv
<1>2. Len(fhQueue') <= FhBuffer
  <2>1. CASE Receives(w)
    <3>1. Len(fhQueue') = Len(fhQueue) - 1 /\ Len(fhQueue) \in Nat /\ Len(fhQueue) <= FhBuffer /\ FhBuffer \in Nat
      BY <2>1, QueueMoves, FhBounds DEF Receives, SessionInv, Entries
    <3>2. QED
      BY <3>1
  <2>2. CASE ~Receives(w)
    <3>1. fhQueue' = fhQueue
      BY <1>1, <2>2 DEF WorkerMove, Exits, GoesOn, Finishes
    <3>2. QED
      BY <3>1 DEF Entries
  <2>3. QED
    BY <2>1, <2>2
<1>3. fhFilter' \subseteq FhLayers \X FhPaths
  <2>1. CASE FhTestAndAdd(w)
    <3>1. Busy(w) /\ fhFilter' = fhFilter \union {<<FhEvent(w).layer, FhEvent(w).path>>}
      BY <2>1 DEF FhTestAndAdd, FhWorking, Busy
    <3>2. FhEvent(w).layer \in FhLayers /\ FhEvent(w).path \in FhPaths
      BY <3>1, EventTyped DEF SessionInv
    <3>3. QED
      BY <3>1, <3>2 DEF Entries
  <2>2. CASE ~FhTestAndAdd(w)
    <3>1. fhFilter' = fhFilter
      BY <2>2 DEF FhWorkerStep, FhReceive, FhExit, FhInterpret, FhOwner, FhVisible, FhLookup, FhResolve, FhCompute, FhRecord, FhHashing
    <3>2. QED
      BY <3>1 DEF Entries
  <2>3. QED
    BY <2>1, <2>2
<1>4. QED
  BY <1>1, <1>2, <1>3 DEF WorkerFrame, Entries

(* A leaf of the tracker comes from a layer of the chain.                  *)
LEMMA TrackerEntries ==
    ASSUME SessionInv, Chains, OwnerKnown, Entries, FhNext, NEW t \in fhTracker'
    PROVE  t.layer \in FhLayers /\ HasChain(t.layer) /\ t.src \in Range(fhChains[t.layer]) /\ HashTyped(t.hash)
<1>1. CASE t \in fhTracker
  BY <1>1 DEF Entries
<1>2. CASE t \notin fhTracker
  <2>1. ASSUME NEW c \in FhCallers, CallAct(c) PROVE FALSE
    BY <1>2, <2>1, CallsMove DEF CallFrame, SessionInv
  <2>2. PICK w \in FhWorkers : FhWorkerStep(w)
    BY <2>1, StepSplit
  <2>3. PICK entry : /\ t = [layer |-> FhEvent(w).layer, path |-> entry.path, hash |-> entry.hash, src |-> entry.layer]
                     /\ \/ fhPool[w].pc = "rehash" /\ entry = fhPool[w].cached
                        \/ fhPool[w].pc = "record" /\ entry = Computed(w)
    <3>1. CASE FhResolve(w)
      BY <1>2, <3>1 DEF FhResolve, FhWorking, FhTracked
    <3>2. CASE FhRecord(w)
      BY <1>2, <3>2 DEF FhRecord, FhWorking, FhTracked
    <3>3. CASE ~FhResolve(w) /\ ~FhRecord(w)
      BY <1>2, <2>2, <3>3 DEF FhWorkerStep, FhReceive, FhExit, FhInterpret, FhOwner, FhVisible, FhTestAndAdd, FhLookup, FhCompute, FhHashing
    <3>4. QED
      BY <3>1, <3>2, <3>3
  <2>4. Busy(w) /\ fhPool[w].pc \in Beyond
    BY <2>3 DEF Busy, Beyond
  <2>5. /\ FhEvent(w).layer \in FhLayers /\ HasChain(FhEvent(w).layer) /\ ChainFor(w) = fhChains[FhEvent(w).layer]
        /\ FhEvent(w) = fhCalls[CallOf(w)].op
    BY <2>4, EventTyped DEF SessionInv, Chains, ChainFor
  <2>6. entry.layer \in Range(ChainFor(w)) /\ HashTyped(entry.hash)
    <3>1. CASE fhPool[w].pc = "rehash" /\ entry = fhPool[w].cached
      BY <2>5, <3>1 DEF OwnerKnown, Entries, ChainFor, FhEvent
    <3>2. CASE fhPool[w].pc = "record" /\ entry = Computed(w)
      <4>1. Computed(w) \in CacheEntry /\ Computed(w).layer = FhEvent(w).layer
        BY <2>4, ComputedTyped DEF SessionInv, Computed
      <4>2. Last(ChainFor(w)) = FhEvent(w).layer /\ ChainFor(w) \in Seq(FhLayers) /\ ChainFor(w) # << >>
        BY <2>5 DEF Chains, SessionInv, ChainSeqs, HasChain
      <4>3. HashTyped(Computed(w).hash)
        BY <4>1 DEF CacheEntry, HashTyped
      <4>4. QED
        BY <3>2, <4>1, <4>2, <4>3, LastOf
    <3>3. QED
      BY <2>3, <3>1, <3>2
  <2>7. QED
    BY <2>3, <2>5, <2>6
<1>3. QED
  BY <1>1, <1>2

LEMMA EntriesKept == SessionInv /\ Chains /\ OwnerKnown /\ Entries /\ FhNext => Entries'
<1> SUFFICES ASSUME SessionInv, Chains, OwnerKnown, Entries, FhNext PROVE Entries'
  OBVIOUS
<1>1. Len(fhQueue') <= FhBuffer /\ fhChan' \in {"open", "closed", "shut"} /\ fhFilter' \subseteq FhLayers \X FhPaths
  BY CallsBound, WorkersBound, StepSplit
<1>2. Len(fhCache') <= FhCapacity
  BY CallsMove, CacheWorks, StepSplit DEF SessionInv, CallFrame, Entries
<1>3. ASSUME NEW t \in fhTracker'
      PROVE  t.layer \in FhLayers /\ HasChain(t.layer)' /\ t.src \in Range(fhChains'[t.layer]) /\ HashTyped(t.hash)
  <2>1. t.layer \in FhLayers /\ HasChain(t.layer) /\ t.src \in Range(fhChains[t.layer]) /\ HashTyped(t.hash)
    BY <1>3, TrackerEntries
  <2>2. fhChains'[t.layer] = fhChains[t.layer]
    BY <2>1, Grows DEF Grown
  <2>3. QED
    BY <2>1, <2>2 DEF HasChain
<1>4. ASSUME NEW v \in FhWorkers, fhPool'[v].pc = "rehash" PROVE HashTyped(fhPool'[v].cached.hash)
  <2>1. CASE fhPool'[v] = fhPool[v]
    BY <1>4, <2>1 DEF Entries
  <2>2. CASE fhPool'[v] # fhPool[v]
    <3>1. ASSUME NEW b \in FhCallers, CallAct(b) PROVE FALSE
      BY <2>2, <3>1, CallsMove DEF CallFrame, SessionInv
    <3>2. FhWorkerStep(v)
      BY <2>2, <3>1, StepSplit, WorkersMove DEF WorkerFrame, SessionInv
    <3>3. fhPool'[v].cached \in CacheEntry
      BY <1>4, <3>2, CacheWorks DEF SessionInv
    <3>4. QED
      BY <3>3 DEF CacheEntry, HashTyped
  <2>3. QED
    BY <2>1, <2>2
<1>5. QED
  BY <1>1, <1>2, <1>3, <1>4 DEF Entries, HashTyped

LEMMA NestedKept == SessionInv /\ Chains /\ ChainsNested /\ FhNext => ChainsNested'
<1> SUFFICES ASSUME SessionInv, Chains, ChainsNested, FhNext PROVE ChainsNested'
  OBVIOUS
<1> DEFINE Earlier(c) == {d \in FhCallers : fhCalls[d].op.kind = "register" /\ fhCalls[d].op.layer = fhCalls[c].op.parent}
<1>o. \A d \in FhCallers : fhCalls'[d].op = fhCalls[d].op
  BY CallsKeep
<1>1. ASSUME NEW c \in FhCallers, fhCalls[c].op.kind = "register", fhCalls'[c].err = "nil", fhCalls[c].op.parent # NoLayerID,
             Earlier(c) = {} \/ Earlier(c) \intersect fhCalls'[c].before # {}
      PROVE  fhChains'[fhCalls[c].op.layer] = Append(fhChains'[fhCalls[c].op.parent], fhCalls[c].op.layer)
  <2> DEFINE l == fhCalls[c].op.layer
             p == fhCalls[c].op.parent
  <2>1. l \in FhLayers /\ p \in FhLayers
    BY <1>1 DEF SessionInv, FhShape, FhOps
  <2>2. CASE fhCalls[c].err = "nil"
    <3>0. fhCalls[c].pc # "idle"
      BY <2>2 DEF SessionInv, Pending
    <3>1. fhCalls'[c].before = fhCalls[c].before
      BY <3>0, CallsKeep DEF Kept3
    <3>2. fhChains[l] = Append(fhChains[p], l)
      BY <1>1, <2>2, <3>1 DEF ChainsNested
    <3>3. fhChains'[l] = fhChains[l]
      BY <1>1, <2>1, <2>2, Grows DEF Grown, Chains
    <3>4. fhChains'[p] = fhChains[p]
      <4>1. CASE Earlier(c) # {}
        <5>1. PICK d \in Earlier(c) : d \in fhCalls[c].before
          BY <1>1, <3>1, <4>1
        <5>2. fhCalls[d].op.kind = "register" /\ fhCalls[d].op.layer = p /\ fhCalls[d].err = "nil"
          BY <5>1 DEF SessionInv, Tracked
        <5>3. HasChain(p)
          BY <5>1, <5>2 DEF Chains
        <5>4. QED
          BY <2>1, <5>3, Grows DEF Grown
      <4>2. CASE Earlier(c) = {}
        <5>1. ASSUME NEW b \in FhCallers, ChainBuilding(b) PROVE fhChains'[p] = fhChains[p]
          <6>1. fhCalls[b].op.layer # p
            BY <4>2, <5>1 DEF ChainBuilding, Registers2
          <6>2. fhChains' = [fhChains EXCEPT ![fhCalls[b].op.layer] = ChainOn(fhCalls[b].op)]
            BY <5>1 DEF ChainBuilding
          <6>3. QED
            BY <2>1, <6>1, <6>2 DEF Chains
        <5>2. QED
          BY <5>1, StoreMoves DEF FhStore, Registering, Marking
      <4>3. QED
        BY <4>1, <4>2
    <3>5. QED
      BY <3>2, <3>3, <3>4
  <2>3. CASE fhCalls[c].err # "nil"
    <3>1. ASSUME NEW w \in FhWorkers, FhWorkerStep(w) PROVE FALSE
      <4>1. WorkerFrame(w) /\ WorkerMove(w)
        BY <3>1, WorkersMove DEF SessionInv
      <4>2. PICK act, src, err : Finishes(w, act, src, err)
        BY <1>1, <2>3, <4>1 DEF WorkerMove, Receives, Exits, GoesOn
      <4>3. CallOf(w) = c
        BY <1>1, <2>3, <4>2 DEF Finishes
      <4>4. InFlight(c)
        BY <4>1, <4>2, <4>3, LeavesFlight DEF SessionInv
      <4>5. QED
        BY <1>1, <4>4 DEF SessionInv, Flight, SendKinds
    <3>2. PICK b \in FhCallers : CallAct(b)
      BY <3>1, StepSplit
    <3>3. CallFrame(b) /\ CallMove(b)
      BY <3>2, CallsMove DEF SessionInv
    <3>4. b = c
      BY <1>1, <2>3, <3>3 DEF CallFrame
    <3>5. Registers2(c)
      BY <1>1, <2>3, <3>3, <3>4
         DEF CallMove, Begins, Refused, Closes, Registers1, MarksIt, Sends, Panics, Answered, Finalizes, Resets, SendKinds
    <3>6. fhChains' = [fhChains EXCEPT ![l] = ChainOn(fhCalls[c].op)]
      BY <3>5 DEF Registers2, FhChainBuilt
    <3>7. l # p
      BY <1>1, <3>5 DEF Registers2, Goes, Chains
    <3>8. fhChains'[l] = fhChains[p] \o <<l>> /\ fhChains'[p] = fhChains[p]
      BY <1>1, <2>1, <3>6, <3>7 DEF Chains, ChainOn
    <3>9. fhChains[p] \o <<l>> = Append(fhChains[p], l)
      <4>1. fhChains[p] \in Seq(FhLayers)
        BY <2>1 DEF SessionInv, ChainSeqs
      <4> HIDE DEF l, p
      <4>2. QED
        BY <2>1, <4>1, AppendIsConcat
    <3>10. QED
      BY <3>8, <3>9
  <2>4. QED
    BY <2>2, <2>3
<1>2. QED
  BY <1>1, <1>o DEF ChainsNested

LEMMA StackChains ==
    ASSUME NEW stack \in Seq(FhLayers), NEW l \in FhLayers
    PROVE  /\ StackOf(stack)[l] \in Seq(Range(stack))
           /\ StackOf(stack)[l] # << >> => Last(StackOf(stack)[l]) = l
<1>1. CASE l \in Range(stack)
  <2> DEFINE n == ChainPos(stack, l)
             chain == SubSeq(stack, 1, n)
  <2>1. \E i \in DOMAIN stack : stack[i] = l
    BY <1>1 DEF Range
  <2>2. n \in DOMAIN stack /\ stack[n] = l
    BY <1>1, <2>1 DEF ChainPos
  <2>3. n \in 1..Len(stack) /\ \A i \in 1..n : stack[i] \in Range(stack)
    BY <2>2 DEF Range
  <2> HIDE DEF n
  <2>4. chain \in Seq(Range(stack)) /\ Len(chain) = n /\ chain[n] = l
    BY <2>2, <2>3, SubSeqProperties
  <2>5. StackOf(stack)[l] = chain
    BY <1>1 DEF StackOf, n
  <2> HIDE DEF chain
  <2>6. QED
    BY <2>4, <2>5 DEF Last
<1>2. CASE l \notin Range(stack)
  BY <1>2 DEF StackOf
<1>3. QED
  BY <1>1, <1>2

LEMMA HashStarts == FhInit => HashInv
<1> SUFFICES ASSUME FhInit PROVE HashInv
  OBVIOUS
<1>1. PICK script \in FhScripts : FhInitWith(script)
  BY DEF FhInit
<1>2. /\ fhCalls = [c \in FhCallers |-> IdleCall(script.calls[c])]
      /\ fhChains = StackOf(script.stack)
      /\ fhLayers = [known |-> Range(script.stack), modified |-> {}, deleted |-> {}, opaque |-> {}]
      /\ fhQueue = << >> /\ fhChan = "open" /\ fhFilter = {} /\ fhCache = << >> /\ fhTracker = {}
      /\ fhPool = [w \in FhWorkers |-> IdleWorker]
  BY <1>1 DEF FhInitWith
<1>3. script.stack \in Seq(FhLayers)
  BY FhScriptsAssumption
<1>4. \A c \in FhCallers :
         /\ fhCalls[c].pc = "idle" /\ fhCalls[c].err = "none" /\ fhCalls[c].action = "none"
         /\ fhCalls[c].mods = {} /\ fhCalls[c].hides = {}
  BY <1>2 DEF IdleCall
<1>5. \A w \in FhWorkers : fhPool[w].pc = "wait"
  BY <1>2 DEF IdleWorker
<1>6. Chains
  <2>1. /\ DOMAIN fhLayers = StoreFields /\ fhLayers.known = Range(script.stack)
        /\ fhLayers.modified = {} /\ fhLayers.deleted = {} /\ fhLayers.opaque = {}
    BY <1>2 DEF StoreFields
  <2>2. Range(script.stack) \subseteq FhLayers
    BY <1>3 DEF Range
  <2>3. DOMAIN fhChains = FhLayers
    BY <1>2 DEF StackOf
  <2>4. \A l \in FhLayers : fhChains[l] \in Seq(fhLayers.known) /\ (HasChain(l) => Last(fhChains[l]) = l)
    BY <1>2, <1>3, <2>1, StackChains DEF HasChain
  <2>5. QED
    BY <1>4, <1>5, <2>1, <2>2, <2>3, <2>4 DEF Chains, StoreFields, Outcomes, Hashed, Beyond
<1>7. ChainsNested
  BY <1>4 DEF ChainsNested
<1>8. MarksStay
  BY <1>4 DEF MarksStay
<1>9. OwnerKnown
  BY <1>5 DEF OwnerKnown
<1>10. Entries
  BY <1>2, <1>5, FhBounds DEF Entries
<1>11. ReuseCurrent /\ VisibilityDecided
  BY <1>4 DEF ReuseCurrent, VisibilityDecided, Hashed
<1>12. QED
  BY <1>6, <1>7, <1>8, <1>9, <1>10, <1>11 DEF HashInv

LEMMA HashKept == SessionInv /\ HashInv /\ [FhNext]_fhVars => HashInv'
<1> SUFFICES ASSUME SessionInv, HashInv, [FhNext]_fhVars PROVE HashInv'
  OBVIOUS
<1>1. CASE FhNext
  BY <1>1, ChainsKept, NestedKept, MarksKept, OwnerKept, EntriesKept, ReuseKept, VisibilityKept DEF HashInv
<1>2. CASE UNCHANGED fhVars
  <2>0. UNCHANGED <<fhLayers, fhChains, fhCalls, fhPool, fhQueue, fhChan, fhFilter, fhCache, fhTracker>>
    BY <1>2 DEF fhVars
  <2>1. Chains' /\ ChainsNested' /\ MarksStay'
    BY <2>0 DEF HashInv, Chains, ChainsNested, MarksStay, HasChain, FhEvent, ModsNow, Hides
  <2>2. OwnerKnown' /\ Entries'
    BY <2>0 DEF HashInv, OwnerKnown, Entries, HasChain, ModsNow
  <2>3. ReuseCurrent' /\ VisibilityDecided'
    BY <2>0 DEF HashInv, ReuseCurrent, VisibilityDecided, ModsNow, Hides
  <2>4. QED
    BY <2>1, <2>2, <2>3 DEF HashInv
<1>3. QED
  BY <1>1, <1>2

LEMMA HashSays == HashInv => HashesSound
<1> SUFFICES ASSUME HashInv PROVE HashesSound
  OBVIOUS
<1>1. FhTypeOK
  BY DEF HashInv, Chains, Entries, HasChain, HashTyped, FhTypeOK
<1>2. QED
  BY <1>1 DEF HashInv, HashesSound

(* Whatever marks, registrations, evictions and other events run beside    *)
(* it: a hash taken from the cache is no older than what was known when    *)
(* the event was submitted, an event is excluded or hashed as the marks    *)
(* tell, and a layer registered after its parent stands on the parent's    *)
(* whole chain (dedup.go Process, resolver.go, processor.go RegisterLayer). *)
THEOREM HashesAreSound == FhSpec => []HashesSound
<1>1. FhSpec => [](SessionInv /\ HashInv)
  <2>1. FhInit => SessionInv /\ HashInv
    BY SessionStarts, HashStarts
  <2>2. SessionInv /\ HashInv /\ [FhNext]_fhVars => (SessionInv /\ HashInv)'
    BY SessionKept, HashKept
  <2>3. QED
    BY <2>1, <2>2, PTL DEF FhSpec
<1>2. QED
  BY <1>1, HashSays, PTL
=============================================================================
