--------------------------- MODULE ImagesProofs ----------------------------
(***************************************************************************)
(* Proofs about images.  The snapshot pipeline commits layers in order and *)
(* reports success only when all are committed, for any number of layers   *)
(* and workers, repeated layers included; the error it keeps comes of a    *)
(* cancellation only when the caller has cancelled; and, for layers that   *)
(* differ, every snapshot holds the content of its own layer.  A converted *)
(* image is of a piece, for any index and whatever fails.                  *)
(***************************************************************************)
EXTENDS SnapshotPipeline, Converter, TLAPS, SequenceTheorems, FiniteSetTheorems

(* What a result says is so: it is about an event, and a layer reported as *)
(* committed is.                                                           *)
Honest(r, layers) ==
    /\ r \in Results
    /\ r.already = TRUE => r.seq \in layers

(* Everything a result passes through holds honest results only. *)
Flow ==
    /\ events \in Seq(Events)
    /\ todo \subseteq Events
    /\ job \in [Workers -> Results]
    /\ \A w \in Workers : Honest(job[w], committed)
    /\ results \in Seq(Results)
    /\ \A i \in 1..Len(results) : Honest(results[i], committed)
    /\ \A r \in heap : Honest(r, committed)

(* The layers before next are committed, and nil is sent after the last.   *)
Prefix ==
    /\ next \in 0..N
    /\ committed \subseteq Layers
    /\ \A i \in Layers : i < next => i \in committed
    /\ out = "nil" => next = N

(* A stored error is an error. *)
ErrTyped == firstErr \in Errors

PipelineInv == Flow /\ Prefix /\ ChainOrder /\ ErrTyped

LEMMA PipelineInit == Init => PipelineInv
<1> SUFFICES ASSUME Init PROVE PipelineInv
  OBVIOUS
<1> USE LayersAssumption DEF Init, Layers, Events, BadSeq
<1>1. NoJob \in Results /\ NoJob.already = FALSE
  BY DEF NoJob, Result, Results, Errors
<1>2. Flow
  BY <1>1 DEF Flow, Honest
<1>3. PICK k \in 0..N : committed = 0..(k - 1)
  OBVIOUS
<1>4. Prefix /\ ChainOrder
  BY <1>3 DEF Prefix, ChainOrder
<1>5. ErrTyped
  BY DEF ErrTyped, Errors
<1>6. QED
  BY <1>2, <1>4, <1>5 DEF PipelineInv

(* Steps of the caller and of the workers leave the committer's state and  *)
(* the committed layers alone.                                             *)
LEMMA PrefixKept ==
    ASSUME Prefix, ChainOrder, UNCHANGED <<next, committed, out>>
    PROVE  Prefix' /\ ChainOrder'
BY DEF Prefix, ChainOrder

(* A worker's result is honest: only Stat claims that a layer is committed.*)
LEMMA WorkerFlow ==
    ASSUME Flow, NEW w \in Workers, Worker(w)
    PROVE  Flow' /\ UNCHANGED <<next, committed, out>>
<1> USE DEF callerVars, workerVars, committerVars, snVars, Goto
<1>0. /\ NoJob \in Results /\ NoJob.already = FALSE
      /\ \A e \in Events : Result(e) \in Results /\ Result(e).already = FALSE
  BY DEF NoJob, Result, Results, Errors, Events, BadSeq
<1>1. ASSUME NEW r, job' = [job EXCEPT ![w] = r], Honest(r, committed),
             events' \in Seq(Events),
             UNCHANGED <<todo, results, heap, committed>>
      PROVE  Flow'
  BY <1>1 DEF Flow, Honest
<1>2. ASSUME NEW e \in {"real", "derived"}, Fails(w, e),
             events' \in Seq(Events),
             UNCHANGED <<todo, results, heap, committed>>
      PROVE  Flow'
  <2>1. /\ job' = [job EXCEPT ![w] = [job[w] EXCEPT !.err = e]]
        /\ Honest([job[w] EXCEPT !.err = e], committed)
    BY <1>2 DEF Fails, Flow, Honest, Results, Errors
  <2>2. QED
    BY <1>1, <1>2, <2>1
<1>3. CASE Receive(w)
  <2>1. Head(events) \in Events /\ events' \in Seq(Events)
    BY <1>3 DEF Receive, Flow
  <2>2. UNCHANGED <<todo, results, heap, committed, next, out>>
    BY <1>3 DEF Receive
  <2>3. CASE UNCHANGED workerVars
    BY <2>1, <2>2, <2>3 DEF Flow
  <2>4. CASE ParseSeq(w, Head(events))
    <3>1. CASE Fails(w, "real")
      BY <1>2, <2>1, <2>2, <3>1
    <3>2. CASE job' = [job EXCEPT ![w] = Result(Head(events))]
      <4>1. Honest(Result(Head(events)), committed)
        BY <1>0, <2>1 DEF Honest
      <4>2. QED
        BY <1>1, <2>1, <2>2, <3>2, <4>1
    <3>3. QED
      BY <2>2, <2>4, <3>1, <3>2 DEF ParseSeq
  <2>5. QED
    BY <1>3, <2>2, <2>3, <2>4 DEF Receive
<1>4. CASE WorkerExits(w) \/ Prepare(w) \/ Mounts(w) \/ Action(w) \/ Store(w)
  BY <1>4 DEF WorkerExits, Prepare, Mounts, Action, Store, Flow
<1>5. CASE Stat(w)
  <2>1. UNCHANGED <<todo, events, results, heap, committed, next, out>>
    BY <1>5 DEF Stat
  <2>2. CASE UNCHANGED job
    BY <2>1, <2>2 DEF Flow
  <2>3. CASE /\ job[w].seq \in committed
             /\ job' = [job EXCEPT ![w].already = TRUE]
    <3>1. /\ job' = [job EXCEPT ![w] = [job[w] EXCEPT !.already = TRUE]]
          /\ Honest([job[w] EXCEPT !.already = TRUE], committed)
      BY <2>3 DEF Flow, Honest, Results
    <3>2. QED
      BY <1>1, <2>1, <3>1 DEF Flow
  <2>4. QED
    BY <1>5, <2>1, <2>2, <2>3 DEF Stat
<1>6. CASE PrepareFails(w) \/ ActionFails(w)
  <2>1. UNCHANGED <<todo, events, results, heap, committed, next, out>>
    BY <1>6 DEF PrepareFails, ActionFails
  <2>2. PICK e \in {"real", "derived"} : Fails(w, e)
    BY <1>6 DEF PrepareFails, ActionFails, Failures
  <2>3. QED
    BY <1>2, <2>1, <2>2 DEF Flow
<1>7. CASE Deliver(w)
  <2>1. UNCHANGED <<todo, events, heap, committed, next, out>>
    BY <1>7 DEF Deliver
  <2>2. /\ results' \in Seq(Results)
        /\ \A i \in 1..Len(results') : Honest(results'[i], committed)
    <3>1. CASE UNCHANGED results
      BY <3>1 DEF Flow
    <3>2. CASE results' = Append(results, job[w])
      BY <3>2 DEF Flow
    <3>3. QED
      BY <1>7, <3>1, <3>2 DEF Deliver
  <2>3. /\ job' \in [Workers -> Results]
        /\ \A v \in Workers : Honest(job'[v], committed)
    BY <1>0, <1>7 DEF Deliver, Flow, Honest
  <2>4. QED
    BY <2>1, <2>2, <2>3 DEF Flow
<1>8. QED
  BY <1>3, <1>4, <1>5, <1>6, <1>7 DEF Worker

(* The committer advances over a layer that is committed by then. *)
LEMMA AdvancePrefix ==
    ASSUME Flow, Prefix, ChainOrder, NEW r \in heap, Turn(r), Advance(r),
           committed' = committed \cup {next}
    PROVE  Prefix' /\ ChainOrder' /\ heap' \subseteq heap
<1> USE LayersAssumption
<1>1. next \in Layers /\ next + 1 \in 0..N
  BY DEF Turn, Flow, Honest, Results, Prefix, Events, BadSeq, Layers
<1>2. next' = next + 1 /\ heap' \subseteq heap
  BY DEF Advance
<1>3. out' = "nil" => next' = N
  <2>1. CASE next + 1 = N
    BY <1>2, <2>1
  <2>2. CASE next + 1 # N
    <3>1. next # N
      BY <2>2, <1>1 DEF Layers
    <3>2. out' = out
      BY <2>2 DEF Advance
    <3>3. QED
      BY <3>1, <3>2 DEF Prefix
  <2>3. QED
    BY <2>1, <2>2
<1>4. committed' \subseteq Layers
  BY <1>1 DEF Prefix
<1>5. \A i \in Layers : i < next' => i \in committed'
  BY <1>1, <1>2 DEF Prefix, Layers
<1>6. ChainOrder'
  BY <1>1 DEF ChainOrder, Prefix, Layers
<1>7. QED
  BY <1>1, <1>2, <1>3, <1>4, <1>5, <1>6 DEF Prefix

(* storeErr is only given errors. *)
LEMMA ErrKept ==
    ASSUME Flow, ErrTyped, [Next]_vars
    PROVE  ErrTyped'
<1>1. ASSUME NEW e \in Errors, StoreErr(e) PROVE ErrTyped'
  BY <1>1 DEF StoreErr, ErrTyped
<1>2. CASE UNCHANGED firstErr
  BY <1>2 DEF ErrTyped
<1>3. ASSUME NEW w \in Workers, Worker(w) PROVE ErrTyped'
  <2>1. CASE Store(w)
    <3>1. job[w].err \in Errors
      BY DEF Flow, Results
    <3>2. QED
      BY <1>1, <1>2, <2>1, <3>1 DEF Store
  <2>2. CASE ~Store(w)
    BY <1>2, <1>3, <2>2
    DEF Worker, Receive, WorkerExits, Stat, Prepare, Mounts, PrepareFails,
        Action, ActionFails, Deliver
  <2>3. QED
    BY <2>1, <2>2
<1>4. CASE SelectError
  <2>1. Head(results) \in Results
    BY <1>4 DEF SelectError, Flow
  <2>2. Head(results).err \in Errors
    BY <2>1 DEF Results
  <2>3. QED
    BY <1>1, <1>4, <2>2 DEF SelectError
<1>5. CASE CommitFails
  BY <1>1, <1>2, <1>5 DEF CommitFails, Failures, Errors
<1>6. CASE Committer /\ ~SelectError /\ ~CommitFails
  BY <1>2, <1>6
  DEF Committer, SelectDone, SelectClosed, SelectResult, SkipCommitted, Commit,
      CommitExists, DrainEnds
<1>7. CASE Caller \/ Cancel \/ CloseResults \/ UNCHANGED vars
  BY <1>2, <1>7 DEF Caller, Send, Close, Cancel, CloseResults, vars
<1>8. QED
  BY <1>3, <1>4, <1>5, <1>6, <1>7 DEF Next

(* Honest results stay so when more layers are committed. *)
LEMMA FlowGrows ==
    ASSUME Flow, committed \subseteq committed', heap' \subseteq heap,
           UNCHANGED <<todo, events, job, results>>
    PROVE  Flow'
BY DEF Flow, Honest

(* Every step of the committer keeps the invariant. *)
LEMMA CommitterKeeps ==
    ASSUME PipelineInv, Committer
    PROVE  Flow' /\ Prefix' /\ ChainOrder'
<1> USE DEF PipelineInv, callerVars, workerVars, committerVars, snVars
<1>1. CASE SelectDone \/ SelectClosed \/ CommitFails
  <2>1. UNCHANGED <<todo, events, job, results, heap, next, committed>>
    BY <1>1 DEF SelectDone, SelectClosed, CommitFails
  <2>2. out' # "nil"
    <3>1. CASE SelectDone
      BY <3>1 DEF SelectDone, Report, ErrTyped, Errors
    <3>2. CASE SelectClosed
      BY <3>2 DEF SelectClosed, Report, ErrTyped, Errors
    <3>3. CASE CommitFails
      BY <3>3 DEF CommitFails, Report, Failures, ErrTyped, Errors
    <3>4. QED
      BY <1>1, <3>1, <3>2, <3>3
  <2>3. Flow'
    BY <2>1, FlowGrows
  <2>4. QED
    BY <2>1, <2>2, <2>3 DEF Prefix, ChainOrder
<1>2. CASE SelectError \/ SelectResult
  <2>1. UNCHANGED <<todo, events, job, next, committed>>
    BY <1>2 DEF SelectError, SelectResult
  <2>2. results # <<>> /\ results' = Tail(results)
    BY <1>2 DEF SelectError, SelectResult
  <2>3. /\ results' \in Seq(Results)
        /\ \A i \in 1..Len(results') : Honest(results'[i], committed)
        /\ Honest(Head(results), committed)
    BY <2>2 DEF Flow
  <2>4. heap' \subseteq heap \cup {Head(results)}
    BY <1>2 DEF SelectError, SelectResult
  <2>5. Flow'
    BY <2>1, <2>3, <2>4 DEF Flow
  <2>6. out' = "nil" => out = "nil"
    BY <1>2, <2>3 DEF SelectError, SelectResult, Report, Honest, Results, Errors
  <2>7. QED
    BY <2>1, <2>5, <2>6 DEF Prefix, ChainOrder
<1>3. CASE SkipCommitted \/ CommitExists
  <2>1. UNCHANGED <<todo, events, job, results, committed>>
    BY <1>3 DEF SkipCommitted, CommitExists
  <2>2. PICK r \in heap : Turn(r) /\ Advance(r) /\ r.seq \in committed
    <3>1. CASE SkipCommitted
      BY <3>1 DEF SkipCommitted, Flow, Honest, Results
    <3>2. CASE CommitExists
      BY <3>2 DEF CommitExists
    <3>3. QED
      BY <1>3, <3>1, <3>2
  <2>3. committed' = committed \cup {next}
    BY <2>1, <2>2 DEF Turn
  <2>4. QED
    BY <2>1, <2>2, <2>3, AdvancePrefix, FlowGrows
<1>4. CASE Commit
  <2>1. UNCHANGED <<todo, events, job, results>>
    BY <1>4 DEF Commit
  <2>2. PICK r \in heap : Turn(r) /\ Advance(r) /\ committed' = committed \cup {r.seq}
    BY <1>4 DEF Commit
  <2>3. committed' = committed \cup {next}
    BY <2>2 DEF Turn
  <2>4. QED
    BY <2>1, <2>2, <2>3, AdvancePrefix, FlowGrows
<1>5. CASE DrainEnds
  <2>1. UNCHANGED <<todo, events, job, results, heap, next, committed, out>>
    BY <1>5 DEF DrainEnds
  <2>2. QED
    BY <2>1, PrefixKept, FlowGrows
<1>6. QED
  BY <1>1, <1>2, <1>3, <1>4, <1>5 DEF Committer

LEMMA PipelineNext == PipelineInv /\ [Next]_vars => PipelineInv'
<1> SUFFICES ASSUME PipelineInv, [Next]_vars PROVE PipelineInv'
  OBVIOUS
<1>0. ErrTyped'
  BY ErrKept DEF PipelineInv
<1> USE DEF callerVars, workerVars, committerVars, snVars
<1>1. CASE Send
  <2>1. UNCHANGED <<job, results, heap, next, committed, out>>
    BY <1>1 DEF Send
  <2>2. events' \in Seq(Events) /\ todo' \subseteq Events
    BY <1>1 DEF Send, PipelineInv, Flow
  <2>3. Flow'
    BY <2>1, <2>2 DEF PipelineInv, Flow
  <2>4. QED
    BY <1>0, <2>1, <2>3, PrefixKept DEF PipelineInv
<1>2. CASE Close \/ Cancel \/ CloseResults \/ UNCHANGED vars
  <2>1. UNCHANGED <<todo, events, job, results, heap, next, committed, out>>
    BY <1>2 DEF Close, Cancel, CloseResults, vars
  <2>2. QED
    BY <1>0, <2>1, PrefixKept, FlowGrows DEF PipelineInv
<1>3. ASSUME NEW w \in Workers, Worker(w) PROVE PipelineInv'
  BY <1>0, <1>3, WorkerFlow, PrefixKept DEF PipelineInv
<1>4. CASE Committer
  BY <1>0, <1>4, CommitterKeeps DEF PipelineInv
<1>5. QED
  BY <1>1, <1>2, <1>3, <1>4 DEF Next, Caller

(* "Layer N's committed snapshot must exist before layer N+1 is committed",*)
(* for every order in which workers finish, and every failure.             *)
THEOREM CommitOrder == Spec => []ChainOrder
<1>1. PipelineInv => ChainOrder
  BY DEF PipelineInv
<1>2. QED
  BY PipelineInit, PipelineNext, <1>1, PTL DEF Spec

(* errCh receives nil only when every layer has been committed. *)
THEOREM SuccessIsComplete == Spec => []NilMeansAll
<1>1. ASSUME PipelineInv, out = "nil" PROVE committed = Layers
  <2>1. \A i \in Layers : i \in committed
    BY <1>1, LayersAssumption DEF PipelineInv, Prefix, Layers
  <2>2. QED
    BY <1>1, <2>1 DEF PipelineInv, Prefix
<1>2. QED
  <2>1. PipelineInv => NilMeansAll
    BY <1>1 DEF NilMeansAll
  <2>2. QED
    BY PipelineInit, PipelineNext, <2>1, PTL DEF Spec

-----------------------------------------------------------------------------
(* Each layer is in one place: not sent, on its way to a worker, in work,  *)
(* on its way to the committer, waiting for its turn, or past it.          *)

InEvents(i)  == \E k \in 1..Len(events) : events[k] = i
InJob(i)     == \E w \in Workers : job[w].seq = i
InResults(i) == \E k \in 1..Len(results) : results[k].seq = i
InHeap(i)    == \E r \in heap : r.seq = i

PlacedOnce(i) ==
    /\ i \in todo => ~InEvents(i) /\ ~InJob(i) /\ ~InResults(i) /\ ~InHeap(i)
    /\ InEvents(i) => ~InJob(i) /\ ~InResults(i) /\ ~InHeap(i)
    /\ InJob(i) => ~InResults(i) /\ ~InHeap(i)
    /\ InResults(i) => ~InHeap(i)
    /\ i < next => i \notin todo /\ ~InEvents(i) /\ ~InJob(i) /\ ~InResults(i) /\ ~InHeap(i)
    /\ \A k, l \in 1..Len(events) : events[k] = i /\ events[l] = i => k = l
    /\ \A v, w \in Workers : job[v].seq = i /\ job[w].seq = i => v = w
    /\ \A k, l \in 1..Len(results) : results[k].seq = i /\ results[l].seq = i => k = l
    /\ \A r, t \in heap : r.seq = i /\ t.seq = i => r = t

Apart == \A i \in Layers : PlacedOnce(i)

(* A worker in the middle of an event has a layer and no error yet; one    *)
(* that has failed has an error, and has stored one before it cancels.     *)
Phases ==
    /\ \A w \in Workers :
          /\ at[w] \in {"stat", "prepare", "mounts", "action"} =>
                job[w].seq \in Layers /\ job[w].err = "none" /\ job[w].already = FALSE
          /\ at[w] \in {"store", "cancel"} => job[w].err # "none"
          /\ at[w] = "cancel" => firstErr # "none"
    /\ resClosed = TRUE => \A w \in Workers : at[w] = "done"
    /\ \A r \in heap : r.err = "none"

(* The pipeline is cancelled by the caller, after an error has been        *)
(* stored, or when there is no work left; so an error that is only a       *)
(* consequence always comes after its cause.                               *)
Causes ==
    /\ cancelled = TRUE => \/ ctx = TRUE
                           \/ firstErr # "none"
                           \/ /\ committer = "done"
                              /\ next = N \/ \A w \in Workers : at[w] = "done"
    /\ \A w \in Workers : job[w].err = "derived" => ctx = TRUE \/ firstErr # "none"
    /\ \A k \in 1..Len(results) : results[k].err = "derived" => ctx = TRUE \/ firstErr # "none"
    /\ firstErr = "derived" => ctx = TRUE

(* A result that says a layer's snapshot has been filled is right, and the *)
(* snapshot has been filled by that layer only.                            *)
Ready(r) == r.seq \in Layers /\ r.err = "none" /\ r.already = FALSE
Backed(r, snapshots) == Ready(r) => snapshots[Diff[r.seq]] = {r.seq}
Filled ==
    /\ \A i \in Layers : applied[Diff[i]] \subseteq {i}
    /\ \A w \in Workers : at[w] = "send" => Backed(job[w], applied)
    /\ \A k \in 1..Len(results) : Backed(results[k], applied)
    /\ \A r \in heap : Backed(r, applied)

Distinct == \A i, j \in Layers : Diff[i] = Diff[j] => i = j

CauseInv == PipelineInv /\ TypeOK /\ Apart /\ Phases /\ Causes
LayerInv == CauseInv /\ Filled /\ FaithfulLayers

-----------------------------------------------------------------------------
(* What receiving from a channel and sending on it do to the places. *)
LEMMA TailPlaces ==
    ASSUME NEW S, NEW q \in Seq(S), q # <<>>
    PROVE  /\ Head(q) = q[1] /\ 1 \in 1..Len(q) /\ Head(q) \in S
           /\ Tail(q) \in Seq(S) /\ Len(Tail(q)) = Len(q) - 1
           /\ \A k \in 1..Len(Tail(q)) : Tail(q)[k] = q[k + 1] /\ k + 1 \in 1..Len(q) /\ k + 1 # 1
BY HeadTailProperties

LEMMA AppendPlaces ==
    ASSUME NEW S, NEW q \in Seq(S), NEW x \in S
    PROVE  /\ Append(q, x) \in Seq(S) /\ Len(Append(q, x)) = Len(q) + 1 /\ Len(q) \in Nat
           /\ \A k \in 1..Len(Append(q, x)) :
                 \/ k \in 1..Len(q) /\ Append(q, x)[k] = q[k]
                 \/ k = Len(q) + 1 /\ k \notin 1..Len(q) /\ Append(q, x)[k] = x
BY AppendProperties

(* Channels have room for one value per worker. *)
LEMMA RoomTyped == Cardinality(Workers) \in Nat
BY WorkersAssumption, FS_CardinalityType

-----------------------------------------------------------------------------
(* The initial states satisfy the invariants. *)
LEMMA LayerInit == Init => LayerInv
<1> SUFFICES ASSUME Init PROVE LayerInv
  OBVIOUS
<1> USE LayersAssumption
<1>1. PipelineInv
  BY PipelineInit
<1>2. TypeOK
  <2>1. /\ todo \in SUBSET Events
        /\ events \in Seq(Events) /\ job \in [Workers -> Results] /\ results \in Seq(Results)
        /\ next \in 0..N /\ committed \in SUBSET Layers
        /\ heap \in SUBSET Results /\ firstErr \in Errors
    BY <1>1 DEF PipelineInv, Flow, Prefix, ErrTyped, Honest, Init
  <2>2. Len(events) <= Cardinality(Workers) /\ Len(results) <= Cardinality(Workers)
    BY RoomTyped DEF Init
  <2>3. closed \in BOOLEAN /\ ctx \in BOOLEAN /\ cancelled \in BOOLEAN /\ resClosed \in BOOLEAN
    BY DEF Init
  <2>4. /\ at \in [Workers -> {"recv", "stat", "prepare", "mounts", "action",
                               "store", "cancel", "send", "done"}]
        /\ committer \in {"select", "drain", "done"}
        /\ out \in Errors \cup {"empty", "nil", "early", "gap"}
    BY DEF Init
  <2>5. /\ active \in SUBSET DiffIDs
        /\ applied \in [DiffIDs -> SUBSET Layers]
        /\ content \in [Layers -> SUBSET Layers]
    BY DEF Init
  <2>6. QED
    BY <2>1, <2>2, <2>3, <2>4, <2>5 DEF TypeOK
<1>3. Apart
  <2>1. \A i \in Layers : i >= 0 /\ i # BadSeq
    BY DEF Layers, BadSeq
  <2>2. \A w \in Workers : job[w].seq = BadSeq
    BY DEF Init, NoJob, Result
  <2>3. QED
    BY <2>1, <2>2 DEF Init, Apart, PlacedOnce, InEvents, InJob, InResults, InHeap
<1>4. Phases
  BY DEF Init, Phases
<1>5. Causes
  BY DEF Init, Causes, NoJob, Result
<1>6. Filled
  BY DEF Init, Filled
<1>7. FaithfulLayers
  BY <1>2 DEF Init, FaithfulLayers, TypeOK
<1>8. QED
  BY <1>1, <1>2, <1>3, <1>4, <1>5, <1>6, <1>7 DEF LayerInv, CauseInv

(* The layer a worker is at. *)
LEMMA AtLayer ==
    ASSUME TypeOK, Phases, NEW w \in Workers, at[w] \in {"stat", "prepare", "mounts", "action"}
    PROVE  job[w].seq \in Layers /\ Diff[job[w].seq] \in DiffIDs
BY LayersAssumption DEF Phases

(* Each step keeps the types. *)
LEMMA SnapshotTypeNext == CauseInv /\ [Next]_vars => TypeOK'
<1> SUFFICES ASSUME CauseInv, [Next]_vars PROVE TypeOK'
  OBVIOUS
<1> USE LayersAssumption, RoomTyped DEF callerVars, workerVars, committerVars, snVars
<1> DEFINE Rest ==
        /\ Len(events) <= Cardinality(Workers) /\ Len(results) <= Cardinality(Workers)
        /\ closed \in BOOLEAN /\ ctx \in BOOLEAN /\ cancelled \in BOOLEAN /\ resClosed \in BOOLEAN
        /\ at \in [Workers -> {"recv", "stat", "prepare", "mounts", "action",
                               "store", "cancel", "send", "done"}]
        /\ committer \in {"select", "drain", "done"}
        /\ out \in Errors \cup {"empty", "nil", "early", "gap"}
        /\ active \in SUBSET DiffIDs
        /\ applied \in [DiffIDs -> SUBSET Layers]
        /\ content \in [Layers -> SUBSET Layers]
<1>p. PipelineInv'
  BY PipelineNext DEF CauseInv
<1>t. TypeOK /\ Phases /\ Rest
  BY DEF CauseInv, TypeOK
<1>q. events \in Seq(Events) /\ results \in Seq(Results)
  BY <1>t DEF TypeOK
<1>r. SUFFICES Rest'
  BY <1>p DEF PipelineInv, Flow, Prefix, ErrTyped, Honest, TypeOK
<1>1. CASE Send
  <2>1. PICK e \in todo : events' = Append(events, e)
    BY <1>1 DEF Send
  <2>2. Len(events') <= Cardinality(Workers)
    BY <1>t, <1>q, <1>1, <2>1, AppendPlaces DEF Send, TypeOK
  <2>3. QED
    BY <1>t, <1>1, <2>2 DEF Send
<1>2. CASE Close \/ Cancel \/ CloseResults \/ UNCHANGED vars
  BY <1>t, <1>2 DEF Close, Cancel, CloseResults, vars
<1>3. ASSUME NEW w \in Workers, Receive(w) PROVE Rest'
  <2>1. Len(events') <= Cardinality(Workers)
    BY <1>t, <1>q, <1>3, TailPlaces DEF Receive
  <2>2. at' \in [Workers -> {"recv", "stat", "prepare", "mounts", "action",
                             "store", "cancel", "send", "done"}]
    BY <1>t, <1>3 DEF Receive, ParseSeq, Fails, Goto
  <2>3. QED
    BY <1>t, <1>3, <2>1, <2>2 DEF Receive
<1>4. ASSUME NEW w \in Workers, WorkerExits(w) \/ Stat(w) \/ Mounts(w) \/ PrepareFails(w) PROVE Rest'
  BY <1>t, <1>4 DEF WorkerExits, Stat, Mounts, PrepareFails, Fails, Goto
<1>5. ASSUME NEW w \in Workers, Prepare(w) PROVE Rest'
  <2>1. Diff[job[w].seq] \in DiffIDs
    BY <1>t, <1>5, AtLayer DEF Prepare
  <2>2. QED
    BY <1>t, <1>5, <2>1 DEF Prepare, Goto
<1>6. ASSUME NEW w \in Workers, Action(w) \/ ActionFails(w) PROVE Rest'
  <2>1. job[w].seq \in Layers /\ Diff[job[w].seq] \in DiffIDs
    BY <1>t, <1>6, AtLayer DEF Action, ActionFails
  <2>2. /\ applied' \in [DiffIDs -> SUBSET Layers]
        /\ active' \in SUBSET DiffIDs
    BY <1>t, <1>6, <2>1 DEF Action, ActionFails
  <2>3. at' \in [Workers -> {"recv", "stat", "prepare", "mounts", "action",
                             "store", "cancel", "send", "done"}]
    BY <1>t, <1>6 DEF Action, ActionFails, Fails, Goto
  <2>4. QED
    BY <1>t, <1>6, <2>2, <2>3 DEF Action, ActionFails
<1>7. ASSUME NEW w \in Workers, Store(w) PROVE Rest'
  BY <1>t, <1>7 DEF Store, Goto
<1>8. ASSUME NEW w \in Workers, Deliver(w) PROVE Rest'
  <2>1. Len(results') <= Cardinality(Workers)
    <3>1. job[w] \in Results
      BY <1>t DEF TypeOK
    <3>2. QED
      BY <1>t, <1>q, <1>8, <3>1, AppendPlaces DEF Deliver
  <2>2. at' \in [Workers -> {"recv", "stat", "prepare", "mounts", "action",
                             "store", "cancel", "send", "done"}]
    BY <1>t, <1>8 DEF Deliver, Goto
  <2>3. QED
    BY <1>t, <1>8, <2>1, <2>2 DEF Deliver
<1>9. CASE SelectDone \/ SelectClosed \/ CommitFails
  <2>1. out' \in Errors \cup {"empty", "nil", "early", "gap"}
    <3>1. firstErr \in Errors
      BY <1>t DEF TypeOK
    <3>2. CASE SelectDone
      BY <3>1, <3>2 DEF SelectDone, Report, Errors
    <3>3. CASE SelectClosed
      BY <3>1, <3>3 DEF SelectClosed, Report, Errors
    <3>4. CASE CommitFails
      BY <3>1, <3>4 DEF CommitFails, Report, Failures, Errors
    <3>5. QED
      BY <1>9, <3>2, <3>3, <3>4
  <2>2. committer' = "done" /\ cancelled' = TRUE
    BY <1>9 DEF SelectDone, SelectClosed, CommitFails, Report
  <2>3. UNCHANGED <<events, results, closed, ctx, resClosed, at, active, applied, content>>
    BY <1>9 DEF SelectDone, SelectClosed, CommitFails
  <2>4. QED
    BY <1>t, <2>1, <2>2, <2>3
<1>10. CASE SelectError \/ SelectResult
  <2>1. Len(results') <= Cardinality(Workers)
    BY <1>t, <1>q, <1>10, TailPlaces DEF SelectError, SelectResult
  <2>2. out' \in Errors \cup {"empty", "nil", "early", "gap"}
    <3>0. Head(results) \in Results
      BY <1>q, <1>10, TailPlaces DEF SelectError, SelectResult
    <3>1. Head(results).err \in Errors
      BY <3>0 DEF Results
    <3>2. QED
      BY <1>t, <1>10, <3>1 DEF SelectError, SelectResult, Report
  <2>3. QED
    BY <1>t, <1>10, <2>1, <2>2 DEF SelectError, SelectResult, Report
<1>11. CASE SkipCommitted \/ CommitExists \/ DrainEnds
  BY <1>t, <1>11 DEF SkipCommitted, CommitExists, DrainEnds, Advance, Report
<1>12. CASE Commit
  <2>1. PICK r \in heap :
           /\ Turn(r)
           /\ content' = [content EXCEPT ![r.seq] = applied[Diff[r.seq]]]
           /\ active' = active \ {Diff[r.seq]}
           /\ applied' = [applied EXCEPT ![Diff[r.seq]] = {}]
           /\ Advance(r)
    BY <1>12 DEF Commit
  <2>2. r.seq \in Layers
    BY <1>t, <2>1 DEF TypeOK, Turn, Results, Events, BadSeq, Layers
  <2>3. /\ content' \in [Layers -> SUBSET Layers]
        /\ applied' \in [DiffIDs -> SUBSET Layers]
        /\ active' \in SUBSET DiffIDs
    BY <1>t, <2>1, <2>2
  <2>4. /\ committer' \in {"select", "drain", "done"}
        /\ out' \in Errors \cup {"empty", "nil", "early", "gap"}
        /\ cancelled' \in BOOLEAN
    BY <1>t, <2>1 DEF Advance, Report
  <2>5. UNCHANGED <<events, results, closed, ctx, resClosed, at>>
    BY <1>12 DEF Commit
  <2>6. QED
    BY <1>t, <2>3, <2>4, <2>5
<1>13. QED
  BY <1>1, <1>2, <1>3, <1>4, <1>5, <1>6, <1>7, <1>8, <1>9, <1>10, <1>11, <1>12
  DEF Next, Caller, Worker, Committer

(* processEvent's error leaves the layer in the job. *)
LEMMA FailsKeepsLayer ==
    ASSUME TypeOK, NEW w \in Workers, NEW e, Fails(w, e)
    PROVE  /\ \A v \in Workers : job'[v].seq = job[v].seq
           /\ \A v \in Workers \ {w} : job'[v] = job[v] /\ at'[v] = at[v]
           /\ job'[w].err = e /\ at'[w] = "store" /\ job'[w].already = job[w].already
<1>1. job[w] \in Results /\ job \in [Workers -> Results]
  BY DEF TypeOK
<1>2. job' = [job EXCEPT ![w] = [job[w] EXCEPT !.err = e]]
  BY <1>1 DEF Fails
<1>3. /\ [job[w] EXCEPT !.err = e].seq = job[w].seq
      /\ [job[w] EXCEPT !.err = e].already = job[w].already
      /\ [job[w] EXCEPT !.err = e].err = e
  BY <1>1 DEF Results
<1>4. QED
  BY <1>1, <1>2, <1>3 DEF Fails, Goto, TypeOK

(* Each step moves a layer on, or forgets it. *)
LEMMA ApartNext == CauseInv /\ [Next]_vars => Apart'
<1> SUFFICES ASSUME CauseInv, [Next]_vars PROVE Apart'
  OBVIOUS
<1> USE DEF callerVars, workerVars, committerVars, snVars
<1>t. TypeOK /\ Apart /\ PipelineInv
  BY DEF CauseInv
<1>b. \A i \in Layers : i # BadSeq
  BY LayersAssumption DEF Layers, BadSeq
<1>q. events \in Seq(Events) /\ results \in Seq(Results) /\ job \in [Workers -> Results]
  BY <1>t DEF TypeOK
<1>0. ASSUME UNCHANGED <<todo, events, results, heap, next>>,
             \A v \in Workers : job'[v].seq = job[v].seq
      PROVE  Apart'
  BY <1>t, <1>0 DEF Apart, PlacedOnce, InEvents, InJob, InResults, InHeap
<1>1. CASE Send
  <2>1. PICK e \in todo : events' = Append(events, e) /\ todo' = todo \ {e}
    BY <1>1 DEF Send
  <2>2. UNCHANGED <<job, results, heap, next>>
    BY <1>1 DEF Send
  <2>3. e \in Events
    BY <1>t DEF TypeOK
  <2>4. /\ Len(events) \in Nat
        /\ \A k \in 1..Len(events') : \/ k \in 1..Len(events) /\ events'[k] = events[k]
                                      \/ k = Len(events) + 1 /\ events'[k] = e
    BY <1>q, <2>1, <2>3, AppendPlaces
  <2>5. SUFFICES ASSUME NEW i \in Layers PROVE PlacedOnce(i)'
    BY DEF Apart
  <2>6. (InJob(i)' <=> InJob(i)) /\ (InResults(i)' <=> InResults(i)) /\ (InHeap(i)' <=> InHeap(i))
    BY <2>2 DEF InJob, InResults, InHeap
  <2>7. InEvents(i)' => InEvents(i) \/ i = e
    BY <2>4 DEF InEvents
  <2>8. \A k, l \in 1..Len(events') : events'[k] = i /\ events'[l] = i => k = l
    <3>1. CASE i = e
      BY <1>t, <2>4, <3>1 DEF Apart, PlacedOnce, InEvents
    <3>2. CASE i # e
      BY <1>t, <2>4, <3>2 DEF Apart, PlacedOnce
    <3>3. QED
      BY <3>1, <3>2
  <2>9. QED
    BY <1>t, <2>1, <2>2, <2>6, <2>7, <2>8 DEF Apart, PlacedOnce
<1>2. CASE Close \/ Cancel \/ CloseResults \/ UNCHANGED vars
  BY <1>0, <1>2 DEF Close, Cancel, CloseResults, vars
<1>3. ASSUME NEW w \in Workers, Receive(w) PROVE Apart'
  <2>1. UNCHANGED <<todo, results, heap, next>>
    BY <1>3 DEF Receive
  <2>2. events # <<>> /\ events' = Tail(events)
    BY <1>3 DEF Receive
  <2>3. /\ Head(events) = events[1] /\ 1 \in 1..Len(events)
        /\ \A k \in 1..Len(events') : events'[k] = events[k + 1] /\ k + 1 \in 1..Len(events) /\ k + 1 # 1
    BY <1>q, <2>2, TailPlaces
  <2>4. /\ \A v \in Workers \ {w} : job'[v].seq = job[v].seq
        /\ job'[w].seq \in {job[w].seq, Head(events)}
    <3>1. CASE UNCHANGED job
      BY <3>1
    <3>2. CASE Fails(w, "real")
      BY <1>t, <3>2, FailsKeepsLayer
    <3>3. CASE job' = [job EXCEPT ![w] = Result(Head(events))]
      BY <1>q, <3>3 DEF Result
    <3>4. QED
      BY <1>3, <3>1, <3>2, <3>3 DEF Receive, ParseSeq
  <2>5. SUFFICES ASSUME NEW i \in Layers PROVE PlacedOnce(i)'
    BY DEF Apart
  <2>6. (InResults(i)' <=> InResults(i)) /\ (InHeap(i)' <=> InHeap(i))
    BY <2>1 DEF InResults, InHeap
  <2>7. InEvents(i)' => InEvents(i)
    BY <2>3 DEF InEvents
  <2>8. i = Head(events) => InEvents(i) /\ ~InEvents(i)'
    <3>1. \A k, l \in 1..Len(events) : events[k] = i /\ events[l] = i => k = l
      BY <1>t DEF Apart, PlacedOnce
    <3>2. i = Head(events) => \A k \in 1..Len(events') : events'[k] # i
      BY <2>3, <3>1
    <3>3. QED
      BY <2>3, <3>2 DEF InEvents
  <2>9. InJob(i)' => InJob(i) \/ i = Head(events)
    BY <2>4 DEF InJob
  <2>10. \A k, l \in 1..Len(events') : events'[k] = i /\ events'[l] = i => k = l
    <3>1. Len(events) \in Nat /\ \A k \in 1..Len(events) : k \in Nat
      BY <1>q
    <3>2. \A k, l \in 1..Len(events') : k + 1 = l + 1 => k = l
      OBVIOUS
    <3>3. QED
      BY <1>t, <2>3, <3>2 DEF Apart, PlacedOnce
  <2>11. \A v, u \in Workers : job'[v].seq = i /\ job'[u].seq = i => v = u
    BY <1>t, <2>4, <2>8 DEF Apart, PlacedOnce, InJob
  <2>12. QED
    BY <1>t, <2>1, <2>6, <2>7, <2>8, <2>9, <2>10, <2>11 DEF Apart, PlacedOnce
<1>4. ASSUME NEW w \in Workers,
             WorkerExits(w) \/ Prepare(w) \/ Mounts(w) \/ Action(w) \/ Store(w)
      PROVE  Apart'
  BY <1>0, <1>4 DEF WorkerExits, Prepare, Mounts, Action, Store
<1>5. ASSUME NEW w \in Workers, Stat(w) PROVE Apart'
  <2>1. \A v \in Workers : job'[v].seq = job[v].seq
    <3>1. CASE UNCHANGED job
      BY <3>1
    <3>2. CASE job' = [job EXCEPT ![w].already = TRUE]
      BY <1>q, <3>2 DEF Results
    <3>3. QED
      BY <1>5, <3>1, <3>2 DEF Stat
  <2>2. QED
    BY <1>0, <1>5, <2>1 DEF Stat
<1>6. ASSUME NEW w \in Workers, PrepareFails(w) \/ ActionFails(w) PROVE Apart'
  <2>1. PICK e : Fails(w, e)
    BY <1>6 DEF PrepareFails, ActionFails
  <2>2. QED
    BY <1>t, <1>0, <1>6, <2>1, FailsKeepsLayer DEF PrepareFails, ActionFails
<1>7. ASSUME NEW w \in Workers, Deliver(w) PROVE Apart'
  <2>1. UNCHANGED <<todo, events, heap, next>>
    BY <1>7 DEF Deliver
  <2>2. /\ \A v \in Workers \ {w} : job'[v].seq = job[v].seq
        /\ job'[w].seq = BadSeq
    BY <1>q, <1>7 DEF Deliver, NoJob, Result
  <2>3. \/ UNCHANGED results
        \/ /\ Len(results) \in Nat
           /\ \A k \in 1..Len(results') : \/ k \in 1..Len(results) /\ results'[k] = results[k]
                                          \/ k = Len(results) + 1 /\ results'[k] = job[w]
    <3>1. job[w] \in Results
      BY <1>q
    <3>2. QED
      BY <1>q, <1>7, <3>1, AppendPlaces DEF Deliver
  <2>4. SUFFICES ASSUME NEW i \in Layers PROVE PlacedOnce(i)'
    BY DEF Apart
  <2>5. (InEvents(i)' <=> InEvents(i)) /\ (InHeap(i)' <=> InHeap(i))
    BY <2>1 DEF InEvents, InHeap
  <2>6. (InJob(i)' => InJob(i)) /\ (i = job[w].seq => InJob(i) /\ ~InJob(i)')
    BY <1>t, <1>b, <2>2 DEF Apart, PlacedOnce, InJob
  <2>7. InResults(i)' => InResults(i) \/ i = job[w].seq
    BY <2>3 DEF InResults
  <2>8. \A v, u \in Workers : job'[v].seq = i /\ job'[u].seq = i => v = u
    BY <1>t, <1>b, <2>2 DEF Apart, PlacedOnce
  <2>9. \A k, l \in 1..Len(results') : results'[k].seq = i /\ results'[l].seq = i => k = l
    <3>1. CASE i = job[w].seq
      BY <1>t, <2>3, <2>6, <3>1 DEF Apart, PlacedOnce, InResults
    <3>2. CASE i # job[w].seq
      BY <1>t, <2>3, <3>2 DEF Apart, PlacedOnce
    <3>3. QED
      BY <3>1, <3>2
  <2>10. QED
    BY <1>t, <2>1, <2>5, <2>6, <2>7, <2>8, <2>9 DEF Apart, PlacedOnce
<1>8. CASE SelectDone \/ SelectClosed \/ CommitFails \/ DrainEnds
  BY <1>0, <1>8 DEF SelectDone, SelectClosed, CommitFails, DrainEnds
<1>9. CASE SelectError \/ SelectResult
  <2>1. UNCHANGED <<todo, events, job, next>>
    BY <1>9 DEF SelectError, SelectResult
  <2>2. /\ results # <<>> /\ results' = Tail(results)
        /\ heap \subseteq heap' /\ heap' \subseteq heap \cup {Head(results)}
    BY <1>9 DEF SelectError, SelectResult
  <2>3. /\ Head(results) = results[1] /\ 1 \in 1..Len(results)
        /\ \A k \in 1..Len(results') : results'[k] = results[k + 1] /\ k + 1 \in 1..Len(results) /\ k + 1 # 1
    BY <1>q, <2>2, TailPlaces
  <2>4. SUFFICES ASSUME NEW i \in Layers PROVE PlacedOnce(i)'
    BY DEF Apart
  <2>5. (InEvents(i)' <=> InEvents(i)) /\ (InJob(i)' <=> InJob(i))
    BY <2>1 DEF InEvents, InJob
  <2>6. InResults(i)' => InResults(i)
    BY <2>3 DEF InResults
  <2>7. i = Head(results).seq => InResults(i) /\ ~InResults(i)'
    BY <1>t, <2>3 DEF Apart, PlacedOnce, InResults
  <2>8. InHeap(i)' => InHeap(i) \/ i = Head(results).seq
    BY <2>2 DEF InHeap
  <2>9. \A k, l \in 1..Len(results') : results'[k].seq = i /\ results'[l].seq = i => k = l
    <3>1. \A k, l \in 1..Len(results') : k + 1 = l + 1 => k = l
      OBVIOUS
    <3>2. QED
      BY <1>t, <2>3, <3>1 DEF Apart, PlacedOnce
  <2>10. \A r, t \in heap' : r.seq = i /\ t.seq = i => r = t
    BY <1>t, <2>2, <2>7 DEF Apart, PlacedOnce, InHeap
  <2>11. QED
    BY <1>t, <2>1, <2>5, <2>6, <2>7, <2>8, <2>9, <2>10 DEF Apart, PlacedOnce
<1>10. CASE SkipCommitted \/ Commit \/ CommitExists
  <2>1. UNCHANGED <<todo, events, job, results>>
    BY <1>10 DEF SkipCommitted, Commit, CommitExists
  <2>2. PICK r \in heap : Turn(r) /\ heap' = heap \ {r} /\ next' = next + 1
    BY <1>10 DEF SkipCommitted, Commit, CommitExists, Advance
  <2>3. r.seq = next /\ next \in 0..N
    BY <1>t, <2>2 DEF Turn, TypeOK
  <2>4. \A i \in Layers : i < next' => i < next \/ i = next
    BY <2>2, <2>3 DEF Layers
  <2>5. \A i \in Layers : /\ InEvents(i)' <=> InEvents(i)
                          /\ InJob(i)' <=> InJob(i)
                          /\ InResults(i)' <=> InResults(i)
    BY <2>1 DEF InEvents, InJob, InResults
  <2>6. \A i \in Layers : /\ InHeap(i)' => InHeap(i)
                          /\ i = next => InHeap(i) /\ ~InHeap(i)'
    BY <1>t, <2>2, <2>3 DEF InHeap, Apart, PlacedOnce
  <2>7. \A i \in Layers :
           /\ i \in todo' => ~InEvents(i)' /\ ~InJob(i)' /\ ~InResults(i)' /\ ~InHeap(i)'
           /\ InEvents(i)' => ~InJob(i)' /\ ~InResults(i)' /\ ~InHeap(i)'
           /\ InJob(i)' => ~InResults(i)' /\ ~InHeap(i)'
           /\ InResults(i)' => ~InHeap(i)'
           /\ i < next' => i \notin todo' /\ ~InEvents(i)' /\ ~InJob(i)' /\ ~InResults(i)' /\ ~InHeap(i)'
    BY <1>t, <2>1, <2>4, <2>5, <2>6 DEF Apart, PlacedOnce
  <2>8. QED
    BY <1>t, <2>1, <2>2, <2>7 DEF Apart, PlacedOnce
<1>11. QED
  BY <1>1, <1>2, <1>3, <1>4, <1>5, <1>6, <1>7, <1>8, <1>9, <1>10
  DEF Next, Caller, Worker, Committer

(* What Receive and Stat do to the worker's job. *)
LEMMA ReceiveJob ==
    ASSUME TypeOK, NEW w \in Workers, Receive(w)
    PROVE  /\ \A v \in Workers \ {w} : job'[v] = job[v] /\ at'[v] = at[v]
           /\ \/ job'[w] = job[w] /\ at'[w] = "recv"
              \/ job'[w].err = "real" /\ at'[w] = "store"
              \/ job'[w].seq \in Layers /\ job'[w].err = "none" /\ job'[w].already = FALSE /\ at'[w] = "stat"
<1>1. at[w] = "recv" /\ Head(events) \in Events
  BY TailPlaces DEF Receive, TypeOK
<1>2. CASE UNCHANGED workerVars
  BY <1>1, <1>2 DEF workerVars
<1>3. CASE Fails(w, "real")
  BY <1>3, FailsKeepsLayer
<1>4. CASE Head(events) # BadSeq /\ job' = [job EXCEPT ![w] = Result(Head(events))] /\ Goto(w, "stat")
  BY <1>1, <1>4 DEF Goto, Result, Events, TypeOK
<1>5. QED
  BY <1>2, <1>3, <1>4 DEF Receive, ParseSeq

LEMMA StatJob ==
    ASSUME TypeOK, NEW w \in Workers, Stat(w)
    PROVE  /\ \A v \in Workers \ {w} : job'[v] = job[v] /\ at'[v] = at[v]
           /\ \/ job'[w] = job[w] /\ at'[w] = "prepare"
              \/ /\ job'[w].seq = job[w].seq /\ job'[w].err = job[w].err
                 /\ job'[w].already = TRUE /\ at'[w] = "send"
<1>1. job[w] \in Results /\ job \in [Workers -> Results]
  BY DEF TypeOK
<1>2. CASE job' = [job EXCEPT ![w].already = TRUE] /\ Goto(w, "send")
  BY <1>1, <1>2 DEF Goto, Results, TypeOK
<1>3. CASE UNCHANGED job /\ Goto(w, "prepare")
  BY <1>3 DEF Goto, TypeOK
<1>4. QED
  BY <1>2, <1>3 DEF Stat

(* Each step keeps the phases of the workers. *)
LEMMA PhasesNext == CauseInv /\ [Next]_vars => Phases'
<1> SUFFICES ASSUME CauseInv, [Next]_vars PROVE Phases'
  OBVIOUS
<1> USE DEF callerVars, workerVars, committerVars, snVars
<1>t. TypeOK /\ Phases
  BY DEF CauseInv
<1>1. ASSUME UNCHANGED <<at, job, resClosed>>, firstErr # "none" => firstErr' # "none",
             \A r \in heap' : r.err = "none"
      PROVE  Phases'
  BY <1>t, <1>1 DEF Phases
<1>2. CASE Caller \/ Cancel \/ UNCHANGED vars
  BY <1>t, <1>1, <1>2 DEF Caller, Send, Close, Cancel, vars, Phases
<1>3. CASE CloseResults
  BY <1>t, <1>3 DEF CloseResults, Phases
<1>4. CASE Committer
  <2>1. UNCHANGED <<at, job, resClosed>>
    BY <1>4 DEF Committer, SelectDone, SelectClosed, SelectError, SelectResult,
                SkipCommitted, Commit, CommitExists, CommitFails, DrainEnds
  <2>2. firstErr # "none" => firstErr' # "none"
    BY <1>4 DEF Committer, SelectDone, SelectClosed, SelectError, SelectResult, StoreErr,
                SkipCommitted, Commit, CommitExists, CommitFails, DrainEnds
  <2>3. \A r \in heap' : r.err = "none"
    <3>1. CASE SelectResult
      BY <1>t, <3>1 DEF SelectResult, Phases
    <3>2. CASE ~SelectResult
      <4>1. heap' \subseteq heap
        BY <1>4, <3>2 DEF Committer, SelectDone, SelectClosed, SelectError, Advance,
                          SkipCommitted, Commit, CommitExists, CommitFails, DrainEnds
      <4>2. QED
        BY <1>t, <4>1 DEF Phases
    <3>3. QED
      BY <3>1, <3>2
  <2>4. QED
    BY <1>1, <2>1, <2>2, <2>3
<1>5. ASSUME NEW w \in Workers, Worker(w) PROVE Phases'
  <2>1. UNCHANGED <<resClosed, heap>> /\ at[w] # "done" /\ (firstErr # "none" => firstErr' # "none")
    BY <1>5 DEF Worker, Receive, WorkerExits, Stat, Prepare, Mounts, PrepareFails, Action,
                ActionFails, Store, StoreErr, Deliver
  <2>2. resClosed # TRUE
    BY <1>t, <2>1 DEF Phases
  <2>3. ASSUME \A v \in Workers \ {w} : job'[v] = job[v] /\ at'[v] = at[v],
               at'[w] \in {"stat", "prepare", "mounts", "action"} =>
                  job'[w].seq \in Layers /\ job'[w].err = "none" /\ job'[w].already = FALSE,
               at'[w] \in {"store", "cancel"} => job'[w].err # "none",
               at'[w] = "cancel" => firstErr' # "none"
        PROVE  Phases'
    BY <1>t, <2>1, <2>2, <2>3 DEF Phases
  <2>4. CASE Receive(w)
    BY <1>t, <2>3, <2>4, ReceiveJob
  <2>5. CASE Stat(w)
    <3>1. job[w].seq \in Layers /\ job[w].err = "none" /\ job[w].already = FALSE
      BY <1>t, <2>5 DEF Stat, Phases
    <3>2. QED
      BY <1>t, <2>3, <2>5, <3>1, StatJob
  <2>6. CASE Prepare(w) \/ Mounts(w) \/ Action(w) \/ WorkerExits(w)
    BY <1>t, <2>3, <2>6 DEF Prepare, Mounts, Action, WorkerExits, Goto, TypeOK, Phases
  <2>7. CASE PrepareFails(w) \/ ActionFails(w)
    <3>1. PICK e \in {"real", "derived"} : Fails(w, e)
      BY <2>7 DEF PrepareFails, ActionFails, Failures
    <3>2. QED
      BY <1>t, <2>3, <3>1, FailsKeepsLayer
  <2>8. CASE Store(w)
    <3>1. at[w] \in {"store", "cancel"} /\ job[w].err # "none" /\ UNCHANGED job
      BY <1>t, <2>8 DEF Store, Phases
    <3>2. at'[w] = "cancel" => firstErr' # "none"
      BY <1>t, <2>8, <3>1 DEF Store, StoreErr, Goto, TypeOK
    <3>3. \A v \in Workers \ {w} : at'[v] = at[v]
      BY <1>t, <2>8 DEF Store, Goto, TypeOK
    <3>4. at'[w] \in {"cancel", "send"}
      BY <1>t, <2>8 DEF Store, Goto, TypeOK
    <3>5. QED
      BY <2>3, <3>1, <3>2, <3>3, <3>4
  <2>9. CASE Deliver(w)
    BY <1>t, <2>3, <2>9 DEF Deliver, Goto, TypeOK
  <2>10. QED
    BY <1>5, <2>4, <2>5, <2>6, <2>7, <2>8, <2>9 DEF Worker
<1>6. QED
  BY <1>2, <1>3, <1>4, <1>5 DEF Next

(* Each step keeps causes before consequences. *)
LEMMA CausesNext == CauseInv /\ [Next]_vars => Causes'
<1> SUFFICES ASSUME CauseInv, [Next]_vars PROVE Causes'
  OBVIOUS
<1> USE LayersAssumption DEF callerVars, workerVars, committerVars, snVars
<1>t. TypeOK /\ Phases /\ Apart /\ Causes
  BY DEF CauseInv
<1>q. events \in Seq(Events) /\ results \in Seq(Results) /\ job \in [Workers -> Results]
  BY <1>t DEF TypeOK
<1>1. ASSUME UNCHANGED <<cancelled, firstErr, committer, next, at, job, results>>, ctx = TRUE => ctx' = TRUE
      PROVE  Causes'
  BY <1>t, <1>1 DEF Causes
<1>2. CASE Caller \/ Cancel \/ CloseResults \/ UNCHANGED vars
  BY <1>1, <1>2 DEF Caller, Send, Close, Cancel, CloseResults, vars
<1>3. ASSUME NEW w \in Workers, Worker(w) PROVE Causes'
  <2>1. UNCHANGED <<ctx, committer, next>> /\ at[w] # "done"
    BY <1>3 DEF Worker, Receive, WorkerExits, Stat, Prepare, Mounts, PrepareFails, Action,
                ActionFails, Store, Deliver
  <2>2. cancelled = TRUE => ctx = TRUE \/ firstErr # "none" \/ (committer = "done" /\ next = N)
    BY <1>t, <2>1 DEF Causes
  <2>3. ASSUME UNCHANGED <<cancelled, firstErr, results>>,
               \A v \in Workers \ {w} : job'[v] = job[v],
               job'[w].err = "derived" => job[w].err = "derived" \/ ctx = TRUE \/ firstErr # "none"
        PROVE  Causes'
    BY <1>t, <2>1, <2>2, <2>3 DEF Causes
  <2>4. CASE Receive(w)
    <3>1. UNCHANGED <<cancelled, firstErr, results>>
      BY <2>4 DEF Receive
    <3>2. QED
      BY <1>t, <2>3, <2>4, <3>1, ReceiveJob
  <2>5. CASE Stat(w)
    <3>1. UNCHANGED <<cancelled, firstErr, results>>
      BY <2>5 DEF Stat
    <3>2. QED
      BY <1>t, <2>3, <2>5, <3>1, StatJob
  <2>6. CASE Prepare(w) \/ Mounts(w) \/ Action(w) \/ WorkerExits(w)
    BY <2>3, <2>6 DEF Prepare, Mounts, Action, WorkerExits
  <2>7. CASE PrepareFails(w) \/ ActionFails(w)
    <3>1. PICK e \in Failures : Fails(w, e)
      BY <2>7 DEF PrepareFails, ActionFails
    <3>2. UNCHANGED <<cancelled, firstErr, results>>
      BY <2>7 DEF PrepareFails, ActionFails
    <3>3. job[w].seq \in Layers /\ InJob(job[w].seq)
      BY <1>t, <2>7 DEF PrepareFails, ActionFails, Phases, InJob
    <3>4. next # N
      <4>1. ~(job[w].seq < next)
        BY <1>t, <3>3 DEF Apart, PlacedOnce
      <4>2. job[w].seq < N /\ next \in Nat
        BY <1>t, <3>3 DEF Layers, TypeOK
      <4>3. QED
        BY <4>1, <4>2
    <3>5. e = "derived" => ctx = TRUE \/ cancelled = TRUE
      BY <1>t DEF Failures, Done, TypeOK
    <3>6. QED
      BY <1>t, <2>2, <2>3, <3>1, <3>2, <3>4, <3>5, FailsKeepsLayer
  <2>8. CASE Store(w)
    <3>1. UNCHANGED <<job, results>>
      BY <2>8 DEF Store
    <3>2. CASE at[w] = "store" /\ StoreErr(job[w].err) /\ UNCHANGED cancelled
      <4>1. job[w].err # "none" /\ (job[w].err = "derived" => ctx = TRUE \/ firstErr # "none")
        BY <1>t, <3>2 DEF Phases, Causes
      <4>2. firstErr' # "none" /\ (firstErr' = "derived" => ctx = TRUE)
        BY <1>t, <3>2, <4>1 DEF StoreErr, Causes
      <4>3. QED
        BY <2>1, <3>1, <4>2 DEF Causes
    <3>3. CASE at[w] = "cancel" /\ UNCHANGED firstErr
      <4>1. firstErr # "none"
        BY <1>t, <3>3 DEF Phases
      <4>2. QED
        BY <1>t, <2>1, <3>1, <3>3, <4>1 DEF Causes
    <3>4. QED
      BY <2>8, <3>2, <3>3 DEF Store
  <2>9. CASE Deliver(w)
    <3>1. UNCHANGED <<cancelled, firstErr>>
      BY <2>9 DEF Deliver
    <3>2. /\ \A v \in Workers \ {w} : job'[v] = job[v]
          /\ job'[w].err = "none"
      BY <1>q, <2>9 DEF Deliver, NoJob, Result
    <3>3. \A k \in 1..Len(results') : results'[k].err = "derived" => ctx = TRUE \/ firstErr # "none"
      <4>1. CASE UNCHANGED results
        BY <1>t, <4>1 DEF Causes
      <4>2. CASE results' = Append(results, job[w])
        <5>1. job[w] \in Results
          BY <1>q
        <5>2. QED
          BY <1>t, <1>q, <4>2, <5>1, AppendPlaces DEF Causes
      <4>3. QED
        BY <2>9, <4>1, <4>2 DEF Deliver
    <3>4. QED
      BY <1>t, <2>1, <2>2, <3>1, <3>2, <3>3 DEF Causes
  <2>10. QED
    BY <1>3, <2>4, <2>5, <2>6, <2>7, <2>8, <2>9 DEF Worker
<1>4. CASE SelectDone
  <2>1. cancelled = TRUE => ctx = TRUE \/ firstErr # "none"
    BY <1>t, <1>4 DEF SelectDone, Causes
  <2>2. ctx = TRUE \/ cancelled = TRUE
    BY <1>t, <1>4 DEF SelectDone, Done, TypeOK
  <2>3. QED
    BY <1>t, <1>4, <2>1, <2>2 DEF SelectDone, Causes, Report
<1>5. CASE SelectClosed
  <2>1. \A w \in Workers : at[w] = "done"
    BY <1>t, <1>5 DEF SelectClosed, Phases, TypeOK
  <2>2. committer' = "done" /\ UNCHANGED <<ctx, firstErr, at, job, results>>
    BY <1>5 DEF SelectClosed, Report
  <2>3. QED
    BY <1>t, <2>1, <2>2 DEF Causes
<1>6. CASE SelectError
  <2>1. /\ results # <<>> /\ results' = Tail(results) /\ Head(results).err # "none"
        /\ StoreErr(Head(results).err) /\ UNCHANGED <<ctx, at, job, next>>
    BY <1>6 DEF SelectError
  <2>2. Head(results).err = "derived" => ctx = TRUE \/ firstErr # "none"
    BY <1>t, <1>q, <2>1, TailPlaces DEF Causes
  <2>3. firstErr' # "none" /\ (firstErr' = "derived" => ctx = TRUE)
    BY <1>t, <2>1, <2>2 DEF StoreErr, Causes
  <2>4. QED
    BY <2>1, <2>3 DEF Causes
<1>7. CASE SelectResult
  <2>1. /\ results # <<>> /\ results' = Tail(results)
        /\ committer = "select" /\ UNCHANGED <<ctx, at, job, next, cancelled, firstErr>>
    BY <1>7 DEF SelectResult
  <2>2. \A k \in 1..Len(results') : results'[k].err = "derived" => ctx = TRUE \/ firstErr # "none"
    BY <1>t, <1>q, <2>1, TailPlaces DEF Causes
  <2>3. QED
    BY <1>t, <2>1, <2>2 DEF Causes
<1>8. CASE SkipCommitted \/ Commit \/ CommitExists
  <2>1. PICK r \in heap : Advance(r)
    BY <1>8 DEF SkipCommitted, Commit, CommitExists
  <2>2. committer = "drain" /\ UNCHANGED <<ctx, at, job, results, firstErr>>
    BY <1>8 DEF SkipCommitted, Commit, CommitExists
  <2>3. cancelled = TRUE => ctx = TRUE \/ firstErr # "none"
    BY <1>t, <2>2 DEF Causes
  <2>4. CASE next + 1 = N
    <3>1. committer' = "done" /\ next' = N
      BY <2>1, <2>4 DEF Advance, Report
    <3>2. QED
      BY <1>t, <2>2, <3>1 DEF Causes
  <2>5. CASE next + 1 # N
    BY <1>t, <2>1, <2>2, <2>3, <2>5 DEF Advance, Causes
  <2>6. QED
    BY <2>4, <2>5
<1>9. CASE CommitFails
  <2>1. cancelled = TRUE => ctx = TRUE \/ firstErr # "none"
    BY <1>t, <1>9 DEF CommitFails, Causes
  <2>2. PICK e \in Failures :
           IF e = "derived" /\ firstErr # "none" THEN UNCHANGED firstErr ELSE StoreErr(e)
    BY <1>9 DEF CommitFails
  <2>3. UNCHANGED <<ctx, at, job, results>>
    BY <1>9 DEF CommitFails
  <2>4. e = "real" \/ (e = "derived" /\ (ctx = TRUE \/ cancelled = TRUE))
    BY <1>t DEF Failures, Done, TypeOK
  <2>5. firstErr' # "none" /\ (firstErr' = "derived" => ctx = TRUE)
    BY <1>t, <2>1, <2>2, <2>4 DEF StoreErr, Causes
  <2>6. QED
    BY <2>3, <2>5 DEF Causes
<1>10. CASE DrainEnds
  BY <1>t, <1>10 DEF DrainEnds, Causes
<1>11. QED
  BY <1>2, <1>3, <1>4, <1>5, <1>6, <1>7, <1>8, <1>9, <1>10 DEF Next, Committer

LEMMA CauseInvariant == Spec => []CauseInv
<1>1. Init => CauseInv
  BY LayerInit DEF LayerInv
<1>2. CauseInv /\ [Next]_vars => CauseInv'
  BY PipelineNext, SnapshotTypeNext, ApartNext, PhasesNext, CausesNext DEF CauseInv
<1>3. QED
  BY <1>1, <1>2, PTL DEF Spec

(* "storeErr MUST be called before cancel": the error that is kept is the  *)
(* cause of the failure, never a consequence of the pipeline's own         *)
(* cancellation, for any number of layers and workers, repeated layers     *)
(* included (orchestrator.go, storeErr and the deferred cancel).           *)
THEOREM StoredErrorIsCause == Spec => []FirstErrReal
<1>1. CauseInv => FirstErrReal
  BY DEF CauseInv, Causes, FirstErrReal
<1>2. QED
  BY <1>1, CauseInvariant, PTL

-----------------------------------------------------------------------------
(* A step that refills or empties the snapshot of layer i, which only i    *)
(* uses, leaves what is ready of other layers as it was.                   *)
LEMMA OnlyOwnSnapshot ==
    ASSUME Distinct, TypeOK, NEW i \in Layers, NEW S,
           applied' = [applied EXCEPT ![Diff[i]] = S]
    PROVE  /\ applied'[Diff[i]] = S
           /\ \A j \in Layers \ {i} : applied'[Diff[j]] = applied[Diff[j]]
BY LayersAssumption DEF Distinct, TypeOK

(* Each step keeps ready snapshots filled by their own layer. *)
LEMMA FilledNext == Distinct /\ LayerInv /\ [Next]_vars => Filled'
<1> SUFFICES ASSUME Distinct, LayerInv, [Next]_vars PROVE Filled'
  OBVIOUS
<1> USE LayersAssumption DEF callerVars, workerVars, committerVars, snVars
<1>t. TypeOK /\ Phases /\ Apart /\ Filled
  BY DEF LayerInv, CauseInv
<1>q. events \in Seq(Events) /\ results \in Seq(Results) /\ job \in [Workers -> Results]
  BY <1>t DEF TypeOK
<1>1. ASSUME UNCHANGED <<applied, results, heap>>, NEW w \in Workers,
             \A v \in Workers \ {w} : job'[v] = job[v] /\ at'[v] = at[v],
             at'[w] = "send" => ~Ready(job[w])'
      PROVE  Filled'
  BY <1>t, <1>1 DEF Filled, Ready, Backed
<1>2. CASE Caller \/ Cancel \/ CloseResults \/ UNCHANGED vars
  <2>1. UNCHANGED <<applied, results, heap, job, at>>
    BY <1>2 DEF Caller, Send, Close, Cancel, CloseResults, vars
  <2>2. QED
    BY <1>t, <2>1 DEF Filled
<1>3. ASSUME NEW w \in Workers, Receive(w) \/ Stat(w) PROVE Filled'
  <2>1. UNCHANGED <<applied, results, heap>>
    BY <1>3 DEF Receive, Stat
  <2>2. at'[w] = "send" => job'[w].already = TRUE
    BY <1>t, <1>3, ReceiveJob, StatJob
  <2>3. \A v \in Workers \ {w} : job'[v] = job[v] /\ at'[v] = at[v]
    BY <1>t, <1>3, ReceiveJob, StatJob
  <2>4. QED
    BY <1>1, <2>1, <2>2, <2>3 DEF Ready
<1>4. ASSUME NEW w \in Workers, WorkerExits(w) \/ Prepare(w) \/ Mounts(w) PROVE Filled'
  <2>1. UNCHANGED <<applied, results, heap, job>>
    BY <1>4 DEF WorkerExits, Prepare, Mounts
  <2>2. /\ \A v \in Workers \ {w} : at'[v] = at[v]
        /\ at'[w] # "send"
    BY <1>t, <1>4 DEF WorkerExits, Prepare, Mounts, Goto, TypeOK
  <2>3. QED
    BY <1>1, <2>1, <2>2
<1>5. ASSUME NEW w \in Workers, PrepareFails(w) PROVE Filled'
  <2>1. PICK e \in Failures : Fails(w, e)
    BY <1>5 DEF PrepareFails
  <2>2. UNCHANGED <<applied, results, heap>>
    BY <1>5 DEF PrepareFails
  <2>3. QED
    BY <1>t, <1>1, <2>1, <2>2, FailsKeepsLayer
<1>6. ASSUME NEW w \in Workers, Action(w) PROVE Filled'
  <2> DEFINE i == job[w].seq
  <2>1. i \in Layers /\ InJob(i)
    BY <1>t, <1>6 DEF Action, Phases, InJob
  <2>2. UNCHANGED <<results, heap, job>> /\ \A v \in Workers \ {w} : at'[v] = at[v]
    BY <1>t, <1>6 DEF Action, Goto, TypeOK
  <2>3. applied' = [applied EXCEPT ![Diff[i]] = applied[Diff[i]] \cup {i}]
    BY <1>6 DEF Action
  <2>4. applied[Diff[i]] \cup {i} = {i}
    BY <1>t, <2>1 DEF Filled
  <2> HIDE DEF i
  <2>5. applied'[Diff[i]] = {i} /\ \A j \in Layers \ {i} : applied'[Diff[j]] = applied[Diff[j]]
    BY <1>t, <2>1, <2>3, <2>4, OnlyOwnSnapshot
  <2>6. \A j \in Layers : applied'[Diff[j]] \subseteq {j}
    BY <1>t, <2>5 DEF Filled
  <2>7. \A j \in Layers : applied[Diff[j]] = {j} => applied'[Diff[j]] = {j}
    BY <2>5
  <2>8. \A r : Backed(r, applied) => Backed(r, applied')
    BY <2>7 DEF Backed, Ready
  <2>9. Backed(job[w], applied')
    BY <2>5 DEF Backed, i
  <2>10. QED
    BY <1>t, <2>2, <2>6, <2>8, <2>9 DEF Filled
<1>7. ASSUME NEW w \in Workers, ActionFails(w) PROVE Filled'
  <2> DEFINE i == job[w].seq
  <2>1. i \in Layers /\ InJob(i)
    BY <1>t, <1>7 DEF ActionFails, Phases, InJob
  <2>2. PICK e \in Failures : Fails(w, e)
    BY <1>7 DEF ActionFails
  <2>3. /\ \A v \in Workers \ {w} : job'[v] = job[v] /\ at'[v] = at[v]
        /\ at'[w] = "store" /\ UNCHANGED <<results, heap>>
    BY <1>t, <1>7, <2>2, FailsKeepsLayer DEF ActionFails
  <2>4. CASE UNCHANGED applied
    BY <1>1, <2>3, <2>4
  <2>5. CASE applied' = [applied EXCEPT ![Diff[i]] = {}]
    <3>1. \A v \in Workers \ {w} : job[v].seq # i
      BY <1>t, <2>1 DEF Apart, PlacedOnce
    <3>2. ~InResults(i) /\ ~InHeap(i)
      BY <1>t, <2>1 DEF Apart, PlacedOnce
    <3> HIDE DEF i
    <3>3. applied'[Diff[i]] = {} /\ \A j \in Layers \ {i} : applied'[Diff[j]] = applied[Diff[j]]
      BY <1>t, <2>1, <2>5, OnlyOwnSnapshot
    <3>4. \A r : Backed(r, applied) /\ r.seq # i => Backed(r, applied')
      BY <3>3 DEF Backed, Ready
    <3>5. \A j \in Layers : applied'[Diff[j]] \subseteq {j}
      BY <1>t, <3>3 DEF Filled
    <3>6. \A v \in Workers : at'[v] = "send" => Backed(job'[v], applied')
      BY <1>t, <2>3, <3>1, <3>4 DEF Filled
    <3>7. \A k \in 1..Len(results) : Backed(results[k], applied')
      BY <1>t, <3>2, <3>4 DEF Filled, InResults
    <3>8. \A r \in heap : Backed(r, applied')
      BY <1>t, <3>2, <3>4 DEF Filled, InHeap
    <3>9. QED
      BY <2>3, <3>5, <3>6, <3>7, <3>8 DEF Filled
  <2>6. QED
    BY <1>7, <2>4, <2>5 DEF ActionFails
<1>8. ASSUME NEW w \in Workers, Store(w) PROVE Filled'
  <2>1. job[w].err # "none" /\ UNCHANGED <<applied, results, heap, job>>
    BY <1>t, <1>8 DEF Store, Phases
  <2>2. \A v \in Workers \ {w} : at'[v] = at[v]
    BY <1>t, <1>8 DEF Store, Goto, TypeOK
  <2>3. QED
    BY <1>1, <2>1, <2>2 DEF Ready
<1>9. ASSUME NEW w \in Workers, Deliver(w) PROVE Filled'
  <2>1. /\ UNCHANGED <<applied, heap>> /\ at[w] = "send"
        /\ \A v \in Workers \ {w} : job'[v] = job[v] /\ at'[v] = at[v]
        /\ at'[w] = "recv"
    BY <1>t, <1>9 DEF Deliver, Goto, TypeOK
  <2>2. Backed(job[w], applied)
    BY <1>t, <2>1 DEF Filled
  <2>3. \A k \in 1..Len(results') : Backed(results'[k], applied)
    <3>1. CASE UNCHANGED results
      BY <1>t, <3>1 DEF Filled
    <3>2. CASE results' = Append(results, job[w])
      <4>1. job[w] \in Results
        BY <1>q
      <4>2. QED
        BY <1>t, <1>q, <2>2, <3>2, <4>1, AppendPlaces DEF Filled
    <3>3. QED
      BY <1>9, <3>1, <3>2 DEF Deliver
  <2>4. QED
    BY <1>t, <2>1, <2>3 DEF Filled
<1>10. CASE SelectDone \/ SelectClosed \/ CommitFails \/ DrainEnds \/ SkipCommitted \/ CommitExists
  <2>1. UNCHANGED <<applied, results, job, at>> /\ heap' \subseteq heap
    BY <1>10 DEF SelectDone, SelectClosed, CommitFails, DrainEnds, SkipCommitted, CommitExists, Advance
  <2>2. QED
    BY <1>t, <2>1 DEF Filled
<1>11. CASE SelectError \/ SelectResult
  <2>1. /\ results # <<>> /\ results' = Tail(results)
        /\ heap' \subseteq heap \cup {Head(results)} /\ UNCHANGED <<applied, job, at>>
    BY <1>11 DEF SelectError, SelectResult
  <2>2. /\ Backed(Head(results), applied)
        /\ \A k \in 1..Len(results') : Backed(results'[k], applied)
    BY <1>t, <1>q, <2>1, TailPlaces DEF Filled
  <2>3. QED
    BY <1>t, <2>1, <2>2 DEF Filled
<1>12. CASE Commit
  <2>1. PICK r \in heap :
           /\ Turn(r)
           /\ applied' = [applied EXCEPT ![Diff[r.seq]] = {}]
           /\ Advance(r)
    BY <1>12 DEF Commit
  <2>2. UNCHANGED <<results, job, at>> /\ heap' = heap \ {r}
    BY <1>12, <2>1 DEF Commit, Advance
  <2>3. r.seq \in Layers /\ InHeap(r.seq)
    BY <1>t, <2>1 DEF TypeOK, Turn, Results, Events, BadSeq, Layers, InHeap
  <2>4. /\ ~InJob(r.seq) /\ ~InResults(r.seq)
        /\ \A s \in heap' : s.seq # r.seq
    BY <1>t, <2>2, <2>3 DEF Apart, PlacedOnce
  <2>5. applied'[Diff[r.seq]] = {} /\ \A j \in Layers \ {r.seq} : applied'[Diff[j]] = applied[Diff[j]]
    BY <1>t, <2>1, <2>3, OnlyOwnSnapshot
  <2>6. \A s : Backed(s, applied) /\ s.seq # r.seq => Backed(s, applied')
    BY <2>5 DEF Backed, Ready
  <2>7. \A j \in Layers : applied'[Diff[j]] \subseteq {j}
    BY <1>t, <2>5 DEF Filled
  <2>8. \A v \in Workers : at[v] = "send" => Backed(job[v], applied')
    BY <1>t, <2>4, <2>6 DEF Filled, InJob
  <2>9. \A k \in 1..Len(results) : Backed(results[k], applied')
    BY <1>t, <2>4, <2>6 DEF Filled, InResults
  <2>10. QED
    BY <1>t, <2>2, <2>4, <2>6, <2>7, <2>8, <2>9 DEF Filled
<1>13. QED
  BY <1>2, <1>3, <1>4, <1>5, <1>6, <1>7, <1>8, <1>9, <1>10, <1>11, <1>12
  DEF Next, Worker, Committer

(* Each step commits a snapshot that its own layer has filled. *)
LEMMA FaithfulLayersNext == Distinct /\ LayerInv /\ [Next]_vars => FaithfulLayers'
<1> SUFFICES ASSUME Distinct, LayerInv, [Next]_vars PROVE FaithfulLayers'
  OBVIOUS
<1> USE LayersAssumption DEF callerVars, workerVars, committerVars, snVars
<1>t. TypeOK /\ Phases /\ Filled /\ FaithfulLayers
  BY DEF LayerInv, CauseInv
<1>1. CASE UNCHANGED <<committed, content>>
  BY <1>t, <1>1 DEF FaithfulLayers
<1>2. CASE Commit
  <2>1. PICK r \in heap :
           /\ Turn(r) /\ ~r.already
           /\ committed' = committed \cup {r.seq}
           /\ content' = [content EXCEPT ![r.seq] = applied[Diff[r.seq]]]
    BY <1>2 DEF Commit
  <2>2. r \in Results /\ r.seq \in Layers
    BY <1>t, <2>1 DEF TypeOK, Turn, Results, Events, BadSeq, Layers
  <2>3. Ready(r)
    BY <1>t, <2>1, <2>2 DEF Ready, Results, Phases
  <2>4. applied[Diff[r.seq]] = {r.seq}
    BY <1>t, <2>3 DEF Filled, Backed
  <2>5. QED
    BY <1>t, <2>1, <2>2, <2>4 DEF FaithfulLayers, TypeOK
<1>3. QED
  BY <1>1, <1>2
  DEF Next, Caller, Send, Close, Cancel, CloseResults, Worker, Receive, WorkerExits, Stat,
      Prepare, Mounts, PrepareFails, Action, ActionFails, Store, Deliver, Committer, SelectDone,
      SelectClosed, SelectError, SelectResult, SkipCommitted, CommitExists, CommitFails, DrainEnds, vars

(* When no layer is repeated, each committed snapshot has been filled by   *)
(* its own layer's Action, once, whatever earlier runs left behind and     *)
(* whichever workers fail (processEvent, commitLayer).  With a repeated    *)
(* layer two workers share one active snapshot, so the hypothesis is       *)
(* needed.                                                                 *)
THEOREM LayersFaithfulAlways ==
    ASSUME Distinct
    PROVE  Spec => []LayersFaithful
<1>1. Init => LayerInv
  BY LayerInit
<1>2. LayerInv /\ [Next]_vars => LayerInv'
  BY PipelineNext, SnapshotTypeNext, ApartNext, PhasesNext, CausesNext, FilledNext,
     FaithfulLayersNext DEF LayerInv, CauseInv
<1>3. LayerInv => LayersFaithful
  BY DEF LayerInv, CauseInv, Causes, LayersFaithful, FirstErrReal
<1>4. QED
  BY <1>1, <1>2, <1>3, PTL DEF Spec

-----------------------------------------------------------------------------

(* Layers of the same content are converted to layers of the same content: *)
(* the map from old diff IDs to new ones is shared by all manifests.       *)
Congruent(w) ==
    \A l, n \in DOMAIN w.to : w.diff[l] = w.diff[n] => w.diff[w.to[l]] = w.diff[w.to[n]]

(* The layer function leaves a layer alone that is converted already. *)
Settled(w) ==
    \A l \in DOMAIN w.to : w.to[l] \in DOMAIN w.to => w.to[w.to[l]] = w.to[l]

(* The shape of the state. *)
CvTyped ==
    /\ cvOf \in CvWorlds
    /\ DOMAIN cvPc = Ms
    /\ DOMAIN cvTask = Ms /\ \A m \in Ms : DOMAIN cvTask[m] = Ls(m)
    /\ DOMAIN cvLayers = Ms /\ \A m \in Ms : DOMAIN cvLayers[m] = Ls(m)
    /\ DOMAIN cvDiffs = Ms /\ \A m \in Ms : DOMAIN cvDiffs[m] = Ls(m)
    /\ DOMAIN cvLabels = Ms /\ \A m \in Ms : DOMAIN cvLabels[m] = Ls(m)
    /\ DOMAIN cvMap = Range(cvOf.diff)

New(m, k) == cvOf.to[Old(m, k)]
AllOk(m) == \A k \in Ls(m) : cvTask[m][k] = "ok"

(* The new manifest has the new layer where its task is over. *)
LayersRecorded ==
    \A m \in Ms : \A k \in Ls(m) : cvLayers[m][k] = IF cvTask[m][k] = "ok" THEN New(m, k) ELSE Old(m, k)

(* What a manifest has come to says how far its layers are. *)
PcTells ==
    \A m \in Ms :
        /\ cvPc[m] \in {"config", "write", "new"} => AllOk(m)
        /\ cvPc[m] = "same" => AllOk(m) \/ LosesError(m)
        /\ cvPc[m] = "removed" => ~cvOf.manifests[m].match

(* The map holds a layer's new diff ID or nothing, and holds it when the   *)
(* layer is recorded and the diff ID changes.                              *)
MapExact ==
    /\ \A l \in AllLayers : cvMap[cvOf.diff[l]] \in {NoMap, cvOf.diff[cvOf.to[l]]}
    /\ \A m \in Ms : \A k \in Ls(m) :
            cvTask[m][k] = "ok" /\ cvOf.diff[New(m, k)] # cvOf.diff[Old(m, k)] => cvMap[cvOf.diff[Old(m, k)]] # NoMap

(* The configuration is converted once, from the old diff IDs. *)
DiffsExact ==
    \A m \in Ms : \A k \in Ls(m) :
        /\ cvPc[m] \in {"read", "layers", "config"} => cvDiffs[m][k] = cvOf.diff[Old(m, k)]
        /\ cvPc[m] \in {"write", "new"} /\ ~CvFault("config", m) => cvDiffs[m][k] = cvOf.diff[New(m, k)]

(* A label of a layer that is recorded, or stays, is its new digest.       *)
LabelsExact ==
    \A m \in Ms : \A k \in Ls(m) :
        /\ cvLabels[m][k] \subseteq {Old(m, k), New(m, k)}
        /\ cvTask[m][k] = "ok" \/ New(m, k) = Old(m, k) => New(m, k) \in cvLabels[m][k]
        /\ cvTask[m][k] = "ok" /\ New(m, k) # Old(m, k) => Old(m, k) \notin cvLabels[m][k]

OutTells == cvOut = "ok" => \A m \in Ms : cvPc[m] \in {"new", "same", "removed"}

CvInv == CvTyped /\ LayersRecorded /\ PcTells /\ MapExact /\ DiffsExact /\ LabelsExact /\ OutTells

-----------------------------------------------------------------------------
(* The world stays, and so do its manifests and layers. *)
LEMMA CvWorldStays ==
    ASSUME CvNext
    PROVE  /\ cvOf' = cvOf /\ Ms' = Ms /\ AllLayers' = AllLayers
           /\ \A m : Ls(m)' = Ls(m) /\ cvOf'.manifests[m] = cvOf.manifests[m]
           /\ \A m, k : Old(m, k)' = Old(m, k) /\ New(m, k)' = New(m, k)
           /\ \A op, x : CvFault(op, x)' <=> CvFault(op, x)
           /\ \A m : LosesError(m)' <=> LosesError(m)
<1>1. cvOf' = cvOf
  BY DEF CvNext, CvRead, CvHookFails, CvLayersEnd, CvConfig, CvWrite, LayerCall, RecordLayer, TakeSlot, ConvertLayer, CvIndex
<1>2. QED
  BY <1>1 DEF Ms, Ls, Old, New, AllLayers, CvFault, LosesError

(* The digests and the diff IDs of a layer are in the world. *)
LEMMA CvWorldTyped ==
    ASSUME cvOf \in CvWorlds
    PROVE  /\ \A m \in Ms : \A k \in Ls(m) : Old(m, k) \in AllLayers
           /\ \A l \in AllLayers :
                /\ l \in DOMAIN cvOf.diff /\ cvOf.to[l] \in DOMAIN cvOf.diff
                /\ cvOf.diff[l] \in Range(cvOf.diff)
                /\ cvOf.diff[cvOf.to[l]] # NoMap
           /\ \A m \in Ms : DOMAIN cvOf.manifests[m].layers = Ls(m)
BY CvWorldsAssumption DEF Ms, Ls, Old, AllLayers, Range

LEMMA CvInitHolds == CvInit => CvInv
<1> SUFFICES ASSUME CvInit PROVE CvInv
  OBVIOUS
<1>1. cvOf \in CvWorlds
  BY DEF CvInit
<1>2. CvTyped
  BY <1>1, CvWorldTyped DEF CvInit, CvTyped
<1>3. LayersRecorded
  BY DEF CvInit, LayersRecorded, Old
<1>4. PcTells /\ OutTells
  BY DEF CvInit, PcTells, OutTells
<1>5. MapExact
  BY <1>1, CvWorldTyped DEF CvInit, MapExact
<1>6. DiffsExact /\ LabelsExact
  BY DEF CvInit, DiffsExact, LabelsExact, New
<1>7. QED
  BY <1>2, <1>3, <1>4, <1>5, <1>6 DEF CvInv

-----------------------------------------------------------------------------
(* How far the layers are changes in few ways: a task is over for good,    *)
(* and is recorded by RecordLayer alone.                                   *)
LEMMA TasksMove ==
    ASSUME CvTyped, CvNext
    PROVE  /\ DOMAIN cvTask' = Ms /\ \A m \in Ms : DOMAIN cvTask'[m] = Ls(m)
           /\ \A m \in Ms : \A k \in Ls(m) :
                /\ cvTask[m][k] = "ok" => cvTask'[m][k] = "ok"
                /\ cvTask'[m][k] = "ok" => cvTask[m][k] = "ok" \/ RecordLayer(m, k)
<1>1. ASSUME NEW m \in Ms, CvRead(m) \/ CvHookFails(m) \/ CvLayersEnd(m) \/ CvConfig(m) \/ CvWrite(m) PROVE cvTask' = cvTask
  BY <1>1 DEF CvRead, CvHookFails, CvLayersEnd, CvConfig, CvWrite
<1>2. CvIndex => cvTask' = cvTask
  BY DEF CvIndex
<1>3. ASSUME NEW m \in Ms, NEW k \in Ls(m), LayerCall(m, k) PROVE cvTask[m][k] = "call" /\ cvTask' = [cvTask EXCEPT ![m][k] = "wait"]
  BY <1>3 DEF LayerCall
<1>4. ASSUME NEW m \in Ms, NEW k \in Ls(m), RecordLayer(m, k) PROVE cvTask' = [cvTask EXCEPT ![m][k] = "ok"]
  BY <1>4 DEF RecordLayer
<1>5. ASSUME NEW l \in AllLayers, TakeSlot(l) \/ ConvertLayer(l)
      PROVE  cvTask' = cvTask \/ \E ok \in BOOLEAN : cvTask' = [m \in Ms |-> [k \in Ls(m) |-> IF Old(m, k) = l /\ cvTask[m][k] = "wait"
                                                THEN (IF ok THEN "record" ELSE "err") ELSE cvTask[m][k]]]
  BY <1>5 DEF TakeSlot, ConvertLayer, FlightEnds
<1>6. DOMAIN cvTask = Ms /\ \A m \in Ms : DOMAIN cvTask[m] = Ls(m)
  BY DEF CvTyped
<1>a. CASE cvTask' = cvTask
  BY <1>a, <1>6
<1>b. ASSUME NEW m \in Ms, NEW k \in Ls(m), LayerCall(m, k)
      PROVE  /\ DOMAIN cvTask' = Ms /\ \A i \in Ms : DOMAIN cvTask'[i] = Ls(i)
             /\ \A i \in Ms : \A j \in Ls(i) : cvTask[i][j] = "ok" <=> cvTask'[i][j] = "ok"
  BY <1>b, <1>3, <1>6
<1>c. ASSUME NEW m \in Ms, NEW k \in Ls(m), RecordLayer(m, k)
      PROVE  /\ DOMAIN cvTask' = Ms /\ \A i \in Ms : DOMAIN cvTask'[i] = Ls(i)
             /\ \A i \in Ms : \A j \in Ls(i) : cvTask[i][j] = "ok" => cvTask'[i][j] = "ok"
             /\ \A i \in Ms : \A j \in Ls(i) : cvTask'[i][j] = "ok" => cvTask[i][j] = "ok" \/ (i = m /\ j = k)
  BY <1>c, <1>4, <1>6
<1>d. ASSUME NEW l \in AllLayers, TakeSlot(l) \/ ConvertLayer(l)
      PROVE  /\ DOMAIN cvTask' = Ms /\ \A i \in Ms : DOMAIN cvTask'[i] = Ls(i)
             /\ \A i \in Ms : \A j \in Ls(i) : cvTask[i][j] = "ok" <=> cvTask'[i][j] = "ok"
  BY <1>d, <1>5, <1>6
<1>7. QED
  BY <1>1, <1>2, <1>a, <1>b, <1>c, <1>d DEF CvNext

(* Only RecordLayer touches the new layers, their labels and the map.      *)
LEMMA RecordsAlone ==
    ASSUME CvNext
    PROVE  \/ UNCHANGED <<cvLayers, cvLabels, cvMap>>
           \/ \E m \in Ms : \E k \in Ls(m) : RecordLayer(m, k)
BY DEF CvNext, CvRead, CvHookFails, CvLayersEnd, CvConfig, CvWrite, LayerCall, TakeSlot, ConvertLayer, CvIndex

(* Only CvConfig touches the diff IDs.                                     *)
LEMMA ConfigAlone ==
    ASSUME CvNext
    PROVE  cvDiffs' = cvDiffs \/ \E m \in Ms : CvConfig(m)
BY DEF CvNext, CvRead, CvHookFails, CvLayersEnd, CvWrite, LayerCall, RecordLayer, TakeSlot, ConvertLayer, CvIndex

(* What a record does to layers, map and labels.                           *)
LEMMA RecordDoes ==
    ASSUME CvTyped, NEW m \in Ms, NEW k \in Ls(m), RecordLayer(m, k)
    PROVE  /\ cvTask[m][k] = "record" /\ cvTask' = [cvTask EXCEPT ![m][k] = "ok"]
           /\ cvLayers' = [cvLayers EXCEPT ![m][k] = New(m, k)] \/ (New(m, k) = Old(m, k) /\ cvLayers' = cvLayers)
           /\ \/ cvOf.diff[New(m, k)] = cvOf.diff[Old(m, k)] /\ cvMap' = cvMap
              \/ cvMap' = [cvMap EXCEPT ![cvOf.diff[Old(m, k)]] = cvOf.diff[New(m, k)]]
           /\ \/ New(m, k) = Old(m, k) /\ cvLabels' = cvLabels
              \/ /\ New(m, k) # Old(m, k)
                 /\ cvLabels' = [cvLabels EXCEPT ![m] = [j \in Ls(m) |-> (cvLabels[m][j] \ {Old(m, k)}) \cup
                                                                        (IF j = k THEN {New(m, k)} ELSE {})]]
           /\ UNCHANGED <<cvPc, cvDiffs, cvOut>>
<1>1. /\ cvTask[m][k] = "record" /\ cvTask' = [cvTask EXCEPT ![m][k] = "ok"] /\ RecordMap(m, k) /\ UNCHANGED <<cvPc, cvDiffs, cvOut>>
      /\ IF New(m, k) = Old(m, k) THEN UNCHANGED <<cvLayers, cvLabels>>
         ELSE cvLayers' = [cvLayers EXCEPT ![m][k] = New(m, k)]
              /\ cvLabels' = [cvLabels EXCEPT ![m] = Relabel(cvLabels[m], k, Old(m, k), New(m, k))]
  BY DEF RecordLayer, New, CvTyped
<1>2. \/ cvOf.diff[New(m, k)] = cvOf.diff[Old(m, k)] /\ cvMap' = cvMap
      \/ cvMap' = [cvMap EXCEPT ![cvOf.diff[Old(m, k)]] = cvOf.diff[New(m, k)]]
  BY <1>1 DEF RecordMap, New
<1>3. Relabel(cvLabels[m], k, Old(m, k), New(m, k))
        = [j \in Ls(m) |-> (cvLabels[m][j] \ {Old(m, k)}) \cup (IF j = k THEN {New(m, k)} ELSE {})]
  <2>1. DOMAIN cvLabels[m] = Ls(m)
    BY DEF CvTyped
  <2>2. QED
    BY <2>1 DEF Relabel, ClearLabels
<1>4. QED
  BY <1>1, <1>2, <1>3

LEMMA CvTypedKept == CvTyped /\ CvNext => CvTyped'
<1> SUFFICES ASSUME CvTyped, CvNext PROVE CvTyped'
  OBVIOUS
<1>1. cvOf' = cvOf /\ Ms' = Ms /\ \A m : Ls(m)' = Ls(m)
  BY CvWorldStays
<1>2. DOMAIN cvPc' = Ms
  <2>1. cvPc' = cvPc \/ \E m \in Ms : \E how : cvPc' = [cvPc EXCEPT ![m] = how]
    BY DEF CvNext, CvRead, CvHookFails, CvLayersEnd, CvConfig, CvWrite, LayerCall, RecordLayer, TakeSlot, ConvertLayer, CvIndex, EndManifest
  <2>2. QED
    BY <2>1 DEF CvTyped
<1>3. DOMAIN cvTask' = Ms /\ \A m \in Ms : DOMAIN cvTask'[m] = Ls(m)
  BY TasksMove
<1>4. DOMAIN cvDiffs' = Ms /\ \A m \in Ms : DOMAIN cvDiffs'[m] = Ls(m)
  <2>1. cvDiffs' = cvDiffs \/ \E m \in Ms : \E f : DOMAIN f = Ls(m) /\ cvDiffs' = [cvDiffs EXCEPT ![m] = f]
    BY ConfigAlone DEF CvConfig
  <2>2. DOMAIN cvDiffs = Ms /\ \A m \in Ms : DOMAIN cvDiffs[m] = Ls(m)
    BY DEF CvTyped
  <2>3. QED
    BY <2>1, <2>2
<1> DEFINE Shaped(f) == DOMAIN f = Ms /\ \A m \in Ms : DOMAIN f[m] = Ls(m)
<1>s. Shaped(cvLayers) /\ Shaped(cvLabels) /\ DOMAIN cvMap = Range(cvOf.diff)
  BY DEF CvTyped
<1>5. Shaped(cvLayers') /\ Shaped(cvLabels') /\ DOMAIN cvMap' = Range(cvOf.diff)
  <2>1. CASE UNCHANGED <<cvLayers, cvLabels, cvMap>>
    BY <1>s, <2>1
  <2>2. ASSUME NEW m \in Ms, NEW k \in Ls(m), RecordLayer(m, k)
        PROVE  Shaped(cvLayers') /\ Shaped(cvLabels') /\ DOMAIN cvMap' = Range(cvOf.diff)
    <3>1. Shaped(cvLayers')
      BY <1>s, <2>2, RecordDoes
    <3>2. Shaped(cvLabels')
      BY <1>s, <2>2, RecordDoes
    <3>3. QED
      BY <1>s, <2>2, <3>1, <3>2, RecordDoes
  <2>3. QED
    BY <2>1, <2>2, RecordsAlone
<1>6. QED
  BY <1>1, <1>2, <1>3, <1>4, <1>5 DEF CvTyped

-----------------------------------------------------------------------------
LEMMA LayersKept ==
    ASSUME CvTyped, CvNext, LayersRecorded
    PROVE  LayersRecorded'
<1> SUFFICES ASSUME NEW m \in Ms, NEW k \in Ls(m)
             PROVE  cvLayers'[m][k] = IF cvTask'[m][k] = "ok" THEN New(m, k) ELSE Old(m, k)
  BY CvWorldStays DEF LayersRecorded
<1>1. cvLayers[m][k] = IF cvTask[m][k] = "ok" THEN New(m, k) ELSE Old(m, k)
  BY DEF LayersRecorded
<1>2. CASE \E i \in Ms : \E j \in Ls(i) : RecordLayer(i, j)
  <2>1. PICK i \in Ms : \E j \in Ls(i) : RecordLayer(i, j)
    BY <1>2
  <2>2. PICK j \in Ls(i) : RecordLayer(i, j)
    BY <2>1
  <2>3. /\ cvTask' = [cvTask EXCEPT ![i][j] = "ok"] /\ cvTask[i][j] = "record"
        /\ cvLayers' = [cvLayers EXCEPT ![i][j] = New(i, j)] \/ (New(i, j) = Old(i, j) /\ cvLayers' = cvLayers)
    BY <2>2, RecordDoes
  <2>4. /\ DOMAIN cvTask = Ms /\ DOMAIN cvTask[m] = Ls(m) /\ DOMAIN cvLayers = Ms /\ DOMAIN cvLayers[m] = Ls(m)
    BY DEF CvTyped
  <2>5. CASE i = m /\ j = k
    <3>1. cvTask'[m][k] = "ok" /\ cvLayers[m][k] = Old(m, k)
      BY <1>1, <2>3, <2>4, <2>5
    <3>2. cvLayers'[m][k] = New(m, k)
      BY <3>1, <2>3, <2>4, <2>5
    <3>3. QED
      BY <3>1, <3>2
  <2>6. CASE ~(i = m /\ j = k)
    <3>1. cvTask'[m][k] = cvTask[m][k]
      BY <2>3, <2>4, <2>6
    <3>2. cvLayers'[m][k] = cvLayers[m][k]
      BY <2>3, <2>4, <2>6
    <3>3. QED
      BY <1>1, <3>1, <3>2
  <2>7. QED
    BY <2>5, <2>6
<1>3. CASE ~\E i \in Ms : \E j \in Ls(i) : RecordLayer(i, j)
  <2>1. cvLayers' = cvLayers /\ (cvTask'[m][k] = "ok" <=> cvTask[m][k] = "ok")
    BY <1>3, RecordsAlone, TasksMove
  <2>2. QED
    BY <1>1, <2>1
<1>4. QED
  BY <1>2, <1>3

(* Where a manifest's state comes from. *)
LEMMA PcMoves ==
    ASSUME CvTyped, CvNext, NEW m \in Ms, cvPc'[m] # cvPc[m]
    PROVE  \/ cvPc[m] = "read" /\ cvPc'[m] = "removed" /\ ~cvOf.manifests[m].match
           \/ cvPc[m] = "read" /\ cvPc'[m] \in {"err", "same"} /\ LosesError(m)
           \/ cvPc[m] = "read" /\ cvPc'[m] = "layers"
           \/ cvPc[m] = "layers" /\ cvPc'[m] = "config" /\ AllOk(m)
           \/ cvPc[m] = "layers" /\ cvPc'[m] = "err"
           \/ cvPc[m] = "config" /\ cvPc'[m] \in {"write", "same"} /\ CvConfig(m)
           \/ cvPc[m] = "write" /\ cvPc'[m] \in {"new", "same"}
<1>0. DOMAIN cvPc = Ms
  BY DEF CvTyped
<1>1. PICK i \in Ms : CvRead(i) \/ CvLayersEnd(i) \/ CvConfig(i) \/ CvWrite(i)
  BY DEF CvNext, CvHookFails, LayerCall, RecordLayer, TakeSlot, ConvertLayer, CvIndex
<1>2. \E how : cvPc' = [cvPc EXCEPT ![i] = how]
  BY <1>1 DEF CvRead, CvLayersEnd, CvConfig, CvWrite, EndManifest
<1>3. i = m
  BY <1>0, <1>2
<1>4. CASE CvRead(m)
  <2>1. CvFault("read", m) => LosesError(m)
    BY DEF LosesError
  <2>2. QED
    BY <1>0, <1>4, <2>1 DEF CvRead, EndManifest
<1>5. CASE CvLayersEnd(m)
  <2>1. ~LayerFailed(m) => AllOk(m)
    BY <1>5 DEF CvLayersEnd, LayersOver, LayerFailed, AllOk
  <2>2. QED
    BY <1>0, <1>5, <2>1 DEF CvLayersEnd, EndManifest
<1>6. CASE CvConfig(m)
  BY <1>0, <1>6 DEF CvConfig, EndManifest
<1>7. CASE CvWrite(m)
  BY <1>0, <1>7 DEF CvWrite, EndManifest
<1>8. QED
  BY <1>1, <1>3, <1>4, <1>5, <1>6, <1>7

LEMMA PcKept ==
    ASSUME CvTyped, CvNext, PcTells
    PROVE  PcTells'
<1> SUFFICES ASSUME NEW m \in Ms
             PROVE  /\ cvPc'[m] \in {"config", "write", "new"} => AllOk(m)'
                    /\ cvPc'[m] = "same" => AllOk(m)' \/ LosesError(m)
                    /\ cvPc'[m] = "removed" => ~cvOf.manifests[m].match
  BY CvWorldStays DEF PcTells
<1>1. AllOk(m) => AllOk(m)'
  BY TasksMove, CvWorldStays DEF AllOk
<1>2. /\ cvPc[m] \in {"config", "write", "new"} => AllOk(m)
      /\ cvPc[m] = "same" => AllOk(m) \/ LosesError(m)
      /\ cvPc[m] = "removed" => ~cvOf.manifests[m].match
  BY DEF PcTells
<1>3. CASE cvPc'[m] = cvPc[m]
  BY <1>1, <1>2, <1>3
<1>4. CASE cvPc'[m] # cvPc[m]
  BY <1>1, <1>2, <1>4, PcMoves
<1>5. QED
  BY <1>3, <1>4

LEMMA OutKept ==
    ASSUME CvTyped, CvNext, OutTells
    PROVE  OutTells'
<1> SUFFICES ASSUME cvOut' = "ok", NEW m \in Ms PROVE cvPc'[m] \in {"new", "same", "removed"}
  BY CvWorldStays DEF OutTells
<1>1. CASE CvIndex
  <2>1. cvPc' = cvPc /\ cvPc[m] # "err" /\ Ended(m)
    BY <1>1 DEF CvIndex
  <2>2. QED
    BY <2>1 DEF Ended
<1>2. CASE cvOut' = cvOut
  <2>1. cvPc[m] \in {"new", "same", "removed"}
    BY <1>2 DEF OutTells
  <2>2. QED
    BY <2>1, PcMoves
<1>3. QED
  BY <1>1, <1>2 DEF CvNext, CvRead, CvHookFails, CvLayersEnd, CvConfig, CvWrite, LayerCall, RecordLayer, TakeSlot, ConvertLayer

(* The map is shared: what one manifest records another may read, so this  *)
(* is where layers of one content must be converted alike.                 *)
LEMMA MapKept ==
    ASSUME CvTyped, CvNext, MapExact, Congruent(cvOf)
    PROVE  MapExact'
<1>w. /\ \A m \in Ms : \A k \in Ls(m) : Old(m, k) \in AllLayers
      /\ \A l \in AllLayers : cvOf.diff[l] \in Range(cvOf.diff) /\ cvOf.diff[cvOf.to[l]] # NoMap
  BY CvWorldTyped DEF CvTyped
<1>m. DOMAIN cvMap = Range(cvOf.diff)
  BY DEF CvTyped
<1>1. \A l \in AllLayers : cvMap[cvOf.diff[l]] \in {NoMap, cvOf.diff[cvOf.to[l]]}
  BY DEF MapExact
<1>2. CASE \E i \in Ms : \E j \in Ls(i) : RecordLayer(i, j)
  <2>1. PICK i \in Ms : \E j \in Ls(i) : RecordLayer(i, j)
    BY <1>2
  <2>2. PICK j \in Ls(i) : RecordLayer(i, j)
    BY <2>1
  <2> DEFINE o == Old(i, j)
             n == New(i, j)
  <2>3. /\ cvTask' = [cvTask EXCEPT ![i][j] = "ok"]
        /\ \/ cvOf.diff[n] = cvOf.diff[o] /\ cvMap' = cvMap
           \/ cvMap' = [cvMap EXCEPT ![cvOf.diff[o]] = cvOf.diff[n]]
    BY <2>2, RecordDoes
  <2>4. o \in AllLayers /\ n = cvOf.to[o] /\ cvOf.diff[o] \in DOMAIN cvMap /\ cvOf.diff[n] # NoMap
    BY <1>w, <1>m DEF New
  <2>5. ASSUME NEW l \in AllLayers
        PROVE  /\ cvMap'[cvOf.diff[l]] \in {NoMap, cvOf.diff[cvOf.to[l]]}
               /\ cvMap[cvOf.diff[l]] # NoMap => cvMap'[cvOf.diff[l]] # NoMap
    <3>1. cvOf.diff[l] = cvOf.diff[o] => cvOf.diff[cvOf.to[l]] = cvOf.diff[n]
      BY <2>4 DEF Congruent, AllLayers
    <3>2. cvMap'[cvOf.diff[l]] = cvMap[cvOf.diff[l]]
          \/ (cvOf.diff[l] = cvOf.diff[o] /\ cvMap'[cvOf.diff[l]] = cvOf.diff[n])
      BY <1>w, <1>m, <2>3, <2>4
    <3>3. QED
      BY <1>1, <2>4, <3>1, <3>2
  <2>6. cvOf.diff[n] # cvOf.diff[o] => cvMap'[cvOf.diff[o]] # NoMap
    BY <2>3, <2>4
  <2>7. ASSUME NEW m \in Ms, NEW k \in Ls(m), cvTask'[m][k] = "ok", cvOf.diff[New(m, k)] # cvOf.diff[Old(m, k)]
        PROVE  cvMap'[cvOf.diff[Old(m, k)]] # NoMap
    <3>1. CASE m = i /\ k = j
      BY <2>6, <2>7, <3>1
    <3>2. CASE ~(m = i /\ k = j)
      <4>1. cvTask[m][k] = "ok"
        <5>1. DOMAIN cvTask = Ms /\ DOMAIN cvTask[m] = Ls(m)
          BY DEF CvTyped
        <5>2. QED
          BY <2>3, <2>7, <3>2, <5>1
      <4>2. cvMap[cvOf.diff[Old(m, k)]] # NoMap
        BY <2>7, <4>1 DEF MapExact
      <4>3. QED
        BY <1>w, <2>5, <4>2
    <3>3. QED
      BY <3>1, <3>2
  <2>8. QED
    BY <2>5, <2>7, CvWorldStays DEF MapExact
<1>3. CASE ~\E i \in Ms : \E j \in Ls(i) : RecordLayer(i, j)
  <2>1. cvMap' = cvMap /\ \A m \in Ms : \A k \in Ls(m) : cvTask'[m][k] = "ok" => cvTask[m][k] = "ok"
    BY <1>3, RecordsAlone, TasksMove
  <2>2. QED
    BY <2>1, CvWorldStays DEF MapExact
<1>4. QED
  BY <1>2, <1>3

LEMMA DiffsKept ==
    ASSUME CvTyped, CvNext, PcTells, MapExact, DiffsExact
    PROVE  DiffsExact'
<1> SUFFICES ASSUME NEW m \in Ms, NEW k \in Ls(m)
             PROVE  /\ cvPc'[m] \in {"read", "layers", "config"} => cvDiffs'[m][k] = cvOf.diff[Old(m, k)]
                    /\ cvPc'[m] \in {"write", "new"} /\ ~CvFault("config", m) => cvDiffs'[m][k] = cvOf.diff[New(m, k)]
  BY CvWorldStays DEF DiffsExact
<1>1. /\ cvPc[m] \in {"read", "layers", "config"} => cvDiffs[m][k] = cvOf.diff[Old(m, k)]
      /\ cvPc[m] \in {"write", "new"} /\ ~CvFault("config", m) => cvDiffs[m][k] = cvOf.diff[New(m, k)]
  BY DEF DiffsExact
<1>2. CASE CvConfig(m)
  <2>1. cvPc[m] = "config" /\ cvDiffs[m][k] = cvOf.diff[Old(m, k)] /\ cvTask[m][k] = "ok"
    BY <1>1, <1>2 DEF CvConfig, PcTells, AllOk
  <2>2. cvPc'[m] \in {"write", "same"}
    BY <1>2 DEF CvConfig, EndManifest, CvTyped
  <2>3. ASSUME cvPc'[m] = "write", ~CvFault("config", m) PROVE cvDiffs'[m][k] = cvOf.diff[New(m, k)]
    <3>1. cvDiffs' = [cvDiffs EXCEPT ![m] = [i \in Ls(m) |-> IF cvMap[cvDiffs[m][i]] = NoMap THEN cvDiffs[m][i] ELSE cvMap[cvDiffs[m][i]]]]
      BY <1>2, <2>3 DEF CvConfig, EndManifest, CvTyped
    <3>2. cvDiffs'[m][k] = IF cvMap[cvOf.diff[Old(m, k)]] = NoMap THEN cvOf.diff[Old(m, k)] ELSE cvMap[cvOf.diff[Old(m, k)]]
      BY <2>1, <3>1 DEF CvTyped
    <3>3. cvMap[cvOf.diff[Old(m, k)]] \in {NoMap, cvOf.diff[New(m, k)]}
      BY CvWorldTyped DEF CvTyped, MapExact, New
    <3>4. cvOf.diff[New(m, k)] # cvOf.diff[Old(m, k)] => cvMap[cvOf.diff[Old(m, k)]] # NoMap
      BY <2>1 DEF MapExact
    <3>5. QED
      BY <3>2, <3>3, <3>4
  <2>4. QED
    BY <2>2, <2>3
<1>3. CASE ~CvConfig(m)
  <2>1. cvDiffs'[m] = cvDiffs[m]
    BY <1>3, ConfigAlone DEF CvConfig, CvTyped
  <2>2. cvPc'[m] = cvPc[m] \/ (cvPc'[m] \in {"read", "layers", "config"} /\ cvPc[m] \in {"read", "layers", "config"})
        \/ (cvPc[m] = "write" /\ cvPc'[m] = "new") \/ cvPc'[m] \in {"removed", "err", "same"}
    BY <1>3, PcMoves
  <2>3. QED
    BY <1>1, <2>1, <2>2
<1>4. QED
  BY <1>2, <1>3

(* A record clears the old digest from all labels of the manifest: from no *)
(* label that another layer needs, since a converted layer stays.          *)
LEMMA LabelsKept ==
    ASSUME CvTyped, CvNext, LabelsExact, Settled(cvOf)
    PROVE  LabelsExact'
<1> SUFFICES ASSUME NEW m \in Ms, NEW k \in Ls(m)
             PROVE  /\ cvLabels'[m][k] \subseteq {Old(m, k), New(m, k)}
                    /\ cvTask'[m][k] = "ok" \/ New(m, k) = Old(m, k) => New(m, k) \in cvLabels'[m][k]
                    /\ cvTask'[m][k] = "ok" /\ New(m, k) # Old(m, k) => Old(m, k) \notin cvLabels'[m][k]
  BY CvWorldStays DEF LabelsExact
<1>1. /\ cvLabels[m][k] \subseteq {Old(m, k), New(m, k)}
      /\ cvTask[m][k] = "ok" \/ New(m, k) = Old(m, k) => New(m, k) \in cvLabels[m][k]
      /\ cvTask[m][k] = "ok" /\ New(m, k) # Old(m, k) => Old(m, k) \notin cvLabels[m][k]
  BY DEF LabelsExact
<1>2. ASSUME NEW j \in Ls(m), RecordLayer(m, j)
      PROVE  /\ cvLabels'[m][k] \subseteq {Old(m, k), New(m, k)}
             /\ cvTask'[m][k] = "ok" \/ New(m, k) = Old(m, k) => New(m, k) \in cvLabels'[m][k]
             /\ cvTask'[m][k] = "ok" /\ New(m, k) # Old(m, k) => Old(m, k) \notin cvLabels'[m][k]
  <2>1. /\ cvTask' = [cvTask EXCEPT ![m][j] = "ok"]
        /\ \/ New(m, j) = Old(m, j) /\ cvLabels' = cvLabels
           \/ /\ New(m, j) # Old(m, j)
              /\ cvLabels' = [cvLabels EXCEPT ![m] = [i \in Ls(m) |-> (cvLabels[m][i] \ {Old(m, j)}) \cup
                                                                     (IF i = j THEN {New(m, j)} ELSE {})]]
    BY <1>2, RecordDoes
  <2>2. DOMAIN cvTask = Ms /\ DOMAIN cvTask[m] = Ls(m) /\ DOMAIN cvLabels = Ms
    BY DEF CvTyped
  <2>3. cvTask'[m][k] = IF k = j THEN "ok" ELSE cvTask[m][k]
    BY <2>1, <2>2
  <2>4. Old(m, k) \in AllLayers /\ Old(m, j) \in AllLayers
    BY CvWorldTyped DEF CvTyped
  <2>5. CASE New(m, j) = Old(m, j)
    <3>1. cvLabels' = cvLabels
      BY <2>1, <2>5
    <3>2. QED
      BY <1>1, <2>3, <2>5, <3>1
  <2>6. CASE New(m, j) # Old(m, j)
    <3>1. cvLabels'[m][k] = (cvLabels[m][k] \ {Old(m, j)}) \cup (IF k = j THEN {New(m, j)} ELSE {})
      BY <2>1, <2>2, <2>6
    <3>2. New(m, k) # Old(m, j)
      <4>1. New(m, k) = cvOf.to[Old(m, k)] /\ New(m, j) = cvOf.to[Old(m, j)]
        BY DEF New
      <4>2. cvOf.to[Old(m, k)] = Old(m, j) => cvOf.to[Old(m, j)] = Old(m, j)
        BY <2>4 DEF Settled, AllLayers
      <4>3. QED
        BY <2>6, <4>1, <4>2
    <3>3. CASE k = j
      <4>1. cvLabels'[m][k] = (cvLabels[m][k] \ {Old(m, k)}) \cup {New(m, k)}
        BY <3>1, <3>3
      <4>2. QED
        BY <1>1, <2>6, <3>3, <4>1
    <3>4. CASE k # j
      <4>1. cvLabels'[m][k] = cvLabels[m][k] \ {Old(m, j)}
        BY <3>1, <3>4
      <4>2. cvTask'[m][k] = cvTask[m][k]
        BY <2>3, <3>4
      <4>3. QED
        BY <1>1, <3>2, <4>1, <4>2
    <3>5. QED
      BY <3>3, <3>4
  <2>7. QED
    BY <2>5, <2>6
<1>3. CASE ~\E j \in Ls(m) : RecordLayer(m, j)
  <2>1. cvTask'[m][k] = "ok" <=> cvTask[m][k] = "ok"
    BY <1>3, TasksMove
  <2>2. cvLabels'[m] = cvLabels[m]
    <3>1. ASSUME NEW i \in Ms, NEW j \in Ls(i), RecordLayer(i, j) PROVE cvLabels'[m] = cvLabels[m]
      <4>1. i # m
        BY <1>3, <3>1
      <4>2. cvLabels' = cvLabels \/ \E f : cvLabels' = [cvLabels EXCEPT ![i] = f]
        BY <3>1, RecordDoes
      <4>3. QED
        BY <4>1, <4>2 DEF CvTyped
    <3>2. QED
      BY <3>1, RecordsAlone
  <2>3. QED
    BY <1>1, <2>1, <2>2
<1>4. QED
  BY <1>2, <1>3

LEMMA CvStep ==
    ASSUME \A w \in CvWorlds : Congruent(w) /\ Settled(w)
    PROVE  CvInv /\ [CvNext]_cvVars => CvInv'
<1> SUFFICES ASSUME CvInv, [CvNext]_cvVars PROVE CvInv'
  OBVIOUS
<1>1. CASE CvNext
  <2>1. Congruent(cvOf) /\ Settled(cvOf)
    BY DEF CvInv, CvTyped
  <2>2. CvTyped' /\ LayersRecorded' /\ PcTells' /\ OutTells'
    BY <1>1, CvTypedKept, LayersKept, PcKept, OutKept DEF CvInv
  <2>3. MapExact' /\ DiffsExact' /\ LabelsExact'
    BY <1>1, <2>1, MapKept, DiffsKept, LabelsKept DEF CvInv
  <2>4. QED
    BY <2>2, <2>3 DEF CvInv
<1>2. CASE UNCHANGED cvVars
  <2>1. /\ CvTyped' /\ LayersRecorded' /\ PcTells' /\ OutTells'
    <3>1. CvTyped'
      BY <1>2 DEF cvVars, CvInv, CvTyped, Ms, Ls
    <3>2. LayersRecorded'
      BY <1>2 DEF cvVars, CvInv, LayersRecorded, Ms, Ls, Old, New
    <3>3. PcTells' /\ OutTells'
      BY <1>2 DEF cvVars, CvInv, PcTells, OutTells, Ms, Ls, AllOk, LosesError, CvFault
    <3>4. QED
      BY <3>1, <3>2, <3>3
  <2>2. MapExact' /\ DiffsExact' /\ LabelsExact'
    <3>1. MapExact'
      BY <1>2 DEF cvVars, CvInv, MapExact, Ms, Ls, Old, New, AllLayers
    <3>2. DiffsExact'
      BY <1>2 DEF cvVars, CvInv, DiffsExact, Ms, Ls, Old, New, CvFault
    <3>3. LabelsExact'
      BY <1>2 DEF cvVars, CvInv, LabelsExact, Ms, Ls, Old, New
    <3>4. QED
      BY <3>1, <3>2, <3>3
  <2>3. QED
    BY <2>1, <2>2 DEF CvInv
<1>3. QED
  BY <1>1, <1>2

LEMMA CvInvSound == CvInv => ConversionsSound
<1> SUFFICES ASSUME CvInv PROVE ConversionsSound
  OBVIOUS
<1>1. ConfigFollowsLayers
  <2> SUFFICES ASSUME NEW m \in Ms, cvPc[m] = "new", ~CvFault("config", m), NEW k \in Ls(m)
               PROVE  cvDiffs[m][k] = cvOf.diff[cvLayers[m][k]]
    BY DEF ConfigFollowsLayers
  <2>1. cvLayers[m][k] = New(m, k)
    BY DEF CvInv, PcTells, AllOk, LayersRecorded
  <2>2. QED
    BY <2>1 DEF CvInv, DiffsExact
<1>2. SuccessIsWhole
  <2> SUFFICES ASSUME cvOut = "ok", NEW m \in Ms, cvOf.manifests[m].match, ~LosesError(m), NEW k \in Ls(m)
               PROVE  cvLayers[m][k] = cvOf.to[Old(m, k)]
    BY DEF SuccessIsWhole
  <2>1. cvPc[m] \in {"new", "same", "removed"}
    BY DEF CvInv, OutTells
  <2>2. AllOk(m)
    BY <2>1 DEF CvInv, PcTells
  <2>3. QED
    BY <2>2 DEF CvInv, LayersRecorded, AllOk, New
<1>3. LabelsKeepLayers
  <2> SUFFICES ASSUME NEW m \in Ms, cvPc[m] = "new"
               PROVE  UNION Range(cvLabels[m]) = Range(cvLayers[m])
    BY DEF LabelsKeepLayers
  <2>1. DOMAIN cvLabels[m] = Ls(m) /\ DOMAIN cvLayers[m] = Ls(m)
    BY DEF CvInv, CvTyped
  <2>2. ASSUME NEW k \in Ls(m) PROVE cvLabels[m][k] = {cvLayers[m][k]}
    <3>1. cvTask[m][k] = "ok" /\ cvLayers[m][k] = New(m, k)
      BY DEF CvInv, PcTells, AllOk, LayersRecorded
    <3>2. /\ cvLabels[m][k] \subseteq {Old(m, k), New(m, k)}
          /\ New(m, k) \in cvLabels[m][k]
          /\ New(m, k) # Old(m, k) => Old(m, k) \notin cvLabels[m][k]
      BY <3>1 DEF CvInv, LabelsExact
    <3>3. QED
      BY <3>1, <3>2
  <2>3. QED
    BY <2>1, <2>2 DEF Range
<1>4. QED
  BY <1>1, <1>2, <1>3 DEF ConversionsSound

(* A converted image is of a piece, for every index and whatever fails,    *)
(* when layers of one content are converted alike and converted layers are *)
(* left alone.                                                             *)
THEOREM ConversionsAreSound ==
    ASSUME \A w \in CvWorlds : Congruent(w) /\ Settled(w)
    PROVE  CvSpec => []ConversionsSound
<1>1. CvInit => CvInv
  BY CvInitHolds
<1>2. CvInv /\ [CvNext]_cvVars => CvInv'
  BY CvStep
<1>3. CvInv => ConversionsSound
  BY CvInvSound
<1>4. QED
  BY <1>1, <1>2, <1>3, PTL DEF CvSpec
=============================================================================
