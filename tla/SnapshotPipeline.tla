-------------------------- MODULE SnapshotPipeline --------------------------
(***************************************************************************)
(* RunSnapshotPipeline (core/snapshotter/orchestrator/snap.go): workers    *)
(* prepare and fill the snapshots of an image's layers in any order, and   *)
(* one committer commits them in the order of the layers.                  *)
(*                                                                         *)
(* The caller sends one event per layer, in any order, perhaps one whose   *)
(* sequence label is invalid, and closes the channel, perhaps too early.   *)
(* The snapshotter is external: layer i is prepared under the key Diff[i]  *)
(* and committed under its chain ID, which is different for every layer.   *)
(* An error is "real", or "derived" when a call failed because the context *)
(* of the pipeline had been cancelled.                                     *)
(***************************************************************************)
EXTENDS Integers, Sequences, FiniteSets

CONSTANTS
    N,        \* number of layers
    DiffIDs,  \* keys of active snapshots
    Diff,     \* chains[i].diffID
    Workers   \* worker goroutines

Layers == 0..(N - 1)

ASSUME LayersAssumption == N \in Nat \ {0} /\ Diff \in [Layers -> DiffIDs]
ASSUME WorkersAssumption == IsFiniteSet(Workers)

VARIABLES
    todo,       \* events the caller has not sent
    events,     \* eventCh
    closed,     \* eventCh has been closed
    ctx,        \* the caller's context is cancelled
    cancelled,  \* cancel of pipelineCtx has been called
    firstErr,   \* firstErr
    at,         \* where each worker is
    job,        \* the workerResult a worker is making
    results,    \* resultCh
    resClosed,  \* resultCh has been closed
    committer,  \* where the committer is
    heap,       \* the results that wait for their turn
    next,       \* the layer to commit next
    out,        \* what errCh received
    committed,  \* snapshotter: layers with a committed snapshot
    active,     \* snapshotter: keys with an active snapshot
    applied,    \* layers whose Action has filled the active snapshot
    content     \* what each committed snapshot was filled with

vars == <<todo, events, closed, ctx, cancelled, firstErr, at, job, results,
          resClosed, committer, heap, next, out, committed, active, applied,
          content>>

callerVars    == <<todo, closed, ctx>>
workerVars    == <<at, job>>
committerVars == <<committer, heap, next, out>>
snVars        == <<committed, active, applied, content>>

BadSeq == -1
Events == Layers \cup {BadSeq}
Errors == {"none", "real", "derived"}
Results == [seq : Events, err : Errors, already : BOOLEAN]
Result(i) == [seq |-> i, err |-> "none", already |-> FALSE]
NoJob == Result(BadSeq)

TypeOK ==
    /\ todo \in SUBSET Events
    /\ events \in Seq(Events) /\ Len(events) <= Cardinality(Workers)
    /\ closed \in BOOLEAN /\ ctx \in BOOLEAN /\ cancelled \in BOOLEAN
    /\ firstErr \in Errors
    /\ at \in [Workers -> {"recv", "stat", "prepare", "mounts", "action",
                           "store", "cancel", "send", "done"}]
    /\ job \in [Workers -> Results]
    /\ results \in Seq(Results) /\ Len(results) <= Cardinality(Workers)
    /\ resClosed \in BOOLEAN
    /\ committer \in {"select", "drain", "done"}
    /\ heap \in SUBSET Results
    /\ next \in 0..N
    /\ out \in Errors \cup {"empty", "nil", "early", "gap"}
    /\ committed \in SUBSET Layers
    /\ active \in SUBSET DiffIDs
    /\ applied \in [DiffIDs -> SUBSET Layers]
    /\ content \in [Layers -> SUBSET Layers]

(* Earlier runs may have committed the first layers and left prepared, not *)
(* committed, snapshots behind.                                            *)
Init ==
    /\ todo = Events
    /\ events = <<>>
    /\ closed = FALSE /\ ctx = FALSE /\ cancelled = FALSE
    /\ firstErr = "none"
    /\ at = [w \in Workers |-> "recv"]
    /\ job = [w \in Workers |-> NoJob]
    /\ results = <<>>
    /\ resClosed = FALSE
    /\ committer = "select"
    /\ heap = {}
    /\ next = 0
    /\ out = "empty"
    /\ \E k \in 0..N : committed = 0..(k - 1)
    /\ active \in SUBSET {Diff[i] : i \in Layers}
    /\ applied = [d \in DiffIDs |-> {}]
    /\ content = [i \in Layers |-> IF i \in committed THEN {i} ELSE {}]

(* pipelineCtx.Done *)
Done == ctx \/ cancelled

(* How a call under pipelineCtx can fail. *)
Failures == {"real"} \cup {e \in {"derived"} : Done}

(* storeErr: the first error wins. *)
StoreErr(e) == firstErr' = IF firstErr = "none" THEN e ELSE firstErr

-----------------------------------------------------------------------------
(* The caller *)

Send ==
    /\ ~closed
    /\ Len(events) < Cardinality(Workers)
    /\ \E e \in todo : /\ events' = Append(events, e)
                       /\ todo' = todo \ {e}
    /\ UNCHANGED <<closed, ctx, cancelled, firstErr, workerVars, results,
                   resClosed, committerVars, snVars>>

Close ==
    /\ ~closed
    /\ closed' = TRUE
    /\ UNCHANGED <<todo, events, ctx, cancelled, firstErr, workerVars, results,
                   resClosed, committerVars, snVars>>

Cancel ==
    /\ ~ctx
    /\ ctx' = TRUE
    /\ UNCHANGED <<todo, closed, events, cancelled, firstErr, workerVars,
                   results, resClosed, committerVars, snVars>>

-----------------------------------------------------------------------------
(* A worker *)

Goto(w, l) == at' = [at EXCEPT ![w] = l]

(* processEvent returns the error e. *)
Fails(w, e) ==
    /\ job' = [job EXCEPT ![w].err = e]
    /\ Goto(w, "store")

(* processEvent starts: an invalid label is an error. *)
ParseSeq(w, e) ==
    IF e = BadSeq
    THEN Fails(w, "real")
    ELSE job' = [job EXCEPT ![w] = Result(e)] /\ Goto(w, "stat")

(* Mutant: workers stop receiving when the pipeline has failed. *)
ReceiveUndrained(w) ==
    /\ at[w] = "recv"
    /\ events # <<>>
    /\ ~Done
    /\ events' = Tail(events)
    /\ ParseSeq(w, Head(events))
    /\ UNCHANGED <<callerVars, cancelled, firstErr, results, resClosed,
                   committerVars, snVars>>

(* The next event; it is thrown away when the pipeline has failed. *)
Receive(w) ==
    /\ at[w] = "recv"
    /\ events # <<>>
    /\ events' = Tail(events)
    /\ IF Done THEN UNCHANGED workerVars ELSE ParseSeq(w, Head(events))
    /\ UNCHANGED <<callerVars, cancelled, firstErr, results, resClosed,
                   committerVars, snVars>>

(* eventCh is closed and drained. *)
WorkerExits(w) ==
    /\ at[w] = "recv"
    /\ events = <<>>
    /\ closed
    /\ Goto(w, "done")
    /\ UNCHANGED <<callerVars, events, cancelled, firstErr, job, results,
                   resClosed, committerVars, snVars>>

(* sn.Stat finds the committed snapshot, or does not, or fails. *)
Stat(w) ==
    /\ at[w] = "stat"
    /\ \/ /\ job[w].seq \in committed
          /\ job' = [job EXCEPT ![w].already = TRUE]
          /\ Goto(w, "send")
       \/ Goto(w, "prepare") /\ UNCHANGED job
    /\ UNCHANGED <<callerVars, events, cancelled, firstErr, results, resClosed,
                   committerVars, snVars>>

(* sn.Prepare creates the active snapshot, or finds that it exists. *)
Prepare(w) ==
    /\ at[w] = "prepare"
    /\ active' = active \cup {Diff[job[w].seq]}
    /\ Goto(w, IF Diff[job[w].seq] \in active THEN "mounts" ELSE "action")
    /\ UNCHANGED <<callerVars, events, cancelled, firstErr, job, results,
                   resClosed, committerVars, committed, applied, content>>

(* sn.Mounts of the existing snapshot. *)
Mounts(w) ==
    /\ at[w] = "mounts"
    /\ Diff[job[w].seq] \in active
    /\ Goto(w, "action")
    /\ UNCHANGED <<callerVars, events, cancelled, firstErr, job, results,
                   resClosed, committerVars, snVars>>

(* sn.Prepare or sn.Mounts fails. *)
PrepareFails(w) ==
    /\ at[w] \in {"prepare", "mounts"}
    /\ \E e \in Failures : Fails(w, e)
    /\ UNCHANGED <<callerVars, events, cancelled, firstErr, results, resClosed,
                   committerVars, snVars>>

(* Action has filled the snapshot. *)
Action(w) ==
    /\ at[w] = "action"
    /\ applied' = [applied EXCEPT ![Diff[job[w].seq]] = @ \cup {job[w].seq}]
    /\ Goto(w, "send")
    /\ UNCHANGED <<callerVars, events, cancelled, firstErr, job, results,
                   resClosed, committerVars, committed, active, content>>

(* Action fails; sn.Remove is tried. *)
ActionFails(w) ==
    /\ at[w] = "action"
    /\ \E e \in Failures : Fails(w, e)
    /\ \/ UNCHANGED <<active, applied>>
       \/ /\ active' = active \ {Diff[job[w].seq]}
          /\ applied' = [applied EXCEPT ![Diff[job[w].seq]] = {}]
    /\ UNCHANGED <<callerVars, events, cancelled, firstErr, results, resClosed,
                   committerVars, committed, content>>

(* Mutant: cancel first, storeErr second. *)
StoreLate(w) ==
    /\ \/ at[w] = "store" /\ cancelled' = TRUE /\ Goto(w, "cancel")
                          /\ UNCHANGED firstErr
       \/ at[w] = "cancel" /\ StoreErr(job[w].err) /\ Goto(w, "send")
                           /\ UNCHANGED cancelled
    /\ UNCHANGED <<callerVars, events, job, results, resClosed, committerVars,
                   snVars>>

(* storeErr, then cancel. *)
Store(w) ==
    /\ \/ at[w] = "store" /\ StoreErr(job[w].err) /\ Goto(w, "cancel")
                          /\ UNCHANGED cancelled
       \/ at[w] = "cancel" /\ cancelled' = TRUE /\ Goto(w, "send")
                           /\ UNCHANGED firstErr
    /\ UNCHANGED <<callerVars, events, job, results, resClosed, committerVars,
                   snVars>>

(* The select: send the result, or drop it when the pipeline has failed. *)
Deliver(w) ==
    /\ at[w] = "send"
    /\ \/ /\ Len(results) < Cardinality(Workers)
          /\ results' = Append(results, job[w])
       \/ Done /\ UNCHANGED results
    /\ job' = [job EXCEPT ![w] = NoJob]
    /\ Goto(w, "recv")
    /\ UNCHANGED <<callerVars, events, cancelled, firstErr, resClosed,
                   committerVars, snVars>>

(* The cleanup goroutine: wg.Wait, close(resultCh). *)
CloseResults ==
    /\ ~resClosed
    /\ \A w \in Workers : at[w] = "done"
    /\ resClosed' = TRUE
    /\ UNCHANGED <<callerVars, events, cancelled, firstErr, workerVars,
                   results, committerVars, snVars>>

-----------------------------------------------------------------------------
(* The committer *)

(* It sends e to errCh and returns; the deferred cancel runs. *)
Report(e) ==
    /\ out' = e
    /\ committer' = "done"
    /\ cancelled' = TRUE

(* The select takes pipelineCtx.Done: resolveErr. *)
SelectDone ==
    /\ committer = "select"
    /\ Done
    /\ Report(IF firstErr # "none" THEN firstErr ELSE "derived")
    /\ UNCHANGED <<callerVars, events, firstErr, workerVars, results,
                   resClosed, heap, next, snVars>>

(* Mutant: a closed channel is taken for the end of the work. *)
SelectClosedNil ==
    /\ committer = "select"
    /\ resClosed /\ results = <<>>
    /\ Report(IF firstErr # "none" THEN firstErr ELSE "nil")
    /\ UNCHANGED <<callerVars, events, firstErr, workerVars, results,
                   resClosed, heap, next, snVars>>

(* resultCh is closed and empty: a stored error, a cancelled context, a    *)
(* channel closed too early, or a gap in the sequence.  (With next = N the *)
(* committer has returned already.)                                        *)
SelectClosed ==
    /\ committer = "select"
    /\ resClosed /\ results = <<>>
    /\ Report(CASE firstErr # "none" -> firstErr
                [] firstErr = "none" /\ heap = {} ->
                      IF Done THEN "derived" ELSE "early"
                [] OTHER -> "gap")
    /\ UNCHANGED <<callerVars, events, firstErr, workerVars, results,
                   resClosed, heap, next, snVars>>

(* A result with an error ends the pipeline with that error, ... *)
SelectError ==
    /\ committer = "select"
    /\ results # <<>>
    /\ Head(results).err # "none"
    /\ results' = Tail(results)
    /\ StoreErr(Head(results).err)
    /\ Report(Head(results).err)
    /\ UNCHANGED <<callerVars, events, workerVars, resClosed, heap, next,
                   snVars>>

(* ... any other is pushed. *)
SelectResult ==
    /\ committer = "select"
    /\ results # <<>>
    /\ Head(results).err = "none"
    /\ results' = Tail(results)
    /\ heap' = heap \cup {Head(results)}
    /\ committer' = "drain"
    /\ UNCHANGED <<callerVars, events, cancelled, firstErr, workerVars,
                   resClosed, next, out, snVars>>

(* Mutant: whatever is least in the heap is taken for the next. *)
TurnUnchecked(r) == r \in heap /\ \A s \in heap : r.seq <= s.seq

(* h[0].seq == next: the result is the one to commit next. *)
Turn(r) == r \in heap /\ r.seq = next

(* next++, and nil after the last layer. *)
Advance(r) ==
    /\ heap' = heap \ {r}
    /\ next' = next + 1
    /\ IF next + 1 = N
       THEN Report("nil")
       ELSE UNCHANGED <<committer, out, cancelled>>

(* The layer had been committed by an earlier run. *)
SkipCommitted ==
    /\ committer = "drain"
    /\ \E r \in heap : Turn(r) /\ r.already /\ Advance(r)
    /\ UNCHANGED <<callerVars, events, firstErr, workerVars, results,
                   resClosed, snVars>>

(* sn.Commit turns the active snapshot into the committed one, ... *)
Commit ==
    /\ committer = "drain"
    /\ \E r \in heap :
          /\ Turn(r) /\ ~r.already
          /\ r.seq \notin committed
          /\ Diff[r.seq] \in active
          /\ committed' = committed \cup {r.seq}
          /\ content' = [content EXCEPT ![r.seq] = applied[Diff[r.seq]]]
          /\ active' = active \ {Diff[r.seq]}
          /\ applied' = [applied EXCEPT ![Diff[r.seq]] = {}]
          /\ Advance(r)
    /\ UNCHANGED <<callerVars, events, firstErr, workerVars, results,
                   resClosed>>

(* ... finds the committed one, which is as good, ... *)
CommitExists ==
    /\ committer = "drain"
    /\ \E r \in heap :
          /\ Turn(r) /\ ~r.already
          /\ r.seq \in committed
          /\ Advance(r)
    /\ UNCHANGED <<callerVars, events, firstErr, workerVars, results,
                   resClosed, snVars>>

(* ... or fails; a cancellation is reported as the error that caused it. *)
CommitFails ==
    /\ committer = "drain"
    /\ \E r \in heap : Turn(r) /\ ~r.already
    /\ \E e \in Failures :
          IF e = "derived" /\ firstErr # "none"
          THEN Report(firstErr) /\ UNCHANGED firstErr
          ELSE Report(e) /\ StoreErr(e)
    /\ UNCHANGED <<callerVars, events, workerVars, results, resClosed, heap,
                   next, snVars>>

(* The next layer has not arrived: back to the select. *)
DrainEnds ==
    /\ committer = "drain"
    /\ \A r \in heap : ~Turn(r)
    /\ committer' = "select"
    /\ UNCHANGED <<callerVars, events, cancelled, firstErr, workerVars,
                   results, resClosed, heap, next, out, snVars>>

-----------------------------------------------------------------------------
Caller == Send \/ Close

Worker(w) ==
    \/ Receive(w) \/ WorkerExits(w) \/ Stat(w) \/ Prepare(w) \/ Mounts(w)
    \/ PrepareFails(w) \/ Action(w) \/ ActionFails(w) \/ Store(w) \/ Deliver(w)

Committer ==
    \/ SelectDone \/ SelectClosed \/ SelectError \/ SelectResult
    \/ SkipCommitted \/ Commit \/ CommitExists \/ CommitFails \/ DrainEnds

Next ==
    \/ Caller \/ Cancel
    \/ \E w \in Workers : Worker(w)
    \/ CloseResults \/ Committer

Spec == Init /\ [][Next]_vars

(* Goroutines that can run do; the calls of the snapshotter and the        *)
(* actions return; the caller sends or closes as long as it is not blocked.*)
FairSpec ==
    /\ Spec
    /\ WF_vars(Caller)
    /\ \A w \in Workers : WF_vars(Worker(w))
    /\ WF_vars(CloseResults)
    /\ WF_vars(Committer)

-----------------------------------------------------------------------------
(* "Layer N's committed snapshot must exist before layer N+1 is            *)
(* committed", in whichever order the workers finish, and after failures,  *)
(* cancellations and earlier partial runs.                                 *)
ChainOrder == \A i \in committed : i > 0 => i - 1 \in committed

(* errCh receives nil only when every layer has been committed.            *)
NilMeansAll == out = "nil" => committed = Layers

(* A committed snapshot was filled by its own layer's Action, once, also   *)
(* when its key existed before.                                            *)
FaithfulLayers == \A i \in committed : content[i] = {i}

(* "storeErr MUST be called before cancel": the stored error is the cause  *)
(* of the failure, not a consequence of the cancellation.                  *)
FirstErrReal == firstErr = "derived" => ctx

(* The pipeline is over: the caller has closed the channel, every worker   *)
(* has ended, and errCh has received its value.                            *)
Over == closed /\ (\A w \in Workers : at[w] = "done") /\ out # "empty"

(* "The committer always surfaces the real error rather than the derived   *)
(* context.Canceled": a derived error is reported only when the caller     *)
(* cancelled.                                                              *)
RealErrorSurfaced == out = "derived" => ctx

(* Each committed snapshot holds its own layer, and the error that is kept *)
(* is the cause of the failure.                                            *)
LayersFaithful == TypeOK /\ FaithfulLayers /\ FirstErrReal
=============================================================================
