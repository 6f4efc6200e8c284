--------------------------- MODULE RegistryIngest ---------------------------
(***************************************************************************)
(* Ingestion in the registry-backed content store                          *)
(* (core/content/store/registry: store.go, ingestion.go, writer.go).       *)
(*                                                                         *)
(* Store.Writer opens a contentWriter: bytes go synchronously to a remote  *)
(* writer and, through a bounded channel and one worker goroutine, to a    *)
(* best-effort local cache writer.  The store tracks at most one writer    *)
(* under each ref.  Goroutines (Procs) call Writer, Write, Truncate,       *)
(* Commit and Close on writers, and Abort and Close on the store; Write    *)
(* and Truncate are called only by the goroutine that opened the writer.   *)
(*                                                                         *)
(* A chunk is a number: the n-th chunk the owner passed to Write.  The     *)
(* refs of an instance share one shard of the tracker: operations on       *)
(* different refs commute, so the order in which RemoveAll visits shards   *)
(* makes no difference.                                                    *)
(***************************************************************************)
EXTENDS Naturals, Sequences, FiniteSets

CONSTANTS
    Procs,     \* goroutines that use the store
    Writers,   \* bound: the contentWriters that can be opened
    Refs,      \* ingestion refs
    None,      \* a missing tracker entry, a nil writer
    ChanCap,   \* capacity of localCh (Store.workerLimit)
    MaxChunks  \* bound: chunks written through one writer

ASSUME NoneAssumption == None \notin Writers \cup Refs \cup Procs
ASSUME BoundAssumption == ChanCap \in Nat \ {0} /\ MaxChunks \in Nat

VARIABLES
    tracker,    \* ingestions: the writer tracked under each ref
    ref,        \* contentWriter.ref, None before Store.Writer makes it
    owner,      \* the goroutine that called Store.Writer
    returned,   \* writers Store.Writer has tracked and returned
    committed,  \* contentWriter.committed
    verify,     \* Commit was given the expected digest of the content
    sent,       \* chunks accepted by the remote writer so far
    remote,     \* what the remote writer holds
    remoteSt,   \* state of the remote writer
    hasLocal,   \* contentWriter.local is not nil
    queue,      \* localCh
    chClosed,   \* localCh has been closed
    worker,     \* localWorker is running
    local,      \* what the local writer holds
    localSt,    \* state of the local writer
    pushed,     \* number of EventBlobPushed emitted for each writer
    pc,         \* where each goroutine is
    cur,        \* the writer the goroutine's call is about
    todo        \* writers that Abort or Close have still to close

vars == <<tracker, ref, owner, returned, committed, verify, sent, remote,
          remoteSt, hasLocal, queue, chClosed, worker, local, localSt, pushed,
          pc, cur, todo>>

chanVars   == <<queue, chClosed, worker>>
remoteVars == <<sent, remote, remoteSt>>
localVars  == <<local, localSt, hasLocal>>
openVars   == <<ref, owner, returned>>
commitVars == <<committed, verify, pushed>>

Labels == {"idle", "push", "add", "enqueue", "remoteCommit", "drain",
           "waitDrain", "finish", "close", "waitClose", "closeRemote",
           "panic"}
IOStates == {"none", "open", "committed", "closed"}
Chunks == 1..MaxChunks

TypeOK ==
    /\ tracker \in [Refs -> Writers \cup {None}]
    /\ ref \in [Writers -> Refs \cup {None}]
    /\ owner \in [Writers -> Procs \cup {None}]
    /\ returned \in SUBSET Writers
    /\ committed \in [Writers -> BOOLEAN]
    /\ verify \in [Writers -> BOOLEAN]
    /\ sent \in [Writers -> 0..MaxChunks]
    /\ remote \in [Writers -> Seq(Chunks)]
    /\ remoteSt \in [Writers -> IOStates]
    /\ hasLocal \in [Writers -> BOOLEAN]
    /\ queue \in [Writers -> Seq(Chunks)]
    /\ \A w \in Writers : Len(queue[w]) <= ChanCap
    /\ chClosed \in [Writers -> BOOLEAN]
    /\ worker \in [Writers -> BOOLEAN]
    /\ local \in [Writers -> Seq(Chunks)]
    /\ localSt \in [Writers -> IOStates]
    /\ pushed \in [Writers -> Nat]
    /\ pc \in [Procs -> Labels]
    /\ cur \in [Procs -> Writers \cup {None}]
    /\ todo \in [Procs -> SUBSET Writers]

Init ==
    /\ tracker = [r \in Refs |-> None]
    /\ ref = [w \in Writers |-> None]
    /\ owner = [w \in Writers |-> None]
    /\ returned = {}
    /\ committed = [w \in Writers |-> FALSE]
    /\ verify = [w \in Writers |-> FALSE]
    /\ sent = [w \in Writers |-> 0]
    /\ remote = [w \in Writers |-> <<>>]
    /\ remoteSt = [w \in Writers |-> "none"]
    /\ hasLocal = [w \in Writers |-> FALSE]
    /\ queue = [w \in Writers |-> <<>>]
    /\ chClosed = [w \in Writers |-> FALSE]
    /\ worker = [w \in Writers |-> FALSE]
    /\ local = [w \in Writers |-> <<>>]
    /\ localSt = [w \in Writers |-> "none"]
    /\ pushed = [w \in Writers |-> 0]
    /\ pc = [p \in Procs |-> "idle"]
    /\ cur = [p \in Procs |-> None]
    /\ todo = [p \in Procs |-> {}]

Goto(p, l)   == pc' = [pc EXCEPT ![p] = l]
Call(p, w, l) == cur' = [cur EXCEPT ![p] = w] /\ Goto(p, l)
Return(p)    == Call(p, None, "idle")

(* A panic in any goroutine ends the program. *)
Crashed == \E p \in Procs : pc[p] = "panic"

(* ingestions.Remove and RemoveAll: whatever is tracked is forgotten. *)
Remove(r) == tracker' = [tracker EXCEPT ![r] = None]
RemoveAll == tracker' = [r \in Refs |-> None]

-----------------------------------------------------------------------------
(* Opening a writer *)

(* Store.Writer: a ref that is tracked is rejected; otherwise the remote   *)
(* push starts, with the tracker unlocked.                                 *)
Writer(p) ==
    /\ pc[p] = "idle"
    /\ \E r \in Refs, w \in Writers :
          /\ tracker[r] = None
          /\ ref[w] = None
          /\ ref' = [ref EXCEPT ![w] = r]
          /\ owner' = [owner EXCEPT ![w] = p]
          /\ Call(p, w, "push")
    /\ UNCHANGED <<tracker, returned, commitVars, remoteVars, localVars,
                   chanVars, todo>>

(* newContentWriter: with a local writer lw the worker is started. *)
NewContentWriter(w, lw) ==
    /\ hasLocal' = [hasLocal EXCEPT ![w] = lw]
    /\ worker' = [worker EXCEPT ![w] = lw]
    /\ localSt' = [localSt EXCEPT ![w] = IF lw THEN "open" ELSE "none"]

(* pushWithRetry and local.Writer: the push succeeds and the local writer  *)
(* may be missing, ...                                                     *)
Push(p) ==
    /\ pc[p] = "push"
    /\ \E lw \in BOOLEAN : NewContentWriter(cur[p], lw)
    /\ remoteSt' = [remoteSt EXCEPT ![cur[p]] = "open"]
    /\ Goto(p, "add")
    /\ UNCHANGED <<tracker, openVars, commitVars, sent, remote, local, queue,
                   chClosed, cur, todo>>

(* ... or every attempt fails and Writer returns the error. *)
PushFails(p) ==
    /\ pc[p] = "push"
    /\ ref' = [ref EXCEPT ![cur[p]] = None]
    /\ owner' = [owner EXCEPT ![cur[p]] = None]
    /\ Return(p)
    /\ UNCHANGED <<tracker, returned, commitVars, remoteVars, localVars,
                   chanVars, todo>>

(* ingestions.Add keeps an existing entry; its result is not looked at, so *)
(* the writer is returned either way.                                      *)
Add(p) ==
    /\ pc[p] = "add"
    /\ tracker' = [tracker EXCEPT ![ref[cur[p]]] = IF @ = None THEN cur[p] ELSE @]
    /\ returned' = returned \cup {cur[p]}
    /\ Return(p)
    /\ UNCHANGED <<ref, owner, commitVars, remoteVars, localVars, chanVars,
                   todo>>

-----------------------------------------------------------------------------
(* Writing *)

(* Write: the remote writer accepts the chunk; if it fails, Write returns  *)
(* and nothing changes.                                                    *)
Write(p) ==
    /\ pc[p] = "idle"
    /\ \E w \in returned :
          /\ owner[w] = p
          /\ remoteSt[w] = "open"
          /\ sent[w] < MaxChunks
          /\ sent' = [sent EXCEPT ![w] = @ + 1]
          /\ remote' = [remote EXCEPT ![w] = Append(@, sent[w] + 1)]
          /\ IF hasLocal[w] THEN Call(p, w, "enqueue") ELSE UNCHANGED <<pc, cur>>
    /\ UNCHANGED <<tracker, openVars, commitVars, remoteSt, localVars,
                   chanVars, todo>>

(* Write, after the remote write: the non-blocking send on localCh drops   *)
(* the chunk when the channel is full, and panics when it is closed.       *)
Enqueue(p) ==
    /\ pc[p] = "enqueue"
    /\ IF chClosed[cur[p]]
       THEN Goto(p, "panic") /\ UNCHANGED <<queue, cur>>
       ELSE /\ queue' = IF Len(queue[cur[p]]) < ChanCap
                        THEN [queue EXCEPT ![cur[p]] = Append(@, sent[cur[p]])]
                        ELSE queue
            /\ Return(p)
    /\ UNCHANGED <<tracker, openVars, commitVars, remoteVars, localVars,
                   chClosed, worker, todo>>

(* Truncate rewinds the remote writer only. *)
Truncate(p) ==
    /\ pc[p] = "idle"
    /\ \E w \in returned :
          /\ owner[w] = p
          /\ remoteSt[w] = "open"
          /\ \E k \in 0..(Len(remote[w]) - 1) :
                remote' = [remote EXCEPT ![w] = SubSeq(@, 1, k)]
    /\ UNCHANGED <<tracker, openVars, commitVars, sent, remoteSt, localVars,
                   chanVars, pc, cur, todo>>

(* localWorker takes the next chunk; a failed local write loses it. *)
WorkerWrite(w) ==
    /\ worker[w]
    /\ queue[w] # <<>>
    /\ queue' = [queue EXCEPT ![w] = Tail(@)]
    /\ local' \in {local, [local EXCEPT ![w] = Append(@, Head(queue[w]))]}
    /\ UNCHANGED <<tracker, openVars, commitVars, remoteVars, localSt,
                   hasLocal, chClosed, worker, pc, cur, todo>>

(* localWorker leaves the range loop: the channel is closed and drained. *)
WorkerExit(w) ==
    /\ worker[w]
    /\ queue[w] = <<>>
    /\ chClosed[w]
    /\ worker' = [worker EXCEPT ![w] = FALSE]
    /\ UNCHANGED <<tracker, openVars, commitVars, remoteVars, localVars,
                   queue, chClosed, pc, cur, todo>>

-----------------------------------------------------------------------------
(* Committing *)

(* Mutant: committed is set but not compared. *)
CommitNoCAS(p) ==
    /\ pc[p] = "idle"
    /\ \E w \in returned, v \in BOOLEAN :
          /\ committed' = [committed EXCEPT ![w] = TRUE]
          /\ verify' = [verify EXCEPT ![w] = v]
          /\ Call(p, w, "remoteCommit")
    /\ UNCHANGED <<tracker, openVars, pushed, remoteVars, localVars, chanVars,
                   todo>>

(* Commit: the compare-and-swap on committed; a second commit returns the  *)
(* precondition error and changes nothing.                                 *)
Commit(p) ==
    /\ pc[p] = "idle"
    /\ \E w \in returned, v \in BOOLEAN :
          /\ ~committed[w]
          /\ committed' = [committed EXCEPT ![w] = TRUE]
          /\ verify' = [verify EXCEPT ![w] = v]
          /\ Call(p, w, "remoteCommit")
    /\ UNCHANGED <<tracker, openVars, pushed, remoteVars, localVars, chanVars,
                   todo>>

(* remote.Commit succeeds, ... *)
RemoteCommit(p) ==
    /\ pc[p] = "remoteCommit"
    /\ remoteSt[cur[p]] = "open"
    /\ remoteSt' = [remoteSt EXCEPT ![cur[p]] = "committed"]
    /\ Goto(p, IF hasLocal[cur[p]] THEN "drain" ELSE "finish")
    /\ UNCHANGED <<tracker, openVars, commitVars, sent, remote, localVars,
                   chanVars, cur, todo>>

(* ... or fails, and committed is reset so that Commit can be retried. *)
RemoteCommitFails(p) ==
    /\ pc[p] = "remoteCommit"
    /\ committed' = [committed EXCEPT ![cur[p]] = FALSE]
    /\ Return(p)
    /\ UNCHANGED <<tracker, openVars, verify, pushed, remoteVars, localVars,
                   chanVars, todo>>

(* Mutant: Commit waits for the worker without closing its channel. *)
DrainOpen(p) ==
    /\ pc[p] = "drain"
    /\ Goto(p, "waitDrain")
    /\ UNCHANGED <<tracker, openVars, commitVars, remoteVars, localVars,
                   queue, chClosed, worker, cur, todo>>

(* closeLocalCh, from Commit. *)
Drain(p) ==
    /\ pc[p] = "drain"
    /\ chClosed' = [chClosed EXCEPT ![cur[p]] = TRUE]
    /\ Goto(p, "waitDrain")
    /\ UNCHANGED <<tracker, openVars, commitVars, remoteVars, localVars,
                   queue, worker, cur, todo>>

(* local.Commit (the local content store): checks the digest when it is    *)
(* given one, and may fail in any case.                                    *)
LocalCommit(w) ==
    localSt' \in {localSt} \cup
                 {[localSt EXCEPT ![w] = s] :
                     s \in {t \in {"committed"} : /\ localSt[w] = "open"
                                                  /\ verify[w] => local[w] = remote[w]}}

(* Mutants: the digest is not passed on; Commit does not wait for the      *)
(* worker.                                                                 *)
CommitLocalUnverified(p) ==
    /\ pc[p] = "waitDrain"
    /\ ~worker[cur[p]]
    /\ localSt' \in {localSt, [localSt EXCEPT ![cur[p]] = "committed"]}
    /\ Goto(p, "finish")
    /\ UNCHANGED <<tracker, openVars, commitVars, remoteVars, local, hasLocal,
                   chanVars, cur, todo>>

CommitLocalEarly(p) ==
    /\ pc[p] = "waitDrain"
    /\ LocalCommit(cur[p])
    /\ Goto(p, "finish")
    /\ UNCHANGED <<tracker, openVars, commitVars, remoteVars, local, hasLocal,
                   chanVars, cur, todo>>

(* Commit: localWg.Wait, then the best-effort local.Commit. *)
CommitLocal(p) ==
    /\ pc[p] = "waitDrain"
    /\ ~worker[cur[p]]
    /\ LocalCommit(cur[p])
    /\ Goto(p, "finish")
    /\ UNCHANGED <<tracker, openVars, commitVars, remoteVars, local, hasLocal,
                   chanVars, cur, todo>>

(* Mutant: the ingestion is left in the tracker. *)
FinishTracked(p) ==
    /\ pc[p] = "finish"
    /\ pushed' = [pushed EXCEPT ![cur[p]] = @ + 1]
    /\ Return(p)
    /\ UNCHANGED <<tracker, openVars, committed, verify, remoteVars,
                   localVars, chanVars, todo>>

(* Commit: remove the ingestion (whichever writer is tracked under the     *)
(* ref) and emit EventBlobPushed.                                          *)
Finish(p) ==
    /\ pc[p] = "finish"
    /\ Remove(ref[cur[p]])
    /\ pushed' = [pushed EXCEPT ![cur[p]] = @ + 1]
    /\ Return(p)
    /\ UNCHANGED <<openVars, committed, verify, remoteVars, localVars,
                   chanVars, todo>>

-----------------------------------------------------------------------------
(* Closing *)

(* contentWriter.Close is called on a writer. *)
Close(p) ==
    /\ pc[p] = "idle"
    /\ \E w \in returned : todo' = [todo EXCEPT ![p] = {w}]
    /\ Goto(p, "close")
    /\ UNCHANGED <<tracker, openVars, commitVars, remoteVars, localVars,
                   chanVars, cur>>

(* Store.Abort: remove the ingestion, then close its writer. *)
Abort(p) ==
    /\ pc[p] = "idle"
    /\ \E r \in Refs :
          /\ tracker[r] # None
          /\ Remove(r)
          /\ todo' = [todo EXCEPT ![p] = {tracker[r]}]
    /\ Goto(p, "close")
    /\ UNCHANGED <<openVars, commitVars, remoteVars, localVars, chanVars, cur>>

(* Store.Close: RemoveAll, then close every writer that was tracked. *)
StoreClose(p) ==
    /\ pc[p] = "idle"
    /\ todo' = [todo EXCEPT ![p] = {tracker[r] : r \in Refs} \ {None}]
    /\ RemoveAll
    /\ Goto(p, "close")
    /\ UNCHANGED <<openVars, commitVars, remoteVars, localVars, chanVars, cur>>

(* contentWriter.Close: closeLocalCh on the next writer; return after the  *)
(* last.                                                                   *)
CloseCh(p) ==
    /\ pc[p] = "close"
    /\ \/ \E w \in todo[p] :
             /\ todo' = [todo EXCEPT ![p] = @ \ {w}]
             /\ chClosed' = [chClosed EXCEPT ![w] = hasLocal[w]]
             /\ Call(p, w, "waitClose")
       \/ /\ todo[p] = {}
          /\ Return(p)
          /\ UNCHANGED <<todo, chClosed>>
    /\ UNCHANGED <<tracker, openVars, commitVars, remoteVars, localVars,
                   queue, worker>>

(* contentWriter.Close: localWg.Wait, local.Close and ingestions.Remove. *)
CloseLocal(p) ==
    /\ pc[p] = "waitClose"
    /\ ~worker[cur[p]]
    /\ localSt' = [localSt EXCEPT ![cur[p]] = IF @ = "open" THEN "closed" ELSE @]
    /\ Remove(ref[cur[p]])
    /\ Goto(p, "closeRemote")
    /\ UNCHANGED <<openVars, commitVars, remoteVars, local, hasLocal, chanVars,
                   cur, todo>>

(* contentWriter.Close: remote.Close. *)
CloseRemote(p) ==
    /\ pc[p] = "closeRemote"
    /\ remoteSt' = [remoteSt EXCEPT ![cur[p]] = IF @ = "open" THEN "closed" ELSE @]
    /\ Call(p, None, "close")
    /\ UNCHANGED <<tracker, openVars, commitVars, sent, remote, localVars,
                   chanVars, todo>>

-----------------------------------------------------------------------------
(* The steps of a call that has begun. *)
Running(p) ==
    \/ Push(p) \/ PushFails(p) \/ Add(p) \/ Enqueue(p)
    \/ RemoteCommit(p) \/ RemoteCommitFails(p) \/ Drain(p) \/ CommitLocal(p)
    \/ Finish(p) \/ CloseCh(p) \/ CloseLocal(p) \/ CloseRemote(p)

Work(w) == WorkerWrite(w) \/ WorkerExit(w)

Begin(p) ==
    \/ Writer(p) \/ Write(p) \/ Truncate(p) \/ Commit(p) \/ Close(p)
    \/ Abort(p) \/ StoreClose(p)

Next ==
    /\ ~Crashed
    /\ \/ \E p \in Procs : Running(p) \/ Begin(p)
       \/ \E w \in Writers : Work(w)

Spec == Init /\ [][Next]_vars

(* The Go scheduler runs every goroutine that can run, and the remote and  *)
(* local writers return from every call.                                   *)
FairSpec ==
    /\ Spec
    /\ \A p \in Procs : WF_vars(~Crashed /\ Running(p))
    /\ \A w \in Writers : WF_vars(~Crashed /\ Work(w))

-----------------------------------------------------------------------------
Committing(p, w) ==
    cur[p] = w /\ pc[p] \in {"remoteCommit", "drain", "waitDrain", "finish"}

(* Commit "prevents double-commit without a mutex": however many           *)
(* goroutines call Commit, and whichever attempts fail and are retried, no *)
(* two of them are past the compare-and-swap on one writer, none starts    *)
(* after a commit has succeeded, and the push is announced at most once.   *)
CommitOnce ==
    /\ \A p, q \in Procs : \A w \in Writers :
          Committing(p, w) /\ Committing(q, w) => p = q
    /\ \A w \in Writers :
          /\ pushed[w] <= 1
          /\ pushed[w] = 1 => /\ remoteSt[w] = "committed"
                              /\ \A p \in Procs : ~Committing(p, w)

(* A writer that has been committed is not found in the tracker, whoever   *)
(* else opened, aborted or closed a writer of the same ref meanwhile.      *)
CommittedUntracked ==
    \A r \in Refs : tracker[r] # None => pushed[tracker[r]] = 0

(* The local writer "receives bytes in order": whatever was dropped, the   *)
(* chunks it got are in the order in which the caller wrote them.          *)
LocalInOrder ==
    \A w \in Writers : \A i, j \in DOMAIN local[w] :
        i < j => local[w][i] < local[w][j]

(* A blob in the local cache that was committed with a digest is the blob  *)
(* the registry has, in spite of dropped chunks, failed local writes and   *)
(* truncations.                                                            *)
CacheFaithful ==
    \A w \in Writers :
        localSt[w] = "committed" /\ verify[w] => local[w] = remote[w]

(* Commit drains the asynchronous writes before the local commit: a        *)
(* committed local writer is not written to afterwards.                    *)
NoWriteAfterLocalCommit ==
    [][\A w \in Writers :
          localSt[w] \in {"committed", "closed"} => local'[w] = local[w]]_vars

(* Every call returns: Commit and Close never wait for a worker that does  *)
(* not stop.                                                               *)
CallsReturn ==
    \A p \in Procs : pc[p] # "idle" ~> (pc[p] = "idle" \/ Crashed)

(* "Reject duplicate active ingestion": no two open writers of one ref.    *)
OneIngestionPerRef ==
    \A v, w \in returned :
        v # w /\ ref[v] = ref[w]
            => ~(remoteSt[v] = "open" /\ remoteSt[w] = "open")

(* closeLocalCh is "safe from Write/Close/Commit": no goroutine sends on   *)
(* the closed channel.                                                     *)
NoSendOnClosed == ~Crashed

(* The local copy of a pushed blob, in spite of dropped chunks, failed     *)
(* local writes and truncations: in order, and when committed with a       *)
(* digest exactly what the registry has.                                   *)
LocalFaithful == TypeOK /\ LocalInOrder /\ CacheFaithful
=============================================================================
