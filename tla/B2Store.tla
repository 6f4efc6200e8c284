------------------------------ MODULE B2Store --------------------------------
(***************************************************************************)
(* The B2 content store (src/core/content/store/b2): a writer that streams *)
(* through a pipe into an upload which runs in a goroutine of its own,     *)
(* used by its owner and closed by another goroutine, and the store's      *)
(* operations on the object: Update, Delete, Abort, Info and Walk.         *)
(*                                                                         *)
(* One blob of Want chunks.  The object's content is the number of chunks  *)
(* it has, its metadata a set of labels.                                   *)
(***************************************************************************)
EXTENDS Naturals, FiniteSets

CONSTANTS
    Want,       \* chunks of the blob whose digest is expected
    MaxWrites,  \* bound on the chunks written
    Updaters    \* goroutines that call Update, each with a label of its own

ASSUME B2Assumption == Want \in Nat /\ MaxWrites \in Nat

VARIABLES
    b2Size,     \* the descriptor's size, 0 when unknown
    b2Key,      \* "blob": the key of the digest; "literal": that of a reference which is none
    b2Up,       \* the upload: "none", "run", "ok", "err"
    b2Pipe,     \* the write side is "open" or "closed"
    b2Body,     \* chunks the upload has read
    b2Sent,     \* chunks in offset and digest
    b2Obj,      \* [len, labels], len 0 when there is no object
    b2Own,      \* the owner: "idle", "write", "count", "done" (waits in Commit), "verify", "stat", "copy"
    b2Ret,      \* "none", "ok", "err": what its last call returned
    b2Closer,   \* the goroutine that closes: "idle", "wait", "closed"
    b2Committed,
    b2Upd,      \* updater -> "idle", "copy", "end"
    b2Meta,     \* the labels each of them, and the owner, has read
    b2After,    \* labels that were set since then
    b2Acked,    \* labels that were set successfully
    b2Overtaken, \* those over which somebody has written who had read before they were set
    b2Live      \* the object is the one that was committed
b2Vars == <<b2Size, b2Key, b2Up, b2Pipe, b2Body, b2Sent, b2Obj, b2Own, b2Ret, b2Closer, b2Committed, b2Upd, b2Meta, b2After,
            b2Acked, b2Overtaken, b2Live>>

Owner == "owner"
NoObject == [len |-> 0, labels |-> {}]
B2Init ==
    /\ b2Size \in {0, Want} /\ b2Key \in {"blob", "literal"} /\ b2Up = "none" /\ b2Pipe = "open" /\ b2Body = 0 /\ b2Sent = 0
    /\ b2Obj = NoObject /\ b2Own = "idle" /\ b2Ret = "none" /\ b2Closer = "idle" /\ b2Committed = FALSE
    /\ b2Upd = [u \in Updaters |-> "idle"] /\ b2Meta = [p \in Updaters \cup {Owner} |-> {}] /\ b2After = [p \in Updaters \cup {Owner} |-> {}]
    /\ b2Acked = {} /\ b2Overtaken = {} /\ b2Live = FALSE

writerVars == <<b2Size, b2Key, b2Up, b2Pipe, b2Body, b2Sent, b2Own, b2Ret, b2Closer, b2Committed>>
metaVars == <<b2Obj, b2Upd, b2Meta, b2After, b2Acked, b2Overtaken, b2Live>>

\* once.Do(startUpload)
Started == IF b2Up = "none" THEN "run" ELSE b2Up

-----------------------------------------------------------------------------
B2Write ==
    /\ b2Own = "idle" /\ b2Sent < MaxWrites /\ b2Up' = Started /\ b2Own' = "write"
    /\ UNCHANGED <<b2Size, b2Key, b2Pipe, b2Body, b2Sent, b2Ret, b2Closer, b2Committed, metaVars>>

\* The pipe hands a chunk over while the upload reads, which it does up to the size it was
\* told; a closed pipe is an error.
Reads == b2Up = "run" /\ (b2Size = 0 \/ b2Body < b2Size)
PipeWrite ==
    /\ b2Own = "write"
    /\ \/ b2Pipe = "open" /\ Reads /\ b2Body' = b2Body + 1 /\ b2Own' = "count" /\ UNCHANGED b2Ret
       \/ b2Pipe = "closed" /\ b2Own' = "idle" /\ b2Ret' = "err" /\ UNCHANGED b2Body
    /\ UNCHANGED <<b2Size, b2Key, b2Up, b2Pipe, b2Sent, b2Closer, b2Committed, metaVars>>
CountWrite ==
    /\ b2Own = "count" /\ b2Sent' = b2Sent + 1 /\ b2Own' = "idle" /\ b2Ret' = "ok"
    /\ UNCHANGED <<b2Size, b2Key, b2Up, b2Pipe, b2Body, b2Closer, b2Committed, metaVars>>

\* PutObject: the object is there, whole, when the stream has ended; an error, also of a
\* stream that is too short, leaves none and leaves the pipe's reader open.
PutEnds ==
    /\ b2Up = "run"
    /\ \/ /\ IF b2Size = 0 THEN b2Pipe = "closed" ELSE b2Body = b2Size
          /\ b2Up' = "ok" /\ b2Obj' = [len |-> b2Body, labels |-> {}] /\ b2Acked' = {} /\ b2Live' = TRUE
       \/ b2Up' = "err" /\ UNCHANGED <<b2Obj, b2Acked, b2Live>>
    /\ UNCHANGED <<b2Size, b2Key, b2Pipe, b2Body, b2Sent, b2Own, b2Ret, b2Closer, b2Committed, b2Upd, b2Meta, b2After, b2Overtaken>>

\* Close: end the stream, which completes the upload, and wait for it.
B2Close ==
    /\ b2Closer = "idle" /\ b2Closer' = "wait" /\ b2Up' = Started /\ b2Pipe' = "closed"
    /\ UNCHANGED <<b2Size, b2Key, b2Body, b2Sent, b2Own, b2Ret, b2Committed, metaVars>>
UploadOver == b2Up \in {"ok", "err"}
B2CloseReturns ==
    /\ b2Closer = "wait" /\ UploadOver /\ b2Closer' = "closed"
    /\ UNCHANGED <<b2Size, b2Key, b2Up, b2Pipe, b2Body, b2Sent, b2Own, b2Ret, b2Committed, metaVars>>

-----------------------------------------------------------------------------
\* Commit; it may be called again after an error.
B2Commit ==
    /\ b2Own = "idle"
    /\ IF b2Committed THEN b2Ret # "err" /\ b2Ret' = "err" /\ UNCHANGED <<b2Own, b2Up, b2Pipe>>
       ELSE b2Own' = "done" /\ b2Up' = Started /\ b2Pipe' = "closed" /\ UNCHANGED b2Ret
    /\ UNCHANGED <<b2Size, b2Key, b2Body, b2Sent, b2Closer, b2Committed, metaVars>>
CommitWaits ==
    /\ b2Own = "done"
    /\ \/ UploadOver /\ b2Own' = "verify" /\ UNCHANGED b2Ret
       \/ b2Own' = "idle" /\ b2Ret' = "err"
    /\ UNCHANGED <<b2Size, b2Key, b2Up, b2Pipe, b2Body, b2Sent, b2Closer, b2Committed, metaVars>>

\* The size is the descriptor's own when that is known; the digest is of what was written.
Verified == (IF b2Size > 0 THEN b2Size ELSE b2Sent) = Want /\ b2Sent = Want
CommitVerify ==
    /\ b2Own = "verify"
    /\ \/ b2Up = "ok" /\ Verified /\ b2Own' = "stat" /\ UNCHANGED <<b2Ret, b2Committed>>
       \/ b2Up = "ok" /\ Verified /\ b2Own' = "idle" /\ b2Ret' = "ok" /\ b2Committed' = TRUE
       \/ (b2Up = "err" \/ ~Verified) /\ b2Own' = "idle" /\ b2Ret' = "err" /\ UNCHANGED b2Committed
    /\ UNCHANGED <<b2Size, b2Key, b2Up, b2Pipe, b2Body, b2Sent, b2Closer, metaVars>>

\* Reading the metadata, and writing what it becomes, are two requests.
StatMeta(p) == b2Meta' = [b2Meta EXCEPT ![p] = b2Obj.labels] /\ b2After' = [b2After EXCEPT ![p] = {}]

\* Variant: the labels replace those that are there.
MergedLabelsOnly(p) == {p}

MergedLabels(p) == b2Meta[p] \cup {p}
CopyMeta(p) ==
    /\ b2Obj' = [b2Obj EXCEPT !.labels = MergedLabels(p)]
    /\ b2Acked' = b2Acked \cup {p} /\ b2Overtaken' = (b2Overtaken \cup b2After[p]) \ {p}
    /\ b2After' = [q \in Updaters \cup {Owner} |-> b2After[q] \cup {p}]

\* applyLabels, before the commit counts; an error leaves the writer uncommitted.
CommitStat ==
    /\ b2Own = "stat"
    /\ \/ b2Obj # NoObject /\ b2Own' = "copy" /\ StatMeta(Owner) /\ UNCHANGED b2Ret
       \/ b2Own' = "idle" /\ b2Ret' = "err" /\ UNCHANGED <<b2Meta, b2After>>
    /\ UNCHANGED <<b2Size, b2Key, b2Up, b2Pipe, b2Body, b2Sent, b2Closer, b2Committed, b2Obj, b2Upd, b2Acked, b2Overtaken, b2Live>>
CommitCopy ==
    /\ b2Own = "copy" /\ b2Own' = "idle"
    /\ \/ b2Obj # NoObject /\ CopyMeta(Owner) /\ b2Ret' = "ok" /\ b2Committed' = TRUE
       \/ b2Ret' = "err" /\ UNCHANGED <<b2Obj, b2Acked, b2Overtaken, b2After, b2Committed>>
    /\ UNCHANGED <<b2Size, b2Key, b2Up, b2Pipe, b2Body, b2Sent, b2Closer, b2Upd, b2Meta, b2Live>>

-----------------------------------------------------------------------------
\* The store finds by digest what is under the digest's key.
Found == b2Obj # NoObject /\ b2Key = "blob"

UpdateStat(u) ==
    /\ b2Upd[u] = "idle"
    /\ IF Found THEN b2Upd' = [b2Upd EXCEPT ![u] = "copy"] /\ StatMeta(u)
       ELSE b2Up # "none" /\ b2Upd' = [b2Upd EXCEPT ![u] = "end"] /\ UNCHANGED <<b2Meta, b2After>>
    /\ UNCHANGED <<writerVars, b2Obj, b2Acked, b2Overtaken, b2Live>>
UpdateCopy(u) ==
    /\ b2Upd[u] = "copy" /\ b2Upd' = [b2Upd EXCEPT ![u] = "end"]
    /\ \/ Found /\ CopyMeta(u)
       \/ UNCHANGED <<b2Obj, b2Acked, b2Overtaken, b2After>>
    /\ UNCHANGED <<writerVars, b2Meta, b2Live>>
B2Delete ==
    /\ Found /\ b2Obj' = NoObject /\ b2Acked' = {} /\ b2Live' = FALSE
    /\ UNCHANGED <<writerVars, b2Upd, b2Meta, b2After, b2Overtaken>>

\* Abort names a key of its own, which is the upload's only when the reference is no digest.
B2Abort ==
    /\ b2Up = "run" /\ b2Key = "literal" /\ b2Up' = "err"
    /\ UNCHANGED <<b2Size, b2Key, b2Pipe, b2Body, b2Sent, b2Own, b2Ret, b2Closer, b2Committed, metaVars>>

B2OwnerStep ==
    \/ PipeWrite \/ CountWrite \/ CommitWaits \/ CommitVerify \/ CommitStat \/ CommitCopy
B2Next == B2Write \/ B2Close \/ B2Commit \/ (\E u \in Updaters : UpdateStat(u) \/ UpdateCopy(u)) \/ B2Delete \/ B2Abort
          \/ B2OwnerStep \/ PutEnds \/ B2CloseReturns
B2Spec == B2Init /\ [][B2Next]_b2Vars

-----------------------------------------------------------------------------
\* A commit that succeeded has put the whole blob there, although the upload ran beside the
\* writes and another goroutine may have ended its stream.
CommittedIsWhole == b2Committed /\ b2Live => b2Obj.len = Want

\* A label that was set is there, or somebody who had read the labels before it was set has
\* written them after (store.go:253 to 283 lock nothing): no update loses a label of one that
\* it did not overlap with, whatever the other updates lose.
LabelsSurvive == b2Acked \subseteq b2Obj.labels \cup b2Overtaken
=============================================================================
