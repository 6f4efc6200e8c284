------------------------------- MODULE DirBatch ------------------------------
(***************************************************************************)
(* The batchers of src/internal/dirsync.  GoroutineBatcher (batcher.go,    *)
(* batcher_goroutine.go) under concurrent calls of Submit, Flush and       *)
(* Close, with executeBatch's loop and its goroutines; and one flush of    *)
(* the IOURingBatcher (batcher_io_uring.go) against the kernel's two       *)
(* rings, which the kernel may refuse to serve.                            *)
(*                                                                         *)
(* A world of the first is [calls, autoAt, cancels]: the calls each caller *)
(* makes, in turn ("submit", "flush", "close"; the callers that close wait *)
(* for the others, as the pipeline does), WithAutoFlushAt, and whether the *)
(* context may be cancelled.  A world of the second is [ops, results,      *)
(* chunks, setup]: the operations, the kernel's answer to each, what       *)
(* io_uring_enter does with each chunk, and whether the ring is set up.    *)
(***************************************************************************)
EXTENDS Naturals, Sequences, FiniteSets, Functions

CONSTANTS DbWorlds, Parallelism, BrWorlds, RingEntries

VARIABLES
    dbOf,      \* the world
    dbCtx,     \* the context is done
    dbPend, dbClosed,
    dbAt,      \* the call each caller is in
    dbPc,      \* where in it: "call", "flush", "exec", "select", "wait", "closing"
    dbWork,    \* operations each flush has yet to start
    dbSem,     \* slots taken of its semaphore
    dbRun,     \* goroutines with an operation to execute
    dbFin,     \* goroutines that have to give their slot back
    dbTaken,   \* operations Submit has accepted
    dbTimes    \* how often each operation was executed

dbVars == <<dbOf, dbCtx, dbPend, dbClosed, dbAt, dbPc, dbWork, dbSem, dbRun, dbFin, dbTaken, dbTimes>>
execVars == <<dbWork, dbSem, dbRun, dbFin, dbTimes>>

Callers == DOMAIN dbOf.calls
Call(c) == dbOf.calls[c][dbAt[c]]
Returned(c) == dbAt[c] > Len(dbOf.calls[c])
OpOf(c) == <<c, dbAt[c]>>
AllOps == {<<c, i>> : c \in Callers, i \in 1..4}

DbInit ==
    /\ dbOf \in DbWorlds /\ dbCtx = FALSE /\ dbPend = {} /\ dbClosed = FALSE
    /\ dbAt = [c \in Callers |-> 1] /\ dbPc = [c \in Callers |-> "call"]
    /\ dbWork = [c \in Callers |-> {}] /\ dbSem = [c \in Callers |-> 0]
    /\ dbRun = [c \in Callers |-> {}] /\ dbFin = [c \in Callers |-> {}]
    /\ dbTaken = {} /\ dbTimes = [o \in AllOps |-> 0]

DbCancel ==
    /\ dbOf.cancels /\ ~dbCtx /\ dbCtx' = TRUE
    /\ UNCHANGED <<dbOf, dbPend, dbClosed, dbAt, dbPc, dbWork, dbSem, dbRun, dbFin, dbTaken, dbTimes>>

Return(c) == dbAt' = [dbAt EXCEPT ![c] = @ + 1] /\ dbPc' = [dbPc EXCEPT ![c] = "call"]
Goto(c, pc) == dbPc' = [dbPc EXCEPT ![c] = pc] /\ UNCHANGED dbAt

\* Submit: under the lock; with an automatic flush when there is enough.
SubmitOp(c) ==
    /\ dbPc[c] = "call" /\ Call(c) = "submit"
    /\ \/ dbClosed /\ Return(c) /\ UNCHANGED <<dbPend, dbTaken>>
       \/ /\ ~dbClosed /\ dbPend' = dbPend \cup {OpOf(c)} /\ dbTaken' = dbTaken \cup {OpOf(c)}
          /\ IF dbOf.autoAt > 0 /\ Cardinality(dbPend') >= dbOf.autoAt THEN Goto(c, "flush") ELSE Return(c)
    /\ UNCHANGED <<dbOf, dbCtx, dbClosed, execVars>>
CallFlush(c) ==
    /\ dbPc[c] = "call" /\ Call(c) = "flush" /\ Goto(c, "flush")
    /\ UNCHANGED <<dbOf, dbCtx, dbPend, dbClosed, dbTaken, execVars>>

\* Close: flushes before it marks the batcher closed; the second call does nothing.
CallClose(c) ==
    /\ dbPc[c] = "call" /\ Call(c) = "close"
    /\ \A o \in Callers : ~Returned(o) => Call(o) = "close"
    /\ IF dbClosed THEN Return(c) ELSE Goto(c, "flush")
    /\ UNCHANGED <<dbOf, dbCtx, dbPend, dbClosed, dbTaken, execVars>>
CloseEnds(c) ==
    /\ dbPc[c] = "closing" /\ dbClosed' = TRUE /\ Return(c)
    /\ UNCHANGED <<dbOf, dbCtx, dbPend, dbTaken, execVars>>
EndFlush(c) == IF Call(c) = "close" THEN Goto(c, "closing") ELSE Return(c)

\* Variant: the operations stay pending while they are executed.
SwapPendingLate(c) == dbWork' = [dbWork EXCEPT ![c] = dbPend] /\ UNCHANGED dbPend

\* Flush takes what is pending under the lock.
SwapPending(c) == dbWork' = [dbWork EXCEPT ![c] = dbPend] /\ dbPend' = {}
FlushTakes(c) ==
    /\ dbPc[c] = "flush"
    /\ \/ dbClosed /\ EndFlush(c) /\ UNCHANGED <<dbPend, dbWork>>
       \/ ~dbClosed /\ SwapPending(c) /\ Goto(c, "exec")
    /\ UNCHANGED <<dbOf, dbCtx, dbClosed, dbTaken, dbSem, dbRun, dbFin, dbTimes>>

\* executeBatch's loop: it ends when the context is done, or waits for a slot; when the
\* context is done meanwhile it starts the goroutine without one.
ExecLoop(c) ==
    /\ dbPc[c] = "exec" /\ Goto(c, IF dbCtx \/ dbWork[c] = {} THEN "wait" ELSE "select")
    /\ UNCHANGED <<dbOf, dbCtx, dbPend, dbClosed, dbTaken, execVars>>
StartOp(c) ==
    /\ dbPc[c] = "select" /\ Goto(c, "exec")
    /\ \E o \in dbWork[c] : dbWork' = [dbWork EXCEPT ![c] = @ \ {o}] /\ dbRun' = [dbRun EXCEPT ![c] = @ \cup {o}]
    /\ \/ dbSem[c] < Parallelism /\ dbSem' = [dbSem EXCEPT ![c] = @ + 1]
       \/ dbCtx /\ UNCHANGED dbSem
    /\ UNCHANGED <<dbOf, dbCtx, dbPend, dbClosed, dbTaken, dbFin, dbTimes>>

\* executeOp, unless the context is done.
RunOp(c) ==
    /\ \E o \in dbRun[c] :
          /\ dbRun' = [dbRun EXCEPT ![c] = @ \ {o}] /\ dbFin' = [dbFin EXCEPT ![c] = @ \cup {o}]
          /\ dbTimes' = IF dbCtx THEN dbTimes ELSE [dbTimes EXCEPT ![o] = @ + 1]
    /\ UNCHANGED <<dbOf, dbCtx, dbPend, dbClosed, dbTaken, dbAt, dbPc, dbWork, dbSem>>

\* Variant: a goroutine ends and its slot stays taken.
ReleaseForgets(c) ==
    /\ \E o \in dbFin[c] : dbFin' = [dbFin EXCEPT ![c] = @ \ {o}]
    /\ UNCHANGED <<dbOf, dbCtx, dbPend, dbClosed, dbTaken, dbAt, dbPc, dbWork, dbRun, dbSem, dbTimes>>

\* The goroutine's last step takes a token out of the semaphore, whoever put it there.
SlotFreed(c) ==
    /\ dbSem[c] > 0 /\ dbSem' = [dbSem EXCEPT ![c] = @ - 1]
    /\ \E o \in dbFin[c] : dbFin' = [dbFin EXCEPT ![c] = @ \ {o}]
    /\ UNCHANGED <<dbOf, dbCtx, dbPend, dbClosed, dbTaken, dbAt, dbPc, dbWork, dbRun, dbTimes>>

\* wg.Wait.
BatchEnds(c) ==
    /\ dbPc[c] = "wait" /\ dbRun[c] = {} /\ dbFin[c] = {}
    /\ dbWork' = [dbWork EXCEPT ![c] = {}] /\ EndFlush(c)
    /\ UNCHANGED <<dbOf, dbCtx, dbPend, dbClosed, dbTaken, dbSem, dbRun, dbFin, dbTimes>>

DbStep ==
    \E c \in Callers :
        \/ ~Returned(c) /\ (SubmitOp(c) \/ CallFlush(c) \/ CallClose(c) \/ CloseEnds(c) \/ FlushTakes(c))
        \/ ExecLoop(c) \/ StartOp(c) \/ RunOp(c) \/ SlotFreed(c) \/ BatchEnds(c)
DbNext == DbCancel \/ DbStep

-----------------------------------------------------------------------------
VARIABLES
    brOf,      \* the world
    brAt,      \* operations of the chunks done
    brSq, brHead, brTail,     \* submission queue: slot -> operation, and its ends
    brCq, brCqHead,           \* all completions so far, and how many were consumed
    brGone,    \* operations whose entry is gone
    brHeard,   \* operations whose completion was read
    brErrs     \* operations with an error

brVars == <<brOf, brAt, brSq, brHead, brTail, brCq, brCqHead, brGone, brHeard, brErrs>>

Pow2 == {1, 2, 4, 8, 16}
RingSize(w) ==
    LET n == CHOOSE p \in Pow2 : p >= Len(w.ops) /\ \A q \in Pow2 : q >= Len(w.ops) => p <= q
    IN IF n > RingEntries THEN RingEntries ELSE n
ChunkLen == IF Len(brOf.ops) - brAt > RingSize(brOf) THEN RingSize(brOf) ELSE Len(brOf.ops) - brAt
Chunk == (brAt + 1)..(brAt + ChunkLen)

BrInit ==
    /\ brOf \in BrWorlds /\ brAt = 0 /\ brSq = [s \in 0..(RingSize(brOf) - 1) |-> 0] /\ brHead = 0 /\ brTail = 0
    /\ brCq = <<>> /\ brCqHead = 0 /\ brGone = {} /\ brHeard = {} /\ brErrs = {}

\* executeBatch on operations: each goes, or fails.
Fallback(os) ==
    /\ brGone' = brGone \cup {o \in os : brOf.ops[o] # "stuck"}
    /\ brErrs' = brErrs \cup {o \in os : brOf.ops[o] = "stuck"}

\* The slot of the j-th operation of the chunk.
Slot(j) == (brAt + j) % RingSize(brOf)
SqFilled == [s \in DOMAIN brSq |->
              LET js == {j \in 0..(ChunkLen - 1) : Slot(j) = s}
              IN IF js = {} THEN brSq[s] ELSE brAt + 1 + (CHOOSE j \in js : TRUE)]

\* The kernel takes n entries from the head of the queue; each is answered.  A removal of
\* something that is not there any more is ENOENT.
Answer(o, gone) == IF o \in gone THEN "enoent" ELSE brOf.results[o]
Consumed(n) == [i \in 1..n |-> SqFilled[(brHead + i - 1) % RingSize(brOf)]]

\* What the caller makes of a completion: nothing, the sequential removal, or an error.
Retried(cs) == {c.op : c \in {x \in cs : x.res \in {"enotempty", "einval"}}}
Failed(cs) == {c.op : c \in {x \in cs : x.res = "eio"}} \cup {o \in Retried(cs) : brOf.ops[o] = "stuck"}

\* Without a ring everything goes to the pool.
RingRefused ==
    /\ brAt = 0 /\ Len(brOf.ops) > 0 /\ ~brOf.setup /\ brAt' = Len(brOf.ops) /\ Fallback(1..Len(brOf.ops))
    /\ UNCHANGED <<brOf, brSq, brHead, brTail, brCq, brCqHead, brHeard>>

\* Submission of a chunk: how many the kernel takes of it, all of them, none with an error, or
\* some.  After anything but all the pool executes the chunk, and the rest stays queued.  Of
\* a call that took all but was interrupted ("early") the last completion is not there yet:
\* what is read in its place is empty.
EnterChunk ==
    /\ brOf.setup /\ brAt < Len(brOf.ops)
    /\ LET n == brOf.chunks[(brAt \div RingSize(brOf)) + 1]
           took == CASE n \in {"all", "early"} -> ChunkLen [] n = "none" -> 0 [] n = "some" -> 1
           there == IF n = "early" THEN took - 1 ELSE took
           os == Consumed(took)
           new == [i \in 1..took |-> [op |-> os[i], res |-> Answer(os[i], brGone)]]
           seen == brCq \o SubSeq(new, 1, there)
           read == {seen[i] : i \in (brCqHead + 1)..(brCqHead + ChunkLen) \cap 1..Len(seen)}
           kernel == {os[i] : i \in {k \in 1..took : new[k].res = "ok"}}
       IN /\ brSq' = SqFilled /\ brTail' = brTail + ChunkLen /\ brHead' = brHead + took /\ brCq' = brCq \o new
          /\ IF took = ChunkLen
             THEN /\ brCqHead' = brCqHead + ChunkLen /\ brHeard' = brHeard \cup {c.op : c \in read}
                  /\ brGone' = brGone \cup kernel \cup {o \in Retried(read) : brOf.ops[o] # "stuck"}
                  /\ brErrs' = brErrs \cup Failed(read)
             ELSE /\ UNCHANGED <<brCqHead, brHeard>>
                  /\ brGone' = brGone \cup kernel \cup {o \in Chunk : brOf.ops[o] # "stuck"}
                  /\ brErrs' = brErrs \cup {o \in Chunk : brOf.ops[o] = "stuck"}
    /\ brAt' = brAt + ChunkLen /\ UNCHANGED brOf

BrNext == RingRefused \/ EnterChunk

-----------------------------------------------------------------------------
\* When all calls have returned and the batcher is closed, every operation that Submit took
\* was executed exactly once: concurrent automatic flushes, an explicit one and Close lose
\* none and repeat none.  After a cancellation none is repeated.
EachOpOnce ==
    /\ \A o \in AllOps : dbTimes[o] <= 1
    /\ dbClosed /\ ~dbCtx /\ (\A c \in Callers : Returned(c)) => \A o \in dbTaken : dbTimes[o] = 1

\* Flush returns only when what it took is done, and no goroutine of a batch is left behind.
FlushWaits == \A c \in Callers : dbPc[c] \in {"call", "flush", "closing"} => dbRun[c] = {} /\ dbFin[c] = {}

\* "Flush executes all queued ops" (batcher.go:83): at its end every operation has removed
\* its entry or is reported, whatever the kernel answers and whichever chunk it refuses.  Two
\* ways to lose one silently are left: after a chunk that was taken in part a later chunk's
\* operations stay in the queue, behind those already executed (batcher_io_uring.go:423), and a
\* failure whose completion is not there yet is not heard of (:437).
StillQueued == {brSq[i % RingSize(brOf)] : i \in brHead..(brTail - 1)}
RingExecutesAll ==
    brAt = Len(brOf.ops) =>
        \A o \in 1..Len(brOf.ops) \ (brGone \cup brErrs) :
            \/ "some" \in Range(brOf.chunks) /\ o \in StillQueued
            \/ "early" \in Range(brOf.chunks) /\ o \notin brHeard /\ \E i \in 1..Len(brCq) : brCq[i].op = o

\* Batches of removals: none lost, none repeated, none left running, whatever the kernel refuses.
BatchesSound == EachOpOnce /\ FlushWaits /\ RingExecutesAll
=============================================================================
