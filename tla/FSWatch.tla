------------------------------- MODULE FSWatch -------------------------------
(***************************************************************************)
(* fswatch (src/pkg/fswatch): the fanotify watcher's read loop, the        *)
(* channel it feeds, and the pipeline that filters, transforms and handles *)
(* events in a bounded number of workers behind a stack of middlewares.    *)
(*                                                                         *)
(* Events are numbered in the order the kernel queues them.  An event is   *)
(* [ops, path, transform, handlers]: the operations of its mask; a path    *)
(* "inside" or "outside" the filtered prefix, or "gone"; whether a         *)
(* transformer fails; and how each of the pipeline's handlers ends.        *)
(* A pipeline is [mids, comp, async, filters]: its middlewares in the      *)
(* order of registration, how the handlers are composed, Run or RunSync,   *)
(* and its filters.                                                        *)
(***************************************************************************)
EXTENDS Naturals, Sequences, SequencesExt, FiniteSets

CONSTANTS
    FsWorlds,      \* what the events may be
    FsPipes,       \* what the pipeline may be
    FsWorkers,     \* worker slots
    OutBuf,        \* capacity of the watcher's channel
    ErrBuf,        \* capacity of the error channel
    MaxBatch       \* bound: records one read returns

VARIABLES
    fsOf,       \* the events
    fsPipe,     \* the pipeline
    fsCtx,      \* the context is cancelled
    fsQueued,   \* events the kernel has queued so far
    kq,         \* the kernel's queue
    wPc,        \* readLoop: "off", "check", "enter", "polling", "read", "send", "stuck", "end"
    wClosed,    \* Close was called
    wBatch,     \* records read and not yet sent
    wFDs,       \* descriptors of records that are still open
    outQ,       \* the watcher's channel
    outClosed,
    pPc,        \* RunSync: "loop", "sem", "drain", "errs", "done"
    pEv,        \* the event waiting for a worker
    pWork,      \* workers: event -> "transform" or "handle"
    pCount,     \* counters: received, filtered, handled, errors
    pLost,      \* history: events given up while waiting for a worker
    pFailed,    \* history: events whose handler failed
    pErrs,      \* errors in the error channel
    pTold,      \* errors given to onError, or waiting in the channel Run returned
    pSeen,      \* events the last handler collected
    pMetrics,   \* counters of the metrics middleware
    pCrashed    \* a panic ended the process

watchVars == <<fsQueued, kq, wPc, wClosed, wBatch, wFDs, outClosed>>
pipelineVars == <<pPc, pEv, pWork, pCount, pLost, pFailed, pErrs, pTold, pSeen, pMetrics, pCrashed>>
fsVars == <<fsOf, fsPipe, fsCtx, outQ, watchVars, pipelineVars>>

FsIds == DOMAIN fsOf
FsTypeOK ==
    /\ wPc \in {"off", "check", "enter", "polling", "read", "send", "stuck", "end"}
    /\ pPc \in {"loop", "sem", "drain", "errs", "done"}
    /\ Len(outQ) <= OutBuf /\ pErrs \in 0..ErrBuf
    /\ Cardinality(DOMAIN pWork) <= FsWorkers
    /\ pSeen \subseteq FsIds /\ (fsPipe.async => pTold <= ErrBuf)

FsInit ==
    /\ fsOf \in FsWorlds /\ fsPipe \in FsPipes /\ fsCtx = FALSE
    /\ fsQueued = 0 /\ kq = <<>> /\ wPc = "off" /\ wClosed = FALSE /\ wBatch = <<>> /\ wFDs = {}
    /\ outQ = <<>> /\ outClosed = FALSE
    /\ pPc = "loop" /\ pEv = 0 /\ pWork = <<>>
    /\ pCount = [received |-> 0, filtered |-> 0, handled |-> 0, errors |-> 0]
    /\ pLost = 0 /\ pFailed = 0 /\ pErrs = 0 /\ pTold = 0 /\ pSeen = {}
    /\ pMetrics = [handled |-> 0, errors |-> 0] /\ pCrashed = FALSE

-----------------------------------------------------------------------------
FsCancel == ~fsCtx /\ fsCtx' = TRUE /\ UNCHANGED <<fsOf, fsPipe, outQ, watchVars, pipelineVars>>
Kernel ==
    /\ fsQueued < Len(fsOf) /\ fsQueued' = fsQueued + 1 /\ kq' = Append(kq, fsQueued + 1)
    /\ UNCHANGED <<fsOf, fsPipe, fsCtx, outQ, wPc, wClosed, wBatch, wFDs, outClosed, pipelineVars>>

\* Watch, once; Close signals the stop pipe and closes all descriptors.
Watch ==
    /\ wPc = "off" /\ ~wClosed /\ wPc' = "check"
    /\ UNCHANGED <<fsOf, fsPipe, fsCtx, outQ, fsQueued, kq, wClosed, wBatch, wFDs, outClosed, pipelineVars>>
CloseWatcher ==
    /\ ~wClosed /\ wClosed' = TRUE
    /\ UNCHANGED <<fsOf, fsPipe, fsCtx, outQ, fsQueued, kq, wPc, wBatch, wFDs, outClosed, pipelineVars>>

\* The loop ends and closes the channel.
LoopEnds == wPc' = "end" /\ outClosed' = TRUE

\* The top of the loop: the context, then the descriptors.  After Close they are -1, and
\* poll waits for nothing, without a timeout.
LoopTop ==
    /\ wPc = "check"
    /\ \/ fsCtx /\ LoopEnds
       \/ ~fsCtx /\ wPc' = (IF wClosed THEN "stuck" ELSE "enter") /\ UNCHANGED outClosed
    /\ UNCHANGED <<fsOf, fsPipe, fsCtx, outQ, fsQueued, kq, wClosed, wBatch, wFDs, pipelineVars>>

\* WaitReadable: with descriptors that were closed before poll looks at them it finds
\* neither input nor a stop and calls poll again and again; poll that is woken by the stop
\* pipe may look at it before or after it is closed.
WaitReadable ==
    /\ \/ wPc = "enter" /\ wPc' = (IF wClosed THEN "stuck" ELSE "polling") /\ UNCHANGED outClosed
       \/ wPc = "polling" /\ ~wClosed /\ kq # <<>> /\ wPc' = "read" /\ UNCHANGED outClosed
       \/ wPc = "polling" /\ wClosed /\ LoopEnds
       \/ wPc = "polling" /\ wClosed /\ wPc' = "stuck" /\ UNCHANGED outClosed
    /\ UNCHANGED <<fsOf, fsPipe, fsCtx, outQ, fsQueued, kq, wClosed, wBatch, wFDs, pipelineVars>>

\* ReadEvents: a few records, each with a descriptor except the overflow; an error after
\* Close.
ReadEvents ==
    /\ wPc = "read"
    /\ IF wClosed THEN wPc' = "check" /\ UNCHANGED <<kq, wBatch, wFDs>>
       ELSE \E n \in 1..MaxBatch :
              /\ n <= Len(kq)
              /\ wBatch' = SubSeq(kq, 1, n) /\ kq' = SubSeq(kq, n + 1, Len(kq)) /\ wPc' = "send"
              /\ wFDs' = wFDs \cup {kq[i] : i \in {j \in 1..n : "overflow" \notin fsOf[kq[j]].ops}}
    /\ UNCHANGED <<fsOf, fsPipe, fsCtx, outQ, fsQueued, wClosed, outClosed, pipelineVars>>

\* FDToPath closes the descriptor in any case.
ClosedFD(e) == {e}

\* One record: no path, no event; otherwise it is sent, or the loop ends with the context.
SendEvent ==
    /\ wPc = "send"
    /\ IF wBatch = <<>> THEN wPc' = "check" /\ UNCHANGED <<outQ, outClosed, wBatch, wFDs>>
       ELSE LET e == Head(wBatch) IN
            /\ wFDs' = wFDs \ ClosedFD(e)
            /\ wBatch' = Tail(wBatch)
            /\ \/ fsOf[e].path = "gone" /\ UNCHANGED <<wPc, outQ, outClosed>>
               \/ /\ fsOf[e].path # "gone" /\ Len(outQ) < OutBuf
                  /\ outQ' = Append(outQ, e) /\ UNCHANGED <<wPc, outClosed>>
               \/ fsOf[e].path # "gone" /\ fsCtx /\ LoopEnds /\ UNCHANGED outQ
    /\ UNCHANGED <<fsOf, fsPipe, fsCtx, fsQueued, kq, wClosed, pipelineVars>>

-----------------------------------------------------------------------------
\* addErr: counted, and put into the error channel unless that is full.
Told(n) == IF n > 0 /\ pErrs < ErrBuf THEN pErrs + 1 ELSE pErrs

\* The operations that modify (opModificationBits).
Modifying == {"modify", "closeWrite", "create", "delete", "deleteSelf", "moved", "moveSelf", "attrib"}
IsReadOnly(ops) == ops \cap Modifying = {}

\* A filter looks at the event alone ...
EventAllows(f, e) ==
    CASE f.op = "readOnly"   -> IsReadOnly(fsOf[e].ops)
      [] f.op = "noOverflow" -> "overflow" \notin fsOf[e].ops
      [] f.op = "mask"       -> fsOf[e].ops \cap f.args # {}
      [] f.op = "exact"      -> fsOf[e].ops = f.args
      [] f.op = "prefix"     -> fsOf[e].path \in f.args
      [] f.op = "exclude"    -> fsOf[e].path \notin f.args

\* ... or at what a transformer adds: that is not there yet, since the pipeline filters
\* first, so these filters allow nothing.
EnrichedAllows(f, e) == FALSE

Enriched == {"upper", "lower", "attr"}
Leaf(f, e) == IF f.op \in Enriched THEN EnrichedAllows(f, e) ELSE EventAllows(f, e)

\* AllFilters, of filters of which one kind is AnyFilter.
PassesFilters(e) ==
    \A i \in DOMAIN fsPipe.filters :
        LET f == fsPipe.filters[i] IN
        IF f.op = "any" THEN \E g \in f.args : Leaf(g, e) ELSE Leaf(f, e)

\* The counters after an overflow: it is an error and a filtered event.
CountOverflow(c) == [c EXCEPT !.received = @ + 1, !.errors = @ + 1, !.filtered = @ + 1]

\* The loop of RunSync: one event of the channel, or its end, or that of the context.
Receive ==
    /\ pPc = "loop" /\ outQ # <<>> /\ outQ' = Tail(outQ)
    /\ LET e == Head(outQ) IN
       \/ fsCtx /\ UNCHANGED <<pPc, pEv, pCount, pErrs>>
       \/ /\ ~fsCtx /\ "overflow" \in fsOf[e].ops
          /\ pCount' = CountOverflow(pCount) /\ pErrs' = Told(1) /\ UNCHANGED <<pPc, pEv>>
       \/ /\ ~fsCtx /\ "overflow" \notin fsOf[e].ops /\ ~PassesFilters(e)
          /\ pCount' = [pCount EXCEPT !.received = @ + 1, !.filtered = @ + 1]
          /\ UNCHANGED <<pPc, pEv, pErrs>>
       \/ /\ ~fsCtx /\ "overflow" \notin fsOf[e].ops /\ PassesFilters(e)
          /\ pCount' = [pCount EXCEPT !.received = @ + 1] /\ pPc' = "sem" /\ pEv' = e
          /\ UNCHANGED pErrs
    /\ UNCHANGED <<fsOf, fsPipe, fsCtx, watchVars, pWork, pLost, pFailed, pTold, pSeen, pMetrics, pCrashed>>

StopLoop ==
    /\ pPc = "loop" /\ (fsCtx \/ (outQ = <<>> /\ outClosed)) /\ pPc' = "drain"
    /\ UNCHANGED <<fsOf, fsPipe, fsCtx, outQ, watchVars, pEv, pWork, pCount, pLost, pFailed, pErrs, pTold, pSeen,
                   pMetrics, pCrashed>>

Acquire ==
    /\ pPc = "sem" /\ pPc' = "loop"
    /\ \/ /\ Cardinality(DOMAIN pWork) < FsWorkers
          /\ pWork' = [x \in DOMAIN pWork \cup {pEv} |-> IF x = pEv THEN "transform" ELSE pWork[x]]
          /\ UNCHANGED pLost
       \/ fsCtx /\ pLost' = pLost + 1 /\ UNCHANGED pWork
    /\ UNCHANGED <<fsOf, fsPipe, fsCtx, outQ, watchVars, pEv, pCount, pFailed, pErrs, pTold, pSeen, pMetrics, pCrashed>>

\* A worker: the transformers, all of them, whose errors do not stop the event ...
Transform(e) ==
    /\ pWork[e] = "transform" /\ pWork' = [pWork EXCEPT ![e] = "handle"]
    /\ pCount' = IF fsOf[e].transform THEN [pCount EXCEPT !.errors = @ + 1] ELSE pCount
    /\ pErrs' = Told(IF fsOf[e].transform THEN 1 ELSE 0)
    /\ UNCHANGED <<fsOf, fsPipe, fsCtx, outQ, watchVars, pPc, pEv, pLost, pFailed, pTold, pSeen, pMetrics, pCrashed>>

\* NewPipeline wraps from the last middleware to the first, which is the outermost, though
\* pipeline.go:76 and options.go:53 call the last one so.
Wrapped(stack) == stack

\* The handlers: a ChainHandler runs them until one fails, a MultiHandler runs all of them
\* unless one panics, a PredicateHandler runs its own only when it holds.
Handlers(e) ==
    LET hs == fsOf[e].handlers
        bad == {i \in 1..Len(hs) : hs[i] = "panic" \/ (hs[i] = "err" /\ fsPipe.comp = "chain")}
        first == CHOOSE i \in bad : \A j \in bad : i <= j
    IN CASE fsPipe.comp = "predicate" /\ fsOf[e].transform -> [ran |-> {}, end |-> "ok"]
         [] bad # {} -> [ran |-> 1..first, end |-> hs[first]]
         [] OTHER -> [ran |-> 1..Len(hs), end |-> IF \E i \in 1..Len(hs) : hs[i] = "err" THEN "err" ELSE "ok"]

\* What a middleware makes of the outcome it wraps: Recovery turns a panic into an error,
\* Metrics (and the counters of OTEL) count what returns to it, Logging changes nothing.
Through(m, o) == CASE m = "recovery" /\ o.end = "panic" -> [o EXCEPT !.end = "err"]
                   [] m = "metrics" /\ o.end # "panic" -> [o EXCEPT !.counted = TRUE]
                   [] OTHER -> o
Outcome(e) == FoldRight(Through, Wrapped(fsPipe.mids), [end |-> Handlers(e).end, counted |-> FALSE])

Release(e) == {e}

\* ... then the handler in its middlewares; the slot is given back in any case.
Handle(e) ==
    LET o == Outcome(e) IN
    /\ pWork[e] = "handle"
    /\ pWork' = [x \in DOMAIN pWork \ Release(e) |-> pWork[x]]
    /\ pCrashed' = (o.end = "panic")
    /\ pCount' = CASE o.end = "ok" -> [pCount EXCEPT !.handled = @ + 1]
                   [] o.end = "err" -> [pCount EXCEPT !.errors = @ + 1]
                   [] OTHER -> pCount
    /\ pErrs' = Told(IF o.end = "err" THEN 1 ELSE 0)
    /\ pFailed' = IF o.end = "err" THEN pFailed + 1 ELSE pFailed
    /\ pMetrics' = IF ~o.counted THEN pMetrics
                   ELSE IF o.end = "ok" THEN [pMetrics EXCEPT !.handled = @ + 1]
                   ELSE [pMetrics EXCEPT !.errors = @ + 1]
    /\ pSeen' = IF Len(fsOf[e].handlers) \in Handlers(e).ran THEN pSeen \cup {e} ELSE pSeen
    /\ UNCHANGED <<fsOf, fsPipe, fsCtx, outQ, watchVars, pPc, pEv, pLost, pTold>>

\* The consumer of errors calls onError.  Run's puts the error into a channel, which may be
\* full; and with a cancelled context its select may drop one though there is room.
TellError ==
    /\ pErrs > 0 /\ pErrs' = pErrs - 1
    /\ \/ (fsPipe.async => pTold < ErrBuf) /\ pTold' = pTold + 1
       \/ fsPipe.async /\ (fsCtx \/ pTold = ErrBuf) /\ UNCHANGED pTold
    /\ UNCHANGED <<fsOf, fsPipe, fsCtx, outQ, watchVars, pPc, pEv, pWork, pCount, pLost, pFailed, pSeen, pMetrics, pCrashed>>

\* The end: workers, then errors, then the result.
Finish ==
    /\ \/ pPc = "drain" /\ DOMAIN pWork = {} /\ pPc' = "errs"
       \/ pPc = "errs" /\ pErrs = 0 /\ pPc' = "done"
    /\ UNCHANGED <<fsOf, fsPipe, fsCtx, outQ, watchVars, pEv, pWork, pCount, pLost, pFailed, pErrs, pTold, pSeen,
                   pMetrics, pCrashed>>

-----------------------------------------------------------------------------
LoopStep == LoopTop \/ WaitReadable \/ ReadEvents \/ SendEvent
PipelineStep == Receive \/ StopLoop \/ Acquire \/ TellError \/ Finish \/ \E e \in DOMAIN pWork : Transform(e) \/ Handle(e)
FsNext == ~pCrashed /\ (FsCancel \/ Kernel \/ Watch \/ CloseWatcher \/ LoopStep \/ PipelineStep)
FsProgress == ~pCrashed /\ PipelineStep

-----------------------------------------------------------------------------
\* The counters RunSync returns account for every event it received: filtered, handled,
\* failed in the handler, or given up for the context; and no error was invented: what the
\* caller can see is at most what is counted, and all of it if the error channel never
\* filled up, unless it is the channel of a Run that was cancelled.
ResultAccounts ==
    pPc = "done" =>
        /\ pCount.received = pCount.filtered + pCount.handled + pFailed + pLost
        /\ pTold <= pCount.errors /\ (pCount.errors <= ErrBuf /\ (fsPipe.async => ~fsCtx) => pTold = pCount.errors)

\* With a recovery middleware anywhere in the stack a handler's panic never ends the
\* process, and a metrics middleware registered before it, thus outside of it, counts every
\* event whose handler ended, recovered panics included (NewPipeline, RecoveryMiddleware,
\* MetricsMiddleware).
MiddlewareHolds ==
    /\ (\E i \in 1..Len(fsPipe.mids) : fsPipe.mids[i] = "recovery") => ~pCrashed
    /\ \A i, j \in 1..Len(fsPipe.mids) : i < j /\ fsPipe.mids[i] = "metrics" /\ fsPipe.mids[j] = "recovery" =>
          pMetrics.handled + pMetrics.errors = pCount.handled + pFailed

\* A MultiHandler's last handler collects every event that was handled or failed, whatever
\* the handlers before it did, as long as none panicked.
MultiSeesAll ==
    fsPipe.comp = "multi" /\ (\A e \in FsIds : \A i \in 1..Len(fsOf[e].handlers) : fsOf[e].handlers[i] # "panic") =>
        Cardinality(pSeen) = pCount.handled + pFailed

\* Every record's descriptor is closed before the loop waits for new events, whatever
\* became of the record (FDToPath).
DescriptorsClosed == wPc \in {"check", "enter", "polling"} => wFDs = {}

=============================================================================
