------------------------------- MODULE DirSync -------------------------------
(***************************************************************************)
(* The dirsync pipeline (src/internal/dirsync: pipeline.go, classifier.go, *)
(* hash_pipeline.go, engine.go): the classifier walks two trees and feeds  *)
(* two channels; a pool hashes what both trees have; two pools of workers  *)
(* hand removals to a batcher, which is flushed at the end.                *)
(*                                                                         *)
(* A world is [lower, upper, filter, missing, walkFails, hashFails, stuck, *)
(* exc, com, multi, abort, ring]: the trees; whether a required path is    *)
(* missing; after how many entries the walk fails, if it does; paths that  *)
(* cannot be hashed, and that cannot be unlinked; the handlers of exclusive and of common entries, each *)
(* [only, fails] with its predicate and the paths it fails on, as a        *)
(* MultiHandler or a ChainHandler; WithAbortOnError; and the batcher, a    *)
(* ring or a pool of goroutines.                                           *)
(***************************************************************************)
EXTENDS DirTree

CONSTANTS
    DsWorlds,
    ExcBuf, ComBuf,                    \* capacities of the classifier's channels
    HashWorkers, ExcWorkers, ComWorkers

\* An entry is a file, a link or a directory.
ASSUME DsAssumption ==
    \A w \in DsWorlds : \A p \in DOMAIN w.lower : w.lower[p].kind \in {"file", "link", "dir"}

VARIABLES
    dsOf,      \* the world
    dsWalk,    \* what its walk yields
    dsMeant,   \* what the engine is to remove
    dsReach,   \* all that it may remove
    dsCtx,     \* the pipeline's context is done
    dsSent,    \* entries the classifier has sent
    dsCls,     \* "run" or "end"
    excQ, comQ, enrQ,   \* exclusive, common and hashed entries in channels
    hashW,     \* paths being hashed -> "hash", or the result: "same", "other", "unknown"
    hashEnd,   \* the hash stage is over
    excW, comW,         \* entries with a worker
    dsPend,    \* operations in the batcher
    dsExec,    \* operations of the flush that are not executed yet
    dsPc,      \* "stages", "flush", "hung" or "done"
    dsLeft,    \* the entries of the merged directory
    dsHandled, \* entries counted as handled
    dsSeen,    \* which handler was called with which entry
    dsErrs     \* entries with an error; <<>> for the walk itself

given == <<dsOf, dsWalk, dsMeant, dsReach>>
stageVars == <<dsSent, dsCls, excQ, comQ, enrQ, hashW, hashEnd, excW, comW>>
dsVars == <<given, dsCtx, stageVars, dsPend, dsExec, dsPc, dsLeft, dsHandled, dsSeen, dsErrs>>

\* What the engine is to remove: entries of the lower tree that the upper tree does not
\* have or has unchanged, as far as the filter selects them.
Selected(f, p) == ~Matches(f.exclude, p) /\ (NoIncludes(f) \/ Included(f, p))
Meant(w) ==
    {p \in DOMAIN w.lower :
        /\ Selected(w.filter, p)
        /\ \/ p \notin DOMAIN w.upper
           \/ w.lower[p].kind # "dir" /\ Equal(w.lower[p], w.upper[p])}

\* The merged directory: the upper tree hides what is below one of its files.
Merged(w) ==
    DOMAIN w.upper \cup {p \in DOMAIN w.lower : \A q \in DOMAIN w.upper : Under(p, q) => p = q \/ IsDir(w.upper, q)}

\* The entries of Merged(w) that an operation on p removes, with all of its subtree or not.
Hit(w, p, all) == {q \in Merged(w) : IF all THEN Under(q, p) ELSE q = p}

\* What goes besides.  A directory that only the lower tree has goes as a whole when it is
\* selected, with all that exclude patterns exclude below it (options.go:42: they "always take
\* precedence").  Where a directory of the lower tree is a file in the upper one, the
\* goroutines' RemoveAll takes that file, the ring refuses to (engine.go:50-51: what differs is
\* "left untouched").
Overreach(w) ==
    {q \in Merged(w) : \E p \in DOMAIN w.lower :
        /\ IsDir(w.lower, p) /\ Under(q, p)
        /\ \/ p \notin DOMAIN w.upper /\ Selected(w.filter, p)
           \/ p \in DOMAIN w.upper /\ ~IsDir(w.upper, p) /\ ~w.ring /\ ~Matches(w.filter.exclude, p)}

\* The walk yields what is meant to be removed, and as exclusive nothing but what may be, or
\* what a ring refuses.
WalkIsRight(w) ==
    LET walk == WalkBoth(w.lower, w.upper, w.filter, <<>>)
        Refused(e) == w.ring /\ e.collapsed /\ e.path \in DOMAIN w.upper
    IN /\ walk \in Seq([to : {"exclusive", "common"}, path : DOMAIN w.lower, collapsed : BOOLEAN])
       /\ \A i \in 1..Len(walk) :
             LET e == walk[i] IN
             IF e.to = "exclusive"
             THEN Refused(e) \/ Hit(w, e.path, e.collapsed) \subseteq Meant(w) \cup Overreach(w)
             ELSE /\ ~e.collapsed /\ e.path \in DOMAIN w.upper
                  /\ IsDir(w.lower, e.path) \/ Selected(w.filter, e.path)
       /\ \A p \in Meant(w) \cap Merged(w) :
             \E i \in 1..Len(walk) : p \in Hit(w, walk[i].path, walk[i].collapsed)

DsTypeOK ==
    /\ Len(excQ) <= ExcBuf /\ Len(comQ) <= ComBuf /\ Len(enrQ) <= ComBuf + HashWorkers
    /\ Cardinality(DOMAIN hashW) <= HashWorkers
    /\ Cardinality(excW) <= ExcWorkers /\ Cardinality(comW) <= ComWorkers
    /\ dsLeft \subseteq DOMAIN dsOf.lower \cup DOMAIN dsOf.upper

DsInit ==
    /\ dsOf \in DsWorlds /\ dsCtx = FALSE
    /\ dsWalk = WalkBoth(dsOf.lower, dsOf.upper, dsOf.filter, <<>>)
    /\ dsMeant = Meant(dsOf) /\ dsReach = Meant(dsOf) \cup Overreach(dsOf)
    /\ dsSent = 0 /\ dsCls = "run" /\ excQ = <<>> /\ comQ = <<>> /\ enrQ = <<>>
    /\ hashW = <<>> /\ hashEnd = FALSE /\ excW = {} /\ comW = {}
    /\ dsPend = {} /\ dsExec = {} /\ dsPc = "stages"
    /\ dsLeft = Merged(dsOf) /\ dsHandled = {} /\ dsSeen = {} /\ dsErrs = {}

\* addErr: the error is kept, and with WithAbortOnError the context is cancelled.
AddErr(p) == dsErrs' = dsErrs \cup {p} /\ dsCtx' = (dsCtx \/ dsOf.abort)
NoErr == UNCHANGED <<dsErrs, dsCtx>>

DsCancel == ~dsCtx /\ dsPc \notin {"hung", "done"} /\ dsCtx' = TRUE
            /\ UNCHANGED <<given, stageVars, dsPend, dsExec, dsPc, dsLeft, dsHandled, dsSeen, dsErrs>>

-----------------------------------------------------------------------------
\* Classify: the required paths first, then the walk, which blocks on a full channel.
ClassifyFails ==
    /\ dsCls = "run" /\ dsCls' = "end"
    /\ (dsSent = 0 /\ dsOf.missing) \/ (~dsOf.missing /\ dsSent = dsOf.walkFails)
    /\ \/ AddErr(<<>>)
       \/ dsCtx /\ NoErr
    /\ UNCHANGED <<given, dsSent, excQ, comQ, enrQ, hashW, hashEnd, excW, comW, dsPend, dsExec, dsPc, dsLeft, dsHandled, dsSeen>>
ClassifySend ==
    /\ dsCls = "run" /\ ~dsOf.missing /\ dsSent # dsOf.walkFails /\ dsSent < Len(dsWalk)
    /\ dsSent' = dsSent + 1
    /\ LET e == dsWalk[dsSent + 1] IN
       \/ e.to = "exclusive" /\ Len(excQ) < ExcBuf /\ excQ' = Append(excQ, e) /\ UNCHANGED comQ
       \/ e.to = "common" /\ Len(comQ) < ComBuf /\ comQ' = Append(comQ, e) /\ UNCHANGED excQ
    /\ UNCHANGED <<given, dsCtx, dsCls, enrQ, hashW, hashEnd, excW, comW, dsPend, dsExec, dsPc, dsLeft, dsHandled, dsSeen, dsErrs>>
ClassifyEnds ==
    /\ dsCls = "run" /\ (dsCtx \/ (~dsOf.missing /\ dsSent # dsOf.walkFails /\ dsSent = Len(dsWalk))) /\ dsCls' = "end"
    /\ UNCHANGED <<given, dsCtx, dsSent, excQ, comQ, enrQ, hashW, hashEnd, excW, comW, dsPend, dsExec, dsPc, dsLeft,
                   dsHandled, dsSeen, dsErrs>>

\* HashPipeline.Run: entries that come after the context is done are dropped.
HashTake ==
    /\ comQ # <<>> /\ comQ' = Tail(comQ)
    /\ \/ dsCtx /\ UNCHANGED hashW
       \/ /\ Cardinality(DOMAIN hashW) < HashWorkers
          /\ hashW' = [p \in DOMAIN hashW \cup {Head(comQ).path} |-> IF p \in DOMAIN hashW THEN hashW[p] ELSE "hash"]
    /\ UNCHANGED <<given, dsCtx, dsSent, dsCls, excQ, enrQ, hashEnd, excW, comW, dsPend, dsExec, dsPc, dsLeft, dsHandled, dsSeen, dsErrs>>

\* enrichOne: only files and links are compared; an error leaves the result unknown.
HashResult(p) ==
    CASE dsOf.lower[p].kind \notin {"file", "link"} \/ p \in dsOf.hashFails -> "unknown"
      [] OTHER -> IF Equal(dsOf.lower[p], dsOf.upper[p]) THEN "same" ELSE "other"
HashOne(p) ==
    /\ hashW[p] = "hash"
    /\ \/ hashW' = [hashW EXCEPT ![p] = HashResult(p)] /\ (IF p \in dsOf.hashFails THEN AddErr(p) ELSE NoErr)
       \/ dsCtx /\ hashW' = [hashW EXCEPT ![p] = "unknown"] /\ NoErr
    /\ UNCHANGED <<given, dsSent, dsCls, excQ, comQ, enrQ, hashEnd, excW, comW, dsPend, dsExec, dsPc, dsLeft, dsHandled, dsSeen>>
HashSend(p) ==
    /\ hashW[p] # "hash" /\ hashW' = [q \in DOMAIN hashW \ {p} |-> hashW[q]]
    /\ \/ Len(enrQ) < ComBuf + HashWorkers /\ enrQ' = Append(enrQ, [path |-> p, eq |-> hashW[p]])
       \/ dsCtx /\ UNCHANGED enrQ
    /\ UNCHANGED <<given, dsCtx, dsSent, dsCls, excQ, comQ, hashEnd, excW, comW, dsPend, dsExec, dsPc, dsLeft, dsHandled, dsSeen, dsErrs>>
HashEnds ==
    /\ ~hashEnd /\ dsCls = "end" /\ comQ = <<>> /\ DOMAIN hashW = {} /\ hashEnd' = TRUE
    /\ UNCHANGED <<given, dsCtx, dsSent, dsCls, excQ, comQ, enrQ, hashW, excW, comW, dsPend, dsExec, dsPc, dsLeft, dsHandled,
                   dsSeen, dsErrs>>

-----------------------------------------------------------------------------
\* PredicateHandler and its predicates.
Wants(h, e) ==
    CASE h.only = "all" -> TRUE
      [] h.only = "collapsed" -> e.collapsed
      [] h.only = "changed" -> e.eq = "other"
      [] h.only = "unchanged" -> e.eq = "same"
Fails(h, e) == Wants(h, e) /\ e.path \in h.fails

\* The handlers that see an entry: of a chain those up to the first that fails, of a
\* MultiHandler all.  An error of any of them is the entry's error.
Called(hs, e) == {i \in 1..Len(hs) : Wants(hs[i], e) /\ (dsOf.multi \/ \A k \in 1..(i - 1) : ~Fails(hs[k], e))}
HandlerFails(hs, e) == \E i \in Called(hs, e) : Fails(hs[i], e)
See(to, hs, e) == dsSeen' = dsSeen \cup {<<to, i, e.path>> : i \in Called(hs, e)}

Op(p, all) == [path |-> p, all |-> all]

\* runExclusivePool and its workers: the handler, then Submit, then the counter.
ExclusiveTake ==
    /\ excQ # <<>> /\ excQ' = Tail(excQ)
    /\ \/ dsCtx /\ UNCHANGED excW
       \/ Cardinality(excW) < ExcWorkers /\ excW' = excW \cup {Head(excQ)}
    /\ UNCHANGED <<given, dsCtx, dsSent, dsCls, comQ, enrQ, hashW, hashEnd, comW, dsPend, dsExec, dsPc, dsLeft, dsHandled, dsSeen, dsErrs>>
ExclusiveWork(e) ==
    /\ e \in excW /\ excW' = excW \ {e} /\ See("exclusive", dsOf.exc, e)
    /\ \/ HandlerFails(dsOf.exc, e) /\ AddErr(e.path) /\ UNCHANGED <<dsPend, dsHandled>>
       \/ /\ ~HandlerFails(dsOf.exc, e) /\ NoErr
          /\ dsPend' = dsPend \cup {Op(e.path, e.collapsed)} /\ dsHandled' = dsHandled \cup {<<"exclusive", e.path>>}
    /\ UNCHANGED <<given, dsSent, dsCls, excQ, comQ, enrQ, hashW, hashEnd, comW, dsExec, dsPc, dsLeft>>

\* Variant: what is not known to differ.
RemovesUnlessOther(e) == e.eq # "other"

\* commonPathToBatchOp: only what is known to be the same.
Removes(e) == e.eq = "same"

CommonTake ==
    /\ enrQ # <<>> /\ enrQ' = Tail(enrQ)
    /\ \/ dsCtx /\ UNCHANGED comW
       \/ Cardinality(comW) < ComWorkers /\ comW' = comW \cup {Head(enrQ)}
    /\ UNCHANGED <<given, dsCtx, dsSent, dsCls, excQ, comQ, hashW, hashEnd, excW, dsPend, dsExec, dsPc, dsLeft, dsHandled, dsSeen, dsErrs>>
CommonWork(e) ==
    /\ e \in comW /\ comW' = comW \ {e} /\ See("common", dsOf.com, e)
    /\ \/ HandlerFails(dsOf.com, e) /\ AddErr(e.path) /\ UNCHANGED <<dsPend, dsHandled>>
       \/ /\ ~HandlerFails(dsOf.com, e) /\ NoErr
          /\ dsPend' = IF Removes(e) THEN dsPend \cup {Op(e.path, FALSE)} ELSE dsPend
          /\ dsHandled' = dsHandled \cup {<<"common", e.path>>}
    /\ UNCHANGED <<given, dsSent, dsCls, excQ, comQ, enrQ, hashW, hashEnd, excW, dsExec, dsPc, dsLeft>>

-----------------------------------------------------------------------------
\* Variant: the batch is flushed when the exclusive entries are done.
StagesOverEarly == dsCls = "end" /\ excQ = <<>> /\ excW = {}

\* All stages are over.
StagesOver == dsCls = "end" /\ excQ = <<>> /\ excW = {} /\ hashEnd /\ enrQ = <<>> /\ comW = {}

\* executeBatch of the goroutines executes nothing when the context is done; the ring does not
\* look at it.
Flush ==
    /\ dsPc = "stages" /\ StagesOver /\ dsPc' = "flush" /\ dsPend' = {}
    /\ dsExec' = IF dsCtx /\ ~dsOf.ring THEN {} ELSE dsPend
    /\ UNCHANGED <<given, dsCtx, stageVars, dsLeft, dsHandled, dsSeen, dsErrs>>

\* What an operation finds, and what goes: Remove of one entry, RemoveAll of a subtree, all but
\* entries that cannot be unlinked and the directories they are in.
Hits(o) == {q \in dsLeft : IF o.all THEN Under(q, o.path) ELSE q = o.path}
Goes(o) == {q \in Hits(o) : \A s \in Hits(o) \cap dsOf.stuck : ~Under(s, q)}

\* The ring removes only a directory with RemoveAll.
Refuses(o) == dsOf.ring /\ o.all /\ o.path \in DOMAIN dsOf.upper

\* One operation.  Its error joins those of the run after the batch, too late to abort anything.
Execute(o) ==
    /\ dsPc = "flush" /\ o \in dsExec /\ dsExec' = dsExec \ {o}
    /\ \/ ~Refuses(o) /\ Hits(o) \cap dsOf.stuck = {} /\ dsLeft' = dsLeft \ Goes(o) /\ UNCHANGED dsErrs
       \/ ~Refuses(o) /\ Hits(o) \cap dsOf.stuck # {} /\ dsLeft' = dsLeft \ Goes(o) /\ dsErrs' = dsErrs \cup {o.path}
       \/ Refuses(o) /\ dsErrs' = dsErrs \cup {o.path} /\ UNCHANGED dsLeft
       \/ dsCtx /\ ~dsOf.ring /\ UNCHANGED <<dsLeft, dsErrs>>
    /\ UNCHANGED <<given, dsCtx, stageVars, dsPend, dsPc, dsHandled, dsSeen>>

\* executeBatch's break leaves its select, not its loop (batcher.go:233-242): the operation at
\* which the goroutines saw the cancellation then waits for a slot it never took, and Flush
\* and Run with it, for ever.
Hang ==
    /\ dsPc = "flush" /\ dsCtx /\ ~dsOf.ring /\ dsExec # {} /\ dsPc' = "hung"
    /\ UNCHANGED <<given, dsCtx, stageVars, dsPend, dsExec, dsLeft, dsHandled, dsSeen, dsErrs>>
Done ==
    /\ dsPc = "flush" /\ dsExec = {} /\ dsPc' = "done"
    /\ UNCHANGED <<given, dsCtx, stageVars, dsPend, dsExec, dsLeft, dsHandled, dsSeen, dsErrs>>

DsStep ==
    \/ ClassifyFails \/ ClassifySend \/ ClassifyEnds
    \/ HashTake \/ (\E p \in DOMAIN hashW : HashOne(p) \/ HashSend(p)) \/ HashEnds
    \/ ExclusiveTake \/ (\E e \in excW : ExclusiveWork(e))
    \/ CommonTake \/ (\E e \in comW : CommonWork(e))
    \/ Flush \/ (\E o \in dsExec : Execute(o)) \/ Hang \/ Done
DsNext == DsCancel \/ DsStep
DsSpec == DsInit /\ [][DsNext]_dsVars

-----------------------------------------------------------------------------
\* The run as an instance of what pruning promises.  Err is nil, and OK() true, of a run that
\* ends well and of one that is cut short: Run and executeBatch keep no context error
\* (pipeline.go:131-134, batcher.go:244), "completed without errors" (pipeline.go:29).
Promise == INSTANCE Pruning WITH
    meant <- dsMeant, reach <- dsReach, left <- dsLeft,
    outcome <- CASE dsPc # "done" -> "running"
                 [] dsPc = "done" /\ dsErrs # {} -> "failed"
                 [] dsPc = "done" /\ dsErrs = {} -> IF dsCtx THEN "cut" ELSE "ok"

\* The pipeline removes nothing but what it may, however its stages interleave with a
\* cancellation and with failures, and a run that nobody cancelled and that reports no error
\* has removed all it is meant to.
RemovesAsMeant == Promise!PruningSpec

\* A run that was not cancelled has handled every entry of the walk or reported an error for
\* it: none is lost between the stages, and none is counted that failed.
EveryEntryAccounted ==
    dsPc = "done" /\ ~dsCtx =>
        \A i \in 1..dsSent :
            LET e == dsWalk[i]
                hs == IF e.to = "exclusive" THEN dsOf.exc ELSE dsOf.com
            IN (<<e.to, e.path>> \in dsHandled) # \E k \in 1..Len(hs) : hs[k].only = "all" /\ e.path \in hs[k].fails

\* Each handler of a MultiHandler sees every exclusive entry it wants, and no other, whichever
\* of the others fail.
HandlersSeeAll ==
    dsPc = "done" /\ ~dsCtx /\ dsOf.multi =>
        \A i \in 1..dsSent, k \in 1..Len(dsOf.exc) :
            dsWalk[i].to = "exclusive" =>
                (<<"exclusive", k, dsWalk[i].path>> \in dsSeen <=> Wants(dsOf.exc[k], dsWalk[i]))

-----------------------------------------------------------------------------
(* The set of removals that handlers fill concurrently (pruning_set.go)    *)
(* and the comparison of contents (hasher.go), both against what they are  *)
(* meant to compute.  Each call runs under the set's lock; the walk yields *)
(* each path once.                                                         *)
CONSTANTS PsPaths, PsBytes, PsMaxLen

VARIABLES
    psSet,     \* the entries
    psAdded,   \* every path added since the last Reset
    psOut,     \* what Drain handed out
    psFiles    \* two files to compare

psVars == <<psSet, psAdded, psOut, psFiles>>

Contents == UNION {[1..n -> PsBytes] : n \in 0..PsMaxLen}
PsFile(i, d) == [kind |-> "file", inode |-> i, mtime |-> i, data |-> d]

PsInit == psSet = {} /\ psAdded = {} /\ psOut = {} /\ psFiles \in Contents \X Contents

PsAdd ==
    /\ \E p \in PsPaths \ psAdded, c \in BOOLEAN :
          psSet' = PruneAdd(psSet, Exclusive(p, c)) /\ psAdded' = psAdded \cup {p}
    /\ UNCHANGED <<psOut, psFiles>>
PsDrain == psSet # {} /\ psSet' = {} /\ psOut' = psOut \cup psSet /\ UNCHANGED <<psAdded, psFiles>>
PsReset == psSet # {} /\ psSet' = {} /\ psAdded' = {} /\ psOut' = {} /\ UNCHANGED psFiles
PsNext == PsAdd \/ PsDrain \/ PsReset

\* Whatever the order of the additions and wherever Drain falls between them: no entry lies
\* below a collapsed one, and each path added is an entry or is covered by one.
SetIsMinimal ==
    /\ \A x, y \in psSet : x # y /\ x.collapsed => ~Under(y.path, x.path)
    /\ \A p \in psAdded : \E x \in psSet \cup psOut : x.path = p \/ (x.collapsed /\ Under(p, x.path))

\* Of two files that differ in their times the comparison, in one piece or in parts, says
\* they are equal exactly when their bytes are.
EqualIsExact == Equal(PsFile(1, psFiles[1]), PsFile(2, psFiles[2])) <=> psFiles[1] = psFiles[2]
=============================================================================
