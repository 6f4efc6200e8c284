------------------------------ MODULE DirPruner ------------------------------
(***************************************************************************)
(* dirpruner's Prune (src/pkg/dirpruner/pruner.go): a recursive walk that  *)
(* decides what goes, workers that submit the removals to a batcher, and   *)
(* the batcher's flush when it is closed.                                  *)
(*                                                                         *)
(* A world is [tree, filter, unreadable, unstat, missing, ring]: the       *)
(* directory, its filter, directories that cannot be read, entries that    *)
(* cannot be looked at, whether a required path is missing, and the        *)
(* batcher, a ring or a pool of goroutines.                                *)
(***************************************************************************)
EXTENDS DirTree

CONSTANTS DpWorlds, JobBuf, DpWorkers

\* A directory is what its entries are in.
ASSUME DpAssumption ==
    \A w \in DpWorlds :
        /\ IsFiniteSet(DOMAIN w.tree) /\ w.unstat \subseteq DOMAIN w.tree
        /\ \A p \in DOMAIN w.tree :
             /\ p \in Seq(Nat) /\ p # <<>>
             /\ \A i \in 1..(Len(p) - 1) : SubSeq(p, 1, i) \in DOMAIN w.tree /\ IsDir(w.tree, SubSeq(p, 1, i))

VARIABLES
    dpOf,      \* the world
    dpNames,   \* the names in each of its directories
    dpMeant,   \* what is to be removed
    dpReach,   \* all that may be removed
    dpCtx,     \* the context is done
    dpPc,      \* "check", "walk", "pool", "close", "hung", "done"
    dpStack,   \* the walk: for each directory it is in, the entry it is at and whether it keeps one
    dpJobs,    \* removals in the channel
    dpBusy,    \* removals with a worker
    dpPend,    \* removals in the batcher
    dpExec,    \* removals being executed
    dpLeft,    \* the entries there are
    dpKept,    \* files counted as kept
    dpGone,    \* removals counted
    dpErrs     \* what could not be read or looked at

dpGiven == <<dpOf, dpNames, dpMeant, dpReach>>
dpVars == <<dpGiven, dpCtx, dpPc, dpStack, dpJobs, dpBusy, dpPend, dpExec, dpLeft, dpKept, dpGone, dpErrs>>

Dirs(w) == {<<>>} \cup {p \in DOMAIN w.tree : IsDir(w.tree, p)}

\* What stays: an entry that matches by itself, below directories the filter lets pass, and
\* every directory above one.
MatchesDown(w, p) == Include(w.filter, p, FALSE) /\ \A i \in 1..(Len(p) - 1) : Include(w.filter, SubSeq(p, 1, i), TRUE)
Stays(w, p) == \E q \in Below(w.tree, p) : MatchesDown(w, q)

\* What the walk can see: it looks at no entry it cannot, and into no directory it cannot read.
Seen(w, p) == Prefixes(p) \cap w.unstat = {} /\ (Prefixes(p) \ {p}) \cap w.unreadable = {}

\* What may go besides: all of a directory below which the walk can see nothing that matches.
\* What matches there and it cannot see goes too, though "matching entries are left untouched"
\* (pruner.go:132).
Blind(w) ==
    {p \in DOMAIN w.tree : \E a \in Prefixes(p) \ {<<>>} :
        Seen(w, a) /\ \A q \in Below(w.tree, a) : MatchesDown(w, q) => ~Seen(w, q)}

DpInit ==
    /\ dpOf \in DpWorlds /\ dpNames = [d \in Dirs(dpOf) |-> Names(dpOf.tree, d)]
    /\ dpMeant = {p \in DOMAIN dpOf.tree : ~Stays(dpOf, p)} /\ dpReach = dpMeant \cup Blind(dpOf)
    /\ dpCtx = FALSE /\ dpPc = "check" /\ dpStack = <<>> /\ dpJobs = <<>> /\ dpBusy = {}
    /\ dpPend = {} /\ dpExec = {} /\ dpLeft = DOMAIN dpOf.tree /\ dpKept = {} /\ dpGone = {} /\ dpErrs = {}

DpCancel ==
    /\ ~dpCtx /\ dpPc \notin {"hung", "done"} /\ dpCtx' = TRUE
    /\ UNCHANGED <<dpGiven, dpPc, dpStack, dpJobs, dpBusy, dpPend, dpExec, dpLeft, dpKept, dpGone, dpErrs>>

\* checkRequiredPaths, before anything else.
DpCheck ==
    /\ dpPc = "check"
    /\ \/ dpOf.missing /\ dpPc' = "done" /\ dpErrs' = {<<>>} /\ UNCHANGED dpStack
       \/ ~dpOf.missing /\ dpPc' = "walk" /\ dpStack' = <<[dir |-> <<>>, at |-> 0, keep |-> FALSE]>> /\ UNCHANGED dpErrs
    /\ UNCHANGED <<dpGiven, dpCtx, dpJobs, dpBusy, dpPend, dpExec, dpLeft, dpKept, dpGone>>

-----------------------------------------------------------------------------
Deepest == dpStack[Len(dpStack)]
Above == SubSeq(dpStack, 1, Len(dpStack) - 1)
AtEntry == Append(Deepest.dir, dpNames[Deepest.dir][Deepest.at])

\* enqueue: into the channel, or dropped when the context is done.
Enqueue(p, all) ==
    \/ Len(dpJobs) < JobBuf /\ dpJobs' = Append(dpJobs, [path |-> p, all |-> all])
    \/ dpCtx /\ UNCHANGED dpJobs

\* The directory is read on the first step in it; at > 0 is the entry it is at.
ReadDir ==
    /\ dpPc = "walk" /\ dpStack # <<>> /\ Deepest.at = 0 /\ ~dpCtx /\ Deepest.dir \notin dpOf.unreadable
    /\ dpStack' = [dpStack EXCEPT ![Len(dpStack)].at = 1]
    /\ UNCHANGED <<dpGiven, dpCtx, dpPc, dpJobs, dpBusy, dpPend, dpExec, dpLeft, dpKept, dpGone, dpErrs>>

AtAnEntry == dpPc = "walk" /\ dpStack # <<>> /\ ~dpCtx /\ Deepest.at \in 1..Len(dpNames[Deepest.dir])
Visiting == AtAnEntry /\ AtEntry \notin dpOf.unstat
NextEntry(keep) == Above \o <<[Deepest EXCEPT !.at = @ + 1, !.keep = @ \/ keep]>>

\* An entry that cannot be looked at is neither kept nor removed, and the walk goes on.
VisitUnstat ==
    /\ AtAnEntry /\ AtEntry \in dpOf.unstat
    /\ dpErrs' = dpErrs \cup {AtEntry} /\ dpStack' = NextEntry(FALSE)
    /\ UNCHANGED <<dpGiven, dpCtx, dpPc, dpJobs, dpBusy, dpPend, dpExec, dpLeft, dpKept, dpGone>>
VisitNoMatch ==
    /\ Visiting /\ ~Include(dpOf.filter, AtEntry, IsDir(dpOf.tree, AtEntry))
    /\ Enqueue(AtEntry, IsDir(dpOf.tree, AtEntry)) /\ dpStack' = NextEntry(FALSE)
    /\ UNCHANGED <<dpGiven, dpCtx, dpPc, dpBusy, dpPend, dpExec, dpLeft, dpKept, dpGone, dpErrs>>
VisitFile ==
    /\ Visiting /\ ~IsDir(dpOf.tree, AtEntry) /\ Include(dpOf.filter, AtEntry, FALSE)
    /\ dpKept' = dpKept \cup {AtEntry} /\ dpStack' = NextEntry(TRUE)
    /\ UNCHANGED <<dpGiven, dpCtx, dpPc, dpJobs, dpBusy, dpPend, dpExec, dpLeft, dpGone, dpErrs>>
VisitDir ==
    /\ Visiting /\ IsDir(dpOf.tree, AtEntry) /\ Include(dpOf.filter, AtEntry, TRUE)
    /\ dpStack' = Append(dpStack, [dir |-> AtEntry, at |-> 0, keep |-> FALSE])
    /\ UNCHANGED <<dpGiven, dpCtx, dpPc, dpJobs, dpBusy, dpPend, dpExec, dpLeft, dpKept, dpGone, dpErrs>>

\* A directory stays when it matches by itself or keeps something.
Staying(p, keep) == keep \/ Include(dpOf.filter, p, FALSE)

\* walkDir returns: at the end of the entries, on an error, or when the context is done.
\* The caller removes a directory that does not stay, also one whose walk was broken off.
LeaveDir ==
    /\ dpPc = "walk" /\ dpStack # <<>>
    /\ \/ Deepest.at = 0 /\ ~dpCtx /\ Deepest.dir \in dpOf.unreadable /\ dpErrs' = dpErrs \cup {Deepest.dir}
       \/ Deepest.at > Len(dpNames[Deepest.dir]) /\ UNCHANGED dpErrs
       \/ dpCtx /\ UNCHANGED dpErrs
    /\ IF Len(dpStack) = 1 THEN dpStack' = <<>> /\ UNCHANGED dpJobs
       ELSE LET stay == Staying(Deepest.dir, Deepest.keep) IN
            /\ dpStack' = [Above EXCEPT ![Len(Above)].at = @ + 1, ![Len(Above)].keep = @ \/ stay]
            /\ IF stay THEN UNCHANGED dpJobs ELSE Enqueue(Deepest.dir, TRUE)
    /\ UNCHANGED <<dpGiven, dpCtx, dpPc, dpBusy, dpPend, dpExec, dpLeft, dpKept, dpGone>>
WalkEnds ==
    /\ dpPc = "walk" /\ dpStack = <<>> /\ dpPc' = "pool"
    /\ UNCHANGED <<dpGiven, dpCtx, dpStack, dpJobs, dpBusy, dpPend, dpExec, dpLeft, dpKept, dpGone, dpErrs>>

-----------------------------------------------------------------------------
\* Variant: the worker does not look at the context.
TakesAlways(j) == dpBusy' = dpBusy \cup {j}

\* A worker takes a removal, and drops it when the context is done.
TakesJob(j) == dpBusy' = IF dpCtx THEN dpBusy ELSE dpBusy \cup {j}
WorkerTakes ==
    /\ dpJobs # <<>> /\ Cardinality(dpBusy) < DpWorkers /\ dpJobs' = Tail(dpJobs) /\ TakesJob(Head(dpJobs))
    /\ UNCHANGED <<dpGiven, dpCtx, dpPc, dpStack, dpPend, dpExec, dpLeft, dpKept, dpGone, dpErrs>>
WorkerSubmits ==
    /\ \E j \in dpBusy : dpBusy' = dpBusy \ {j} /\ dpPend' = dpPend \cup {j} /\ dpGone' = dpGone \cup {j.path}
    /\ UNCHANGED <<dpGiven, dpCtx, dpPc, dpStack, dpJobs, dpExec, dpLeft, dpKept, dpErrs>>

\* poolWg.Wait.
PoolOver == dpJobs = <<>> /\ dpBusy = {}

\* The batcher's Close flushes it: as DirSync's Flush, and it hangs as that does.
DpClose ==
    /\ dpPc = "pool" /\ PoolOver /\ dpPc' = "close" /\ dpPend' = {}
    /\ dpExec' = IF dpCtx /\ ~dpOf.ring THEN {} ELSE dpPend
    /\ UNCHANGED <<dpGiven, dpCtx, dpStack, dpJobs, dpBusy, dpLeft, dpKept, dpGone, dpErrs>>
DpExecute ==
    /\ dpPc = "close"
    /\ \E o \in dpExec :
         /\ dpExec' = dpExec \ {o}
         /\ \/ dpLeft' = dpLeft \ (IF o.all THEN {q \in dpLeft : Under(q, o.path)} ELSE {o.path})
            \/ dpCtx /\ ~dpOf.ring /\ UNCHANGED dpLeft
    /\ UNCHANGED <<dpGiven, dpCtx, dpPc, dpStack, dpJobs, dpBusy, dpPend, dpKept, dpGone, dpErrs>>
DpHang ==
    /\ dpPc = "close" /\ dpCtx /\ ~dpOf.ring /\ dpExec # {} /\ dpPc' = "hung"
    /\ UNCHANGED <<dpGiven, dpCtx, dpStack, dpJobs, dpBusy, dpPend, dpExec, dpLeft, dpKept, dpGone, dpErrs>>
DpDone ==
    /\ dpPc = "close" /\ dpExec = {} /\ dpPc' = "done"
    /\ UNCHANGED <<dpGiven, dpCtx, dpStack, dpJobs, dpBusy, dpPend, dpExec, dpLeft, dpKept, dpGone, dpErrs>>

DpStep ==
    \/ DpCheck \/ ReadDir \/ VisitUnstat \/ VisitNoMatch \/ VisitFile \/ VisitDir \/ LeaveDir \/ WalkEnds
    \/ WorkerTakes \/ WorkerSubmits \/ DpClose \/ DpExecute \/ DpHang \/ DpDone
DpNext == DpCancel \/ DpStep
DpSpec == DpInit /\ [][DpNext]_dpVars

-----------------------------------------------------------------------------
\* The run as an instance of what pruning promises.  OK() is true of a run that ends well and of
\* one that is cut short (pruner.go:104, 172), "completed without any errors".
PrunerPromise == INSTANCE Pruning WITH
    meant <- dpMeant, reach <- dpReach, left <- dpLeft,
    outcome <- CASE dpPc # "done" -> "running"
                 [] dpPc = "done" /\ dpErrs # {} -> "failed"
                 [] dpPc = "done" /\ dpErrs = {} -> IF dpCtx THEN "cut" ELSE "ok"

\* Nothing that stays is removed, but where the walk cannot see it: also when the walk of a
\* directory is broken off by a cancellation and its parent takes it to keep nothing.  A run
\* that nobody cancelled and that reports no error has removed all the rest.
PrunesAsMeant == PrunerPromise!PruningSpec

\* The result of a run that was not cancelled or cut short counts each file that is still
\* there, and no file that was removed.
KeptAccounts ==
    dpPc = "done" /\ ~dpCtx /\ dpErrs = {} =>
        /\ dpKept = {p \in dpLeft : ~IsDir(dpOf.tree, p)}
        /\ dpGone \cap dpLeft = {} /\ DOMAIN dpOf.tree \ dpLeft = UNION {Below(dpOf.tree, p) : p \in dpGone}
=============================================================================
