------------------------------- MODULE MCFiles -------------------------------
(***************************************************************************)
(* The packages that watch, hash, compare and prune directory trees:       *)
(* fswatch, layermerkle, dirsync and dirpruner, one at a time.             *)
(***************************************************************************)
EXTENDS MerkleEngine, PersistentCache, StatCache, MerkleOps, FSWatch, FSOverlay,
        DirSync, DirPruner, DirBatch

CONSTANTS e1, e2, e3, v1, v2, base, mid, upperLayer, file1, file2, h1, h2, r1, r2, wr1, wr2, c1, c2, i1, i2
VARIABLES
    mkPart,    \* of layermerkle: the engine, the log, the lookups or the computations
    fwPart,    \* of fswatch: the watcher, the enrichment or its computations
    ddPart     \* of dirsync: the pipeline, the set of removals or the comparison, dirpruner, a batcher

-----------------------------------------------------------------------------
MCLayerFile == [l \in Layers |-> [p \in Paths |->
    CASE l = base -> "present"
      [] l = mid -> IF p = file1 THEN "present" ELSE "whiteout"
      [] OTHER -> IF p = file1 THEN "absent" ELSE "opaque"]]
Access(v, s, p, r) == [vertex |-> v, stack |-> s, path |-> p, read |-> r]
Three(a, b, c) == [e \in Events |-> IF e = e1 THEN a ELSE IF e = e2 THEN b ELSE c]
\* Two requests for one file in one stack and one in another stack; three stacks over one
\* file; a file hidden by a whiteout, one by an opaque directory; and, with Stop, Cancel
\* and FinalizeVertex, two reads of one vertex and an event that is no read.
Coalesce ==
    {Three(Access(v1, <<base, mid>>, file1, TRUE), Access(v1, <<base, mid>>, file1, TRUE), Access(v2, <<base, upperLayer>>, file1, TRUE)),
     Three(Access(v1, <<base>>, file1, TRUE), Access(v1, <<base, upperLayer>>, file1, TRUE), Access(v2, <<mid, upperLayer>>, file2, TRUE)),
     Three(Access(v1, <<base, upperLayer>>, file1, TRUE), Access(v1, <<base>>, file1, TRUE), Access(v2, <<base, mid>>, file2, TRUE))}
Lifecycle == Three(Access(v1, <<base>>, file1, TRUE), Access(v1, <<base>>, file1, TRUE), Access(v2, <<base>>, file1, FALSE))
MCEventWorlds == Coalesce \cup {Lifecycle}
ASSUME MCToldApart == ToldApart

MCWalKeys == {<<base, file1>>, <<upperLayer, file1>>}
StatFile(l, p) == [layer |-> l, path |-> p]
MCStatFiles == {StatFile(base, file1), StatFile(base, file2), StatFile(upperLayer, file1)}
MCInode == [x \in MCStatFiles |-> IF x.layer = base THEN i1 ELSE i2]

\* Trees of up to three leaves, among them a file that is also a directory; documents with
\* two vertices; layers with whiteouts at every depth.
TreeLeaf(p, h) == [path |-> p, hash |-> h]
LeafSeqs == UNION {[1..n -> [path : {<<1>>, <<1, 2>>, <<2>>}, hash : {h1, h2}]] : n \in 0..2}
    \cup {<<TreeLeaf(<<1, 2>>, h1), TreeLeaf(<<2>>, h2), TreeLeaf(<<1, 1>>, h1)>>,
          <<TreeLeaf(<<1, 1>>, h2), TreeLeaf(<<1, 2>>, h1), TreeLeaf(<<2>>, h2)>>}
Docs == UNION {[d -> [root : {r1, r2}, count : 1..3]] : d \in SUBSET {v1, v2}}
MCInputs ==
    [op : {"diff"}, a : LeafSeqs, b : LeafSeqs]
    \cup [op : {"provenance"}, a : Docs, b : Docs, order : {<<v1, v2>>, <<v2, v1>>}]
    \cup [op : {"warm"}, doc : [route : {"provenance", "forest"}, typed : BOOLEAN, digestsValid : BOOLEAN,
             includeFiles : BOOLEAN, registry : SUBSET {base, upperLayer},
             leaves : SUBSET [path : {<<1>>}, hash : {h1, NoHash}, owner : {base, NoHash}]]]
    \cup [op : {"whiteout"}, path : {<<1>>, <<1, 2>>, <<1, 2, 1>>},
             layer : SUBSET [dir : {<<>>, <<1>>, <<1, 2>>}, kind : {"whiteout", "opaque", "meta"}, name : {2}]]
    \cup [op : {"stack"}, stack : {<<base>>, <<base, upperLayer>>}]

-----------------------------------------------------------------------------
MkInit ==
    /\ mkPart \in {"off", "engine", "wal", "stat", "ops"}
    /\ mkPart # "engine" => evOf = Lifecycle
    /\ mkPart # "stat" => statKind = "map"
    /\ statDisk = [k \in StatKeys |-> FALSE]
    /\ mkPart # "ops" => opIn = [op |-> "stack", stack |-> <<base>>]
    /\ EngInit /\ WalInit /\ StatInit /\ OpInit

Eng(A) ==
    /\ mkPart = "engine" /\ UNCHANGED <<mkPart, walVars, statVars, opVars>> /\ A
    /\ evOf \in Coalesce => engStop' = "no" /\ ~engCtx' /\ sealing' = sealing
\* The second goroutine only deletes one key, which the first also sets and deletes (the
\* later sets change its hash); the other key is only set.
Wal(A) ==
    /\ mkPart = "wal" /\ UNCHANGED <<mkPart, engVars, statVars, opVars>> /\ A
    /\ \A w \in WalWriters : walJob'[w] # walJob[w] /\ walJob'[w] # NoJob =>
          /\ walJob'[w].hash = IF walJob'[w].del \/ walJob'[w].key[1] = upperLayer \/ walLog = <<>> THEN h1 ELSE h2
          /\ walJob'[w].del => walJob'[w].key[1] = base
          /\ w = wr2 => walJob'[w].del
\* The second caller asks for one file only.
Stat(A) ==
    /\ mkPart = "stat" /\ UNCHANGED <<mkPart, engVars, walVars, opVars>> /\ A
    /\ statCall'[c2].file \in {NoStat, StatFile(base, file1)}
Ops(A) == mkPart = "ops" /\ A /\ UNCHANGED <<mkPart, engVars, walVars, statVars>>
mkVars == <<mkPart, engVars, walVars, statVars, opVars>>
MkNext == Eng(EngNext) \/ Wal(WalNext) \/ Stat(StatNext) \/ Ops(Compute)

-----------------------------------------------------------------------------
\* The caches answer with what is current, across evictions, invalidations, crashes and restarts.
CachesSound == WalTypeOK /\ RestartKeepsLast /\ LookupTypeOK /\ HitIsCurrent

-----------------------------------------------------------------------------
\* Three events each: a failing transformer and handler with an overflow, a panic with a
\* file that is gone, and events the filters refuse.
Ev(ops, p, t, hs) == [ops |-> ops, path |-> p, transform |-> t, handlers |-> hs]
Plain == Ev({"open"}, "inside", FALSE, <<"ok", "ok">>)
MCFsWorlds == {<<Plain, Ev({"open"}, "inside", TRUE, <<"err", "ok">>), Ev({"overflow"}, "inside", FALSE, <<"ok", "ok">>)>>,
             <<Ev({"open"}, "inside", FALSE, <<"panic", "ok">>), Ev({"open"}, "gone", FALSE, <<"ok", "ok">>), Plain>>,
             <<Ev({"open", "modify"}, "inside", FALSE, <<"ok", "ok">>), Ev({"access"}, "outside", FALSE, <<"ok", "ok">>),
               Ev({"access"}, "inside", TRUE, <<"err", "err">>)>>}
Flt(op, args) == [op |-> op, args |-> args]
ReadOnlyPipe == <<Flt("readOnly", {}), Flt("noOverflow", {}), Flt("prefix", {"inside"})>>
MixedPipe == <<Flt("any", {Flt("mask", {"open"}), Flt("exact", {"access"}), Flt("upper", {})}), Flt("exclude", {"gone"})>>
Pp(m, c, a, fl) == [mids |-> m, comp |-> c, async |-> a, filters |-> fl]
MCPipes == {Pp(<<>>, "chain", FALSE, ReadOnlyPipe), Pp(<<"metrics", "recovery">>, "multi", TRUE, ReadOnlyPipe),
            Pp(<<"recovery", "logging", "metrics">>, "predicate", FALSE, MixedPipe)}

\* All stacks of at most three layers, and all parents of three snapshots.
Layer == {[dir |-> "absent", file |-> "absent"], [dir |-> "whiteout", file |-> "absent"]}
         \cup [dir : {"dir", "opaque"}, file : {"absent", "file", "whiteout"}]
MCStacks == {[upper |-> u, lowers |-> l] : u \in Layer \cup {NoLayer}, l \in {<<x>> : x \in Layer} \cup (Layer \X Layer)}
OneStack == CHOOSE s \in MCStacks : TRUE
MCTrees == [{"a", "b", "c"} -> {"a", "b", "c", "d", NoKey}]
OneChain == [k \in {"a", "b", "c"} |-> NoKey]
Mnt(t, ls) == [type |-> t, lowers |-> ls, upper |-> NoLayer, source |-> NoLayer]
MCMountSets == {<<Mnt("proc", <<>>), Mnt("bind", <<>>)>>, <<Mnt("overlay", <<>>)>>}

-----------------------------------------------------------------------------
AnEvent == fsOf = (CHOOSE x \in FsWorlds : TRUE) /\ fsPipe = (CHOOSE x \in FsPipes : TRUE)
AnOverlay == ovStack = OneStack /\ ovTree = OneChain
NoWorker == oPc = [w \in OvWorkers |-> "end"] /\ mounted = <<>> /\ ovMounts = <<Mnt("overlay", <<>>)>>
FwInit ==
    /\ \/ fwPart = "off" /\ AnEvent /\ AnOverlay /\ NoWorker
       \/ fwPart = "watch" /\ AnOverlay /\ NoWorker
       \/ fwPart = "key" /\ AnEvent /\ AnOverlay /\ oPc = [w \in OvWorkers |-> "key"] /\ mounted = <<>>
       \/ /\ fwPart = "dir" /\ AnEvent /\ AnOverlay /\ oPc = [w \in OvWorkers |-> "dir"]
          /\ ovMounts = <<Mnt("overlay", <<>>)>>
       \/ fwPart = "pure" /\ AnEvent /\ NoWorker /\ ovTree = OneChain
       \/ fwPart = "pure" /\ AnEvent /\ NoWorker /\ ovStack = OneStack
    /\ FsInit /\ OvInit
fwVars == <<fwPart, fsVars, ovVars>>
OfWatch(A) == fwPart = "watch" /\ A /\ UNCHANGED <<fwPart, ovVars>>
\* A pipeline has one enricher, whose workers resolve snapshot keys or merged directories.
OfEnrich(A) ==
    /\ fwPart \in {"key", "dir"} /\ A /\ UNCHANGED <<fwPart, fsVars>>
    /\ IF fwPart = "key" THEN UNCHANGED mounted ELSE UNCHANGED snapVer
FwNext == OfWatch(FsNext) \/ OfEnrich(OvNext)

-----------------------------------------------------------------------------
\* The watcher and its pipeline account for every event and descriptor, through panics, errors
\* and cancellation; enrichment attributes a file to the layer overlayfs takes it from.
WatchSound ==
    /\ FsTypeOK /\ ResultAccounts /\ MiddlewareHolds /\ MultiSeesAll /\ DescriptorsClosed
    /\ OneOverlayPerKey /\ MountedIsFound /\ LayerIsProvider /\ ChainIsAncestry

-----------------------------------------------------------------------------
\* dirsync and dirpruner on small trees.
F(i, t, d) == [kind |-> "file", inode |-> i, mtime |-> t, data |-> d]
D == [kind |-> "dir", inode |-> 0, mtime |-> 0, data |-> <<>>]
L(t) == [kind |-> "link", inode |-> 9, mtime |-> 0, data |-> t]
NoFilter == [include |-> {}, exclude |-> {}, names |-> {}]

\* Lower: 1 same bytes, 2/1 changed, 3 only below, 4 a link; upper has 2/2 of its own.
Lower1 == (<<1>> :> F(1, 1, <<1>>)) @@ (<<2>> :> D) @@ (<<2, 1>> :> F(2, 1, <<1, 0>>))
          @@ (<<3>> :> D) @@ (<<3, 1>> :> F(3, 1, <<>>))
Upper1 == (<<1>> :> F(4, 2, <<1>>)) @@ (<<2>> :> D) @@ (<<2, 1>> :> F(5, 2, <<1, 1>>)) @@ (<<2, 2>> :> F(6, 1, <<>>))
Lower2 == (<<1>> :> L(1)) @@ (<<2>> :> L(1)) @@ (<<3>> :> D) @@ (<<3, 1>> :> F(1, 1, <<0>>)) @@ (<<3, 2>> :> F(2, 1, <<0>>))
Upper2 == (<<1>> :> L(1)) @@ (<<2>> :> L(2)) @@ (<<3>> :> D) @@ (<<3, 1>> :> F(1, 2, <<0>>))
\* A directory of the lower tree that is a file in the upper one.
Lower3 == (<<1>> :> D) @@ (<<1, 1>> :> F(1, 1, <<>>)) @@ (<<2>> :> F(2, 1, <<>>))
Upper3 == <<1>> :> F(3, 1, <<>>)
H(only, fails) == [only |-> only, fails |-> fails]
DsWorld(l, u, f) == [lower |-> l, upper |-> u, filter |-> f, missing |-> FALSE, walkFails |-> 9, hashFails |-> {}, stuck |-> {},
                     exc |-> <<>>, com |-> <<>>, multi |-> FALSE, abort |-> FALSE, ring |-> FALSE]
MCDsWorlds ==
    LET w1 == DsWorld(Lower1, Upper1, NoFilter)
        w2 == DsWorld(Lower2, Upper2, NoFilter)
    IN {[w1 EXCEPT !.ring = r] : r \in BOOLEAN}
       \cup {[DsWorld(Lower3, Upper3, NoFilter) EXCEPT !.ring = r] : r \in BOOLEAN}
       \cup {[w1 EXCEPT !.stuck = {<<3, 1>>}, !.ring = r] : r \in BOOLEAN}
       \cup {[w1 EXCEPT !.hashFails = {<<1>>}, !.exc = <<H("all", {<<3>>})>>, !.abort = a] : a \in BOOLEAN}
       \cup {[w2 EXCEPT !.exc = <<H("all", {<<3, 2>>}), H("collapsed", {}), H("all", {})>>, !.multi = m,
                        !.com = <<H("changed", {}), H("unchanged", {}), H("all", {<<2>>})>>] : m \in BOOLEAN}
       \cup {[w1 EXCEPT !.filter = [NoFilter EXCEPT !.names = {1}, !.exclude = {<<1>>}]],
             [w1 EXCEPT !.filter.exclude = {<<3, 1>>}],
             [w1 EXCEPT !.missing = TRUE], [w1 EXCEPT !.walkFails = 2, !.com = <<H("all", {<<2, 1>>})>>],
             w2, [w2 EXCEPT !.filter = [NoFilter EXCEPT !.include = {<<3, 2>>, <<1>>}]]}

\* Whatever the trees over three paths and the filter: the walk is right.
NoEntry == [kind |-> "none"]
SmallTrees(es) ==
    LET Tree(t) == [p \in {q \in DOMAIN t : t[q] # NoEntry} |-> t[p]]
    IN {Tree(t) : t \in {u \in [{<<1>>, <<1, 1>>, <<2>>} -> es \cup {NoEntry}] : u[<<1, 1>>] # NoEntry => u[<<1>>] = D}}
SmallWorlds ==
    LET pats == SUBSET {<<1>>, <<1, 1>>, <<2>>}
    IN [lower : SmallTrees({F(1, 1, <<1>>), D}), upper : SmallTrees({F(2, 2, <<1>>), F(3, 2, <<0>>), D}),
        filter : [include : pats, exclude : pats, names : {{}, {1}}], ring : BOOLEAN]
ASSUME WalksAreRight == \A w \in SmallWorlds \cup DsWorlds : WalkIsRight(w)

Tree1 == (<<1>> :> F(1, 1, <<>>)) @@ (<<2>> :> D) @@ (<<2, 1>> :> F(2, 1, <<>>)) @@ (<<2, 2>> :> D) @@ (<<2, 2, 3>> :> F(3, 1, <<>>))
         @@ (<<3>> :> D) @@ (<<3, 2>> :> F(4, 1, <<>>))
DpWorld(f) == [tree |-> Tree1, filter |-> f, unreadable |-> {}, unstat |-> {}, missing |-> FALSE, ring |-> FALSE]
MCDpWorlds ==
    LET w1 == DpWorld([NoFilter EXCEPT !.names = {3}])
        w2 == DpWorld([NoFilter EXCEPT !.include = {<<2, 2>>}])
    IN {[w1 EXCEPT !.ring = r] : r \in BOOLEAN}
       \cup {[w1 EXCEPT !.unstat = {p}] : p \in {<<2, 2>>, <<2, 2, 3>>}}
       \cup {[w1 EXCEPT !.unreadable = {<<2, 2>>}], w2, [w2 EXCEPT !.unreadable = {<<2, 2>>}], [w2 EXCEPT !.missing = TRUE],
             DpWorld([NoFilter EXCEPT !.names = {1}, !.exclude = {<<2, 2>>}])}

MCDbWorlds ==
    {[calls |-> c, autoAt |-> a, cancels |-> k] :
        c \in {<<<<"submit", "submit", "flush">>, <<"submit", "close">>>>, <<<<"submit", "close">>, <<"submit", "submit", "close">>>>},
        a \in {0, 2}, k \in BOOLEAN}

Answers == {"ok", "enoent", "enotempty", "einval", "eio"}
RingWorld(s, r, c) == [ops |-> [i \in 1..3 |-> IF s = i THEN "stuck" ELSE "plain"], results |-> r, chunks |-> c, setup |-> TRUE]
MCBrWorlds ==
    {RingWorld(s, r, c) : s \in 0..1, r \in [1..3 -> Answers \ {"enoent"}], c \in {"all", "some", "early", "none"} \X {"all", "early", "none"}}
    \cup {[RingWorld(1, [i \in 1..3 |-> "ok"], <<"all", "all">>) EXCEPT !.setup = FALSE]}

MCPsPaths == {<<1>>, <<1, 1>>, <<1, 2>>, <<1, 1, 1>>, <<2>>}

-----------------------------------------------------------------------------
NoSync == dsOf = CHOOSE w \in DsWorlds : TRUE
NoPrune == dpOf = CHOOSE w \in DpWorlds : TRUE
NoBatch == dbOf = CHOOSE w \in DbWorlds : TRUE
NoRing == brOf = CHOOSE w \in BrWorlds : TRUE
NoFiles == psFiles = <<<<>>, <<>>>>
DdInit ==
    /\ \/ ddPart \in {"off", "set"} /\ NoSync /\ NoPrune /\ NoBatch /\ NoRing /\ NoFiles
       \/ ddPart = "sync" /\ NoPrune /\ NoBatch /\ NoRing /\ NoFiles
       \/ ddPart = "prune" /\ NoSync /\ NoBatch /\ NoRing /\ NoFiles
       \/ ddPart = "batch" /\ NoSync /\ NoPrune /\ NoRing /\ NoFiles
       \/ ddPart = "ring" /\ NoSync /\ NoPrune /\ NoBatch /\ NoFiles
       \/ ddPart = "equal" /\ NoSync /\ NoPrune /\ NoBatch /\ NoRing
    /\ DsInit /\ DpInit /\ DbInit /\ BrInit /\ PsInit

ddVars == <<ddPart, dsVars, dpVars, dbVars, brVars, psVars>>
Sync(A) == ddPart = "sync" /\ A /\ UNCHANGED <<ddPart, dpVars, dbVars, brVars, psVars>>
Prune(A) == ddPart = "prune" /\ A /\ UNCHANGED <<ddPart, dsVars, dbVars, brVars, psVars>>
Batch(A) == ddPart = "batch" /\ A /\ UNCHANGED <<ddPart, dsVars, dpVars, brVars, psVars>>
Ring(A) == ddPart = "ring" /\ A /\ UNCHANGED <<ddPart, dsVars, dpVars, dbVars, psVars>>
Removals(A) == ddPart = "set" /\ A /\ UNCHANGED <<ddPart, dsVars, dpVars, dbVars, brVars>>
DdNext == Sync(DsNext) \/ Prune(DpNext) \/ Batch(DbNext) \/ Ring(BrNext) \/ Removals(PsNext)
DdProgress == Sync(DsStep) \/ Prune(DpStep) \/ Batch(DbStep)

-----------------------------------------------------------------------------
Hung ==
    \/ ddPart = "sync" /\ dsPc = "hung" /\ dsCtx /\ ~dsOf.ring
    \/ ddPart = "prune" /\ dpPc = "hung" /\ dpCtx /\ ~dpOf.ring
DdEnded ==
    /\ ddPart = "sync" => dsPc = "done" \/ Hung
    /\ ddPart = "prune" => dpPc = "done" \/ Hung
    /\ ddPart = "batch" /\ ~dbOf.cancels => \A c \in Callers : Returned(c)

\* Every entry of a walk is accounted for by whoever handles, keeps or collapses it, every
\* removal it batches by the batcher that takes it, and files are compared exactly.
EntriesAccounted ==
    /\ DsTypeOK /\ EveryEntryAccounted /\ HandlersSeeAll /\ KeptAccounts
    /\ SetIsMinimal /\ EqualIsExact /\ BatchesSound

-----------------------------------------------------------------------------
mcVars == <<mkVars, fwVars, ddVars>>
MCInit ==
    /\ \/ fwPart = "off" /\ ddPart = "off"
       \/ mkPart = "off" /\ ddPart = "off"
       \/ mkPart = "off" /\ fwPart = "off"
    /\ FwInit /\ DdInit /\ MkInit

Merkle(A) == mkPart # "off" /\ A /\ UNCHANGED <<fwVars, ddVars>>
Watching(A) == fwPart # "off" /\ A /\ UNCHANGED <<mkVars, ddVars>>
Syncing(A) == ddPart # "off" /\ A /\ UNCHANGED <<mkVars, fwVars>>
MCNext == Merkle(MkNext) \/ Watching(FwNext) \/ Syncing(DdNext)
MCSpec ==
    /\ MCInit /\ [][MCNext]_mcVars
    /\ WF_mcVars(Merkle(Eng(EngProgress)))
    /\ WF_mcVars(Watching(OfWatch(FsProgress)))
    /\ WF_mcVars(Syncing(DdProgress))

WatchDone == pPc = "done" \/ pCrashed
Stopped == fsCtx \/ outClosed
\* Whatever fails and however the goroutines interleave: every event the engine accepted is
\* processed or dropped (unless Submit has panicked); RunSync returns once its context is
\* cancelled or its channel closed; the pipeline's Run and dirpruner's Prune return, but for a
\* cancellation during the goroutines' flush, in which they may hang (batcher.go:233-242,
\* against pipeline.go:111-112); and, when nothing is cancelled, every call of a batcher does.
CallsEnd ==
    ((\E e \in Events : Accepted(e)) \/ Stopped \/ ddPart # "off") ~>
        /\ engPanic \/ \A e \in Events : ~Accepted(e)
        /\ Stopped => WatchDone
        /\ DdEnded
=============================================================================
