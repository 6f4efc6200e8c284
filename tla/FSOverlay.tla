------------------------------ MODULE FSOverlay ------------------------------
(***************************************************************************)
(* Overlay enrichment of fswatch events (src/pkg/fswatch/overlay.go,       *)
(* overlay_linux.go, overlay_parser.go, src/pkg/fswatch/snapshot): how the *)
(* layers of an overlay are found from mounts, which layer an event is     *)
(* attributed to, and the two caches that workers share.                   *)
(*                                                                         *)
(* A layer is what it holds for one watched path: [dir, file], its entry   *)
(* for the parent directory and for the file.                              *)
(***************************************************************************)
EXTENDS Naturals, Sequences, SequencesExt, FiniteSets

CONSTANTS
    Stacks,        \* overlays to resolve: [upper: a layer or NoLayer, lowers: layers]
    MountSets,     \* containerd mounts of a snapshot: sequences of [type, lowers, upper, source]
    SnapTrees,     \* snapshotters: key -> parent, NoKey at the root, "missing" for none
    OvWorkers,     \* pipeline workers that enrich an event each
    OvKeys,        \* snapshot keys
    MergedDirs,    \* mount points
    NoLayer, NoKey, NoInfo,
    MaxMounts      \* bound: how often the host's mounts change

VARIABLES
    ovStack,   \* the overlay of the layer lookup
    ovMounts,  \* the mounts of the mount lookup
    ovTree,    \* the snapshotter's parents
    snapVer,   \* key -> the mounts the snapshotter would give now (a version)
    keyCache,  \* SnapshotterEnricher.cache: key -> version
    dirCache,  \* ContainerdEnricher.cache: merged directory -> version
    mounted,   \* the host's overlay mounts: directory -> version
    changes,   \* changes of the host's mounts so far
    oPc,       \* worker -> "key", "keyMiss", "keyPut", "dir", "dirList", "dirPut", "dirFind", "end"
    oHold,     \* worker -> what it holds between two locks: a version, or the mounts it listed
    oGot,      \* worker -> the overlay of its event
    oClean     \* history: worker -> its directory was mounted, and the cache not invalidated, since it began

ovVars == <<ovStack, ovMounts, ovTree, snapVer, keyCache, dirCache, mounted, changes, oPc, oHold, oGot, oClean>>

-----------------------------------------------------------------------------
\* NewOverlayInfo and buildLayers: the upper directory first, if there is one, then the
\* lower ones, topmost first, as the lowerdir option lists them.
LayersOf(upper, lowers) == IF upper = NoLayer THEN lowers ELSE <<upper>> \o lowers

\* Lstat of the path in one layer: a whiteout is an entry like any other; there is none
\* below what is not a directory.
Lstat(l) == l.dir \in {"dir", "opaque"} /\ l.file # "absent"

\* ResolveLayer: the first layer that has the path; 0 for none.
ResolveLayer(layers) == SelectInSeq(layers, Lstat)

\* overlayfs itself: it looks into the directory of each layer in turn and stops below an
\* opaque directory, or at a whiteout or a file where a directory should be.
Reached(layers) ==
    {i \in 1..Len(layers) : \A j \in 1..(i - 1) : layers[j].dir \in {"dir", "absent"}}
Provider(layers) ==
    LET hits == {i \in Reached(layers) : Lstat(layers[i])}
        top == CHOOSE i \in hits : \A j \in hits : i <= j
    IN IF hits = {} \/ layers[top].file = "whiteout" THEN 0 ELSE top

\* overlayInfoFromMounts: the first overlay or bind mount decides.  An overlay without a
\* lowerdir is an error, a bind mount is one lower layer even when it is writable.
InfoFromMounts(ms) ==
    LET i == SelectInSeq(ms, LAMBDA m : m.type \in {"overlay", "bind"})
    IN IF i = 0 THEN NoInfo
       ELSE IF ms[i].type = "bind" THEN [upper |-> NoLayer, lowers |-> <<ms[i].source>>]
       ELSE IF ms[i].lowers = <<>> THEN NoInfo
       ELSE [upper |-> ms[i].upper, lowers |-> ms[i].lowers]

\* The mounts containerd's overlay snapshotter gives for a stack of layers: one layer is a
\* bind mount.
MountsOf(st) ==
    IF st.upper = NoLayer /\ Len(st.lowers) = 1
    THEN <<[type |-> "bind", lowers |-> <<>>, upper |-> NoLayer, source |-> st.lowers[1]]>>
    ELSE <<[type |-> "overlay", lowers |-> st.lowers, upper |-> st.upper, source |-> NoLayer]>>

\* ResolveOverlayInfo: the host's mount table, then the snapshotter when there is a key.
ResolveOverlayInfo(hostInfo, key, ms) ==
    IF hostInfo # NoInfo THEN hostInfo ELSE IF key # NoKey THEN InfoFromMounts(ms) ELSE NoInfo

\* SnapshotAncestors: from the key to the root, though overlay.go:298 says parent first; <<>>
\* for the error of a missing key or a cycle.
SnapshotAncestors(tree, key) ==
    LET up[n \in Nat] == IF n = 0 THEN <<key>>
                         ELSE LET c == up[n - 1] IN
                              IF Last(c) = NoKey \/ Last(c) \notin DOMAIN tree THEN c ELSE Append(c, tree[Last(c)])
        walk == up[Cardinality(DOMAIN tree) + 1]
    IN IF Last(walk) = NoKey THEN SubSeq(walk, 1, Len(walk) - 1) ELSE <<>>

-----------------------------------------------------------------------------
OvInit ==
    /\ ovStack \in Stacks /\ ovMounts \in MountSets /\ ovTree \in SnapTrees
    /\ snapVer = [k \in OvKeys |-> 0] /\ keyCache = <<>> /\ dirCache = <<>>
    /\ mounted \in {[d \in D |-> 0] : D \in SUBSET MergedDirs} /\ changes = 0
    /\ oPc \in [OvWorkers -> {"key", "dir", "end"}]
    /\ oHold = [w \in OvWorkers |-> <<>>] /\ oGot = [w \in OvWorkers |-> NoInfo]
    /\ oClean = [w \in OvWorkers |-> MergedDirs]

constVars == <<ovStack, ovMounts, ovTree>>

\* The host: a directory is mounted anew, or unmounted; a snapshot's mounts change.
HostChange(d) ==
    /\ changes < MaxMounts /\ changes' = changes + 1
    /\ \/ mounted' = [x \in DOMAIN mounted \cup {d} |-> IF x = d THEN changes + 1 ELSE mounted[x]]
       \/ d \in DOMAIN mounted /\ mounted' = [x \in DOMAIN mounted \ {d} |-> mounted[x]]
    /\ oClean' = [w \in OvWorkers |-> oClean[w] \ {d}]
    /\ UNCHANGED <<constVars, snapVer, keyCache, dirCache, oPc, oHold, oGot>>
SnapChange(k) ==
    /\ changes < MaxMounts /\ changes' = changes + 1
    /\ snapVer' = [snapVer EXCEPT ![k] = changes + 1]
    /\ UNCHANGED <<constVars, keyCache, dirCache, mounted, oPc, oHold, oGot, oClean>>

\* InvalidateCache.
InvalidateCache ==
    /\ dirCache # <<>> /\ dirCache' = <<>> /\ oClean' = [w \in OvWorkers |-> {}]
    /\ UNCHANGED <<constVars, snapVer, keyCache, mounted, changes, oPc, oHold, oGot>>

\* SnapshotterEnricher.Transform: the first look into the cache under its lock ...
KeyLookup(w) ==
    /\ oPc[w] = "key"
    /\ \E k \in OvKeys :
         IF k \in DOMAIN keyCache
         THEN oPc' = [oPc EXCEPT ![w] = "end"] /\ oGot' = [oGot EXCEPT ![w] = <<k, keyCache[k]>>] /\ UNCHANGED oHold
         ELSE oPc' = [oPc EXCEPT ![w] = "keyMiss"] /\ oHold' = [oHold EXCEPT ![w] = <<k>>] /\ UNCHANGED oGot
    /\ UNCHANGED <<constVars, snapVer, keyCache, dirCache, mounted, changes, oClean>>

\* ... the snapshotter's mounts without the lock, whose error leaves the event as it is ...
KeyResolve(w) ==
    /\ oPc[w] = "keyMiss"
    /\ \/ oPc' = [oPc EXCEPT ![w] = "end"] /\ UNCHANGED oHold
       \/ /\ InfoFromMounts(ovMounts) # NoInfo /\ oPc' = [oPc EXCEPT ![w] = "keyPut"]
          /\ oHold' = [oHold EXCEPT ![w] = Append(@, snapVer[Head(@)])]
    /\ UNCHANGED <<constVars, snapVer, keyCache, dirCache, mounted, changes, oGot, oClean>>

\* Variant: the value just resolved replaces the one another worker has put meanwhile.
KeepExistingNot(k, v) == v

\* The value another worker has put meanwhile is the one to use.
KeepExisting(k, v) == IF k \in DOMAIN keyCache THEN keyCache[k] ELSE v

\* ... and the second look.
KeyPut(w) ==
    LET k == Head(oHold[w])
        v == KeepExisting(k, oHold[w][2])
    IN /\ oPc[w] = "keyPut" /\ oPc' = [oPc EXCEPT ![w] = "end"]
       /\ keyCache' = [x \in DOMAIN keyCache \cup {k} |-> IF x = k THEN v ELSE keyCache[x]]
       /\ oGot' = [oGot EXCEPT ![w] = <<k, v>>]
       /\ UNCHANGED <<constVars, snapVer, dirCache, mounted, changes, oHold, oClean>>

\* ContainerdEnricher.resolveForPath: an event of directory d; any cached merged directory
\* that contains it will do.
DirLookup(w) ==
    /\ oPc[w] = "dir"
    /\ \E d \in MergedDirs :
         IF d \in DOMAIN dirCache
         THEN oPc' = [oPc EXCEPT ![w] = "end"] /\ oGot' = [oGot EXCEPT ![w] = <<d, dirCache[d]>>] /\ UNCHANGED oHold
         ELSE oPc' = [oPc EXCEPT ![w] = "dirList"] /\ oHold' = [oHold EXCEPT ![w] = <<d>>] /\ UNCHANGED oGot
    /\ oClean' = [oClean EXCEPT ![w] = DOMAIN mounted]
    /\ UNCHANGED <<constVars, snapVer, keyCache, dirCache, mounted, changes>>
DirList(w) ==
    /\ oPc[w] = "dirList" /\ oPc' = [oPc EXCEPT ![w] = "dirPut"]
    /\ oHold' = [oHold EXCEPT ![w] = Append(@, mounted)]
    /\ UNCHANGED <<constVars, snapVer, keyCache, dirCache, mounted, changes, oGot, oClean>>

\* What is cached stays, what is new is added.
MergeListed(cache, listed) ==
    [d \in DOMAIN cache \cup DOMAIN listed |-> IF d \in DOMAIN cache THEN cache[d] ELSE listed[d]]
DirPut(w) ==
    /\ oPc[w] = "dirPut" /\ oPc' = [oPc EXCEPT ![w] = "dirFind"]
    /\ dirCache' = MergeListed(dirCache, oHold[w][2])
    /\ UNCHANGED <<constVars, snapVer, keyCache, mounted, changes, oHold, oGot, oClean>>
DirFind(w) ==
    LET d == Head(oHold[w]) IN
    /\ oPc[w] = "dirFind" /\ oPc' = [oPc EXCEPT ![w] = "end"]
    /\ oGot' = [oGot EXCEPT ![w] = IF d \in DOMAIN dirCache THEN <<d, dirCache[d]>> ELSE NoInfo]
    /\ UNCHANGED <<constVars, snapVer, keyCache, dirCache, mounted, changes, oHold, oClean>>

Enrich(w) == KeyLookup(w) \/ KeyResolve(w) \/ KeyPut(w) \/ DirLookup(w) \/ DirList(w) \/ DirPut(w) \/ DirFind(w)
OvNext ==
    \/ \E d \in MergedDirs : HostChange(d)
    \/ \E k \in OvKeys : SnapChange(k)
    \/ InvalidateCache
    \/ \E w \in OvWorkers : Enrich(w)

-----------------------------------------------------------------------------
\* Two events of the same snapshot key are never described by different layer stacks, even
\* when two workers resolve the key at once and the snapshot's mounts change in between
\* (SnapshotterEnricher.resolveForKey).
OneOverlayPerKey ==
    \A v, w \in OvWorkers :
        oGot[v] # NoInfo /\ oGot[w] # NoInfo /\ oGot[v][1] \in OvKeys /\ oGot[v][1] = oGot[w][1] => oGot[v] = oGot[w]

\* An event in a directory that stayed mounted while it was enriched gets an overlay,
\* unless the cache was invalidated meanwhile (ContainerdEnricher.resolveForPath).
MountedIsFound ==
    \A w \in OvWorkers :
        oPc[w] = "end" /\ oHold[w] # <<>> /\ Head(oHold[w]) \in oClean[w] => oGot[w] # NoInfo

\* A file that overlayfs shows is attributed to the layer overlayfs takes it from, whatever
\* opaque directories and whiteouts there are (ResolveLayer, buildLayers).
LayerIsProvider ==
    \A host \in {NoInfo, ovStack} :
        LET real == LayersOf(ovStack.upper, ovStack.lowers)
            info == ResolveOverlayInfo(host, "key", MountsOf(ovStack))
            layers == LayersOf(info.upper, info.lowers)
        IN Provider(real) # 0 => layers[ResolveLayer(layers)] = real[Provider(real)]

\* SnapshotAncestors returns a chain exactly when parents lead from the key to a root: each
\* link a parent, no key twice, the last without a parent.
ChainIsAncestry ==
    \A k \in DOMAIN ovTree :
        LET c == SnapshotAncestors(ovTree, k) IN
        IF c # <<>> THEN /\ c[1] = k /\ ovTree[Last(c)] = NoKey
                         /\ \A i \in 1..(Len(c) - 1) : c[i + 1] = ovTree[c[i]]
                         /\ IsInjective(c)
        ELSE \E S \in SUBSET DOMAIN ovTree :
                 k \in S /\ \A x \in S : ovTree[x] # NoKey /\ (ovTree[x] \in DOMAIN ovTree => ovTree[x] \in S)
=============================================================================
