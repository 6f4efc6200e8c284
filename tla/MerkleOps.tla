------------------------------ MODULE MerkleOps ------------------------------
(***************************************************************************)
(* The computations of layermerkle on finished trees: the Merkle root over *)
(* the trie of leaves (internal/trie, merkle.go), the comparison of        *)
(* forests (diff.go) and of provenance documents (provenance.go), warming  *)
(* a cache from either (warmer.go, serial.go), whiteouts (whiteout.go,     *)
(* adapter.go) and the encoding of layer stacks (fanwatch.go).             *)
(*                                                                         *)
(* A path is a sequence of segments, which are numbers in their sorting    *)
(* order.  The hash of a node is the sequence of its children's hashes: as *)
(* injective as SHA-256 is taken to be, and blind to the children's names. *)
(***************************************************************************)
EXTENDS Integers, Sequences, SequencesExt, FiniteSets, FiniteSetsExt

CONSTANTS
    OpInputs,   \* the computations to make, with their inputs
    NoHash      \* the empty hash

VARIABLES opIn, opOut, opDone
opVars == <<opIn, opOut, opDone>>

-----------------------------------------------------------------------------
\* Trie nodes; Insert makes directories of what it passes and a file of what it ends at.
NewNode == [dir |-> FALSE, hash |-> NoHash, kids |-> [s \in {} |-> {}]]
RECURSIVE InsertLeaf(_, _, _)
InsertLeaf(n, segments, h) ==
    LET s == Head(segments)
        child == IF s \in DOMAIN n.kids THEN n.kids[s] ELSE NewNode
        new == IF Len(segments) = 1 THEN [child EXCEPT !.hash = h, !.dir = FALSE]
               ELSE InsertLeaf([child EXCEPT !.dir = TRUE], Tail(segments), h)
    IN  [n EXCEPT !.kids = [x \in DOMAIN n.kids \cup {s} |-> IF x = s THEN new ELSE n.kids[x]]]

\* SortedChildren.
SortedKids(n) == [i \in 1..Cardinality(DOMAIN n.kids) |-> SetToSortSeq(DOMAIN n.kids, LAMBDA a, b : a < b)[i]]

\* Variant: the hash of a directory is left out.
NodeHashFlat(n) ==
    IF DOMAIN n.kids = {} THEN <<>>
    ELSE [i \in 1..Cardinality(DOMAIN n.kids) |-> n.kids[SortedKids(n)[i]].hash]

\* buildMerkleNode and hashChildren.
RECURSIVE NodeHash(_)
NodeHash(n) ==
    [i \in 1..Cardinality(DOMAIN n.kids) |->
        LET c == n.kids[SortedKids(n)[i]] IN IF c.dir THEN NodeHash(c) ELSE c.hash]

\* Add for each leaf, then Finalize: the root and the leaves.
BuildTree(leaves) ==
    [root |-> NodeHash(FoldLeft(LAMBDA n, l : InsertLeaf(n, l.path, l.hash), NewNode, leaves)), leaves |-> leaves]

\* indexLeaves: of several leaves for one path, one.
LeafAt(leaves, p) == leaves[CHOOSE i \in 1..Len(leaves) : leaves[i].path = p]
PathsOf(leaves) == {leaves[i].path : i \in 1..Len(leaves)}

\* Diff of one vertex, and the files of a changed one (diffLeaves).
DiffTrees(a, b) ==
    LET pa == PathsOf(a.leaves)
        pb == PathsOf(b.leaves)
        same == {p \in pa \cap pb : LeafAt(a.leaves, p).hash = LeafAt(b.leaves, p).hash}
    IN  [changed |-> a.root # b.root, added |-> pb \ pa, removed |-> pa \ pb,
         modified |-> (pa \cap pb) \ same, unchanged |-> same]

-----------------------------------------------------------------------------

\* DiffProvenance: the vertices in the order of a Go map.
CountFiles(acc, new) ==
    IF acc.new + new < 0 THEN [new |-> 0, removed |-> acc.removed - (acc.new + new)]
    ELSE [acc EXCEPT !.new = @ + new]

DiffProvenance(a, b, order) ==
    LET step(acc, v) ==
            IF v \notin DOMAIN a THEN [acc EXCEPT !.new = @ + b[v].count]
            ELSE IF a[v].root = b[v].root THEN acc ELSE CountFiles(acc, b[v].count - a[v].count)
        there == SelectSeq(order, LAMBDA v : v \in DOMAIN b)
        gone == {v \in DOMAIN a : v \notin DOMAIN b}
        sum == FoldLeft(step, [new |-> 0, removed |-> 0], there)
    IN  [added |-> DOMAIN b \ DOMAIN a, lost |-> gone,
         changed |-> {v \in DOMAIN a \cap DOMAIN b : a[v].root # b[v].root},
         new |-> sum.new, removed |-> sum.removed + FoldSet(LAMBDA v, n : n + a[v].count, 0, gone)]

-----------------------------------------------------------------------------
\* ExportProvenance: a document has the files of the trees only when asked to;
\* ReadProvenance refuses another media type.
ThroughProvenance(doc) == IF doc.typed /\ doc.includeFiles THEN doc.leaves ELSE {}

\* MarshalForest and UnmarshalForest: another version or a malformed layer digest is refused.
ThroughForest(doc) == IF doc.typed /\ doc.digestsValid THEN doc.leaves ELSE {}

\* NewEngineWithWarmStart takes the provenance document when there is one.
Transport(doc) == IF doc.route = "provenance" THEN ThroughProvenance(doc) ELSE ThroughForest(doc)

\* Warm and WarmFromForest: what they put into the cache.
Warm(doc) == {l \in Transport(doc) : l.owner # NoHash /\ l.hash # NoHash /\ l.owner \in doc.registry}

-----------------------------------------------------------------------------
\* A name in a layer is plain, a whiteout of a name, the opaque marker or other metadata
\* (ClassifyWhiteout); a layer is a set of [dir, kind, name].
Ancestors(p) == {SubSeq(p, 1, d) : d \in 1..(Len(p) - 1)}
DirOf(p) == SubSeq(p, 1, Len(p) - 1)

\* hasFileWhiteout and ancestorIsOpaque ask the disk, the root excepted ...
MaskedOnDisk(layer, p) ==
    \/ [dir |-> DirOf(p), kind |-> "whiteout", name |-> p[Len(p)]] \in layer
    \/ \E d \in Ancestors(p) : \E e \in layer : e.dir = d /\ e.kind = "opaque"

\* ... BuildWhiteoutIndex walks the layer once ...
WhiteoutIndex(layer) ==
    [files |-> {Append(e.dir, e.name) : e \in {x \in layer : x.kind = "whiteout"}},
     opaque |-> {e.dir : e \in {x \in layer : x.kind = "opaque"}}]

\* ... and IsMasked asks the index.
IsMasked(idx, p) == p \in idx.files \/ \E d \in Ancestors(p) : d \in idx.opaque

-----------------------------------------------------------------------------
\* EncodeLayerStack joins the digests with colons; a digest is an algorithm, a colon and
\* hexadecimal digits.  parseLayerStack splits at every colon and validates each piece.
EncodeLayerStack(stack) ==
    FlattenSeq([i \in 1..Len(stack) |-> (IF i = 1 THEN <<>> ELSE <<":">>) \o <<"algorithm", ":", "hex">>])
Validate(piece) == \E i \in 2..Len(piece) - 1 : piece[i] = ":"
ParseLayerStack(text) ==
    LET pieces == {<<text[i]>> : i \in {j \in 1..Len(text) : text[j] # ":"}}
    IN  IF pieces = {} \/ \E p \in pieces : ~Validate(p) THEN "invalid" ELSE "stack"

-----------------------------------------------------------------------------
Result(in) ==
    CASE in.op = "diff" -> DiffTrees(BuildTree(in.a), BuildTree(in.b))
      [] in.op = "provenance" -> DiffProvenance(in.a, in.b, in.order)
      [] in.op = "warm" -> [cache |-> Warm(in.doc)]
      [] in.op = "whiteout" -> [masked |-> IsMasked(WhiteoutIndex(in.layer), in.path)]
      [] in.op = "stack" -> [parsed |-> ParseLayerStack(EncodeLayerStack(in.stack))]

OpInit == opIn \in OpInputs /\ opOut = [x \in {} |-> 0] /\ opDone = FALSE
Compute == ~opDone /\ opDone' = TRUE /\ opOut' = Result(opIn) /\ UNCHANGED opIn

-----------------------------------------------------------------------------
\* A path has one hash, and no path is both a file and a directory.
OneTree(leaves) ==
    \A i, j \in 1..Len(leaves) :
        /\ leaves[i].path = leaves[j].path => leaves[i].hash = leaves[j].hash
        /\ leaves[i].path \notin Ancestors(leaves[j].path)

\* Whatever the order in which concurrent workers added the leaves, and however often, the
\* roots of two trees over the same paths are equal exactly when every file's hash is, and
\* the file diff puts every path in exactly one class (Insert, buildMerkleNode, Diff,
\* diffLeaves).  Trees over different paths may share a root: names are not hashed.
DiffExact ==
    opDone /\ opIn.op = "diff" /\ OneTree(opIn.a) /\ OneTree(opIn.b) =>
        /\ PathsOf(opIn.a) = PathsOf(opIn.b) =>
              opOut.changed = (\E p \in PathsOf(opIn.a) : LeafAt(opIn.a, p).hash # LeafAt(opIn.b, p).hash)
        /\ LET cs == <<opOut.added, opOut.removed, opOut.modified, opOut.unchanged>> IN
              /\ UNION {cs[i] : i \in 1..4} = PathsOf(opIn.a) \cup PathsOf(opIn.b)
              /\ \A i, j \in 1..4 : i # j => cs[i] \cap cs[j] = {}

\* In whatever order the map yields the vertices, NewFiles minus RemovedFiles is the change
\* of the number of files of the vertices that differ (DiffProvenance).  Each of the two
\* alone depends on that order.
NetFilesRight ==
    opDone /\ opIn.op = "provenance" =>
        LET a == opIn.a
            b == opIn.b
            n(f, v) == IF v \in DOMAIN f THEN f[v].count ELSE 0
            differ == opOut.added \cup opOut.lost \cup opOut.changed
        IN  opOut.new - opOut.removed = FoldSet(LAMBDA v, s : s + n(b, v) - n(a, v), 0, differ)

\* A cache warmed from an exported document holds hashes of that document only, each under
\* a layer this engine has registered, and all of those (Warm, WarmFromForest).
WarmExact ==
    opDone /\ opIn.op = "warm" =>
        /\ \A l \in opOut.cache : l \in opIn.doc.leaves /\ l.owner \in opIn.doc.registry
        /\ opIn.doc.typed /\ opIn.doc.digestsValid /\ opIn.doc.includeFiles =>
              \A l \in opIn.doc.leaves : l.owner \in opIn.doc.registry /\ l.hash # NoHash => l \in opOut.cache

\* The index and the lookups on disk agree about every path of every layer
\* (WhiteoutIndex.IsMasked, OCICompliantResolver.FindOwnerLayer).
IndexAgrees ==
    opDone /\ opIn.op = "whiteout" => opOut.masked = MaskedOnDisk(opIn.layer, opIn.path)

\* Trees, differences, warmed caches and the whiteout index against their reference definitions.
TreesExact == DiffExact /\ NetFilesRight /\ WarmExact /\ IndexAgrees
=============================================================================
