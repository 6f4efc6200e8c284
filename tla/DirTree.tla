------------------------------- MODULE DirTree -------------------------------
(***************************************************************************)
(* What dirsync and dirpruner compute on directory trees                   *)
(* (src/internal/dirsync: filter.go, walker.go, hasher.go, merged_view.go, *)
(* pruning_set.go; src/pkg/dirpruner).                                     *)
(*                                                                         *)
(* A path is a sequence of names (numbers, in the order of the directory   *)
(* listing), <<>> the root.  A tree maps each path below its root to an    *)
(* entry [kind, inode, mtime, data], data being the bytes of a file or the *)
(* target of a link.  A filter is [include, exclude, names]: paths, paths, *)
(* and names that an include pattern with a wildcard matches at any depth. *)
(***************************************************************************)
EXTENDS Naturals, Sequences, SequencesExt, FiniteSets

CONSTANTS
    BufLen,        \* bytes compared at once
    MinSegment,    \* smallest part of a file compared by a goroutine of its own
    SegWorkers,    \* goroutines that compare one file
    LargeFile      \* size from which a file is compared in parts

-----------------------------------------------------------------------------
\* A pattern matches a path and everything below it.
Under(p, q) == IsPrefix(q, p)
Matches(pats, p) == \E q \in pats : Under(p, q)
Included(f, p) == Matches(f.include, p) \/ \E i \in 1..Len(p) : p[i] \in f.names
NoIncludes(f) == f.include = {} /\ f.names = {}

\* couldHaveMatchingDescendant: a pattern below the directory, or any wildcard.
CouldMatchBelow(f, p) == f.names # {} \/ \E q \in f.include : IsStrictPrefix(p, q)

\* PatternFilter.Include; with no patterns at all it is NoopFilter.
Include(f, p, isDir) ==
    /\ ~Matches(f.exclude, p)
    /\ NoIncludes(f) \/ Included(f, p) \/ (isDir /\ CouldMatchBelow(f, p))

\* The names in a directory, in order.
Names(tree, d) ==
    LET ns == {p[Len(d) + 1] : p \in {q \in DOMAIN tree : Len(q) = Len(d) + 1 /\ IsPrefix(d, q)}}
    IN CHOOSE s \in [1..Cardinality(ns) -> ns] : Range(s) = ns /\ \A i, j \in DOMAIN s : i < j => s[i] < s[j]
IsDir(tree, p) == tree[p].kind = "dir"
Below(tree, p) == {q \in DOMAIN tree : Under(q, p)}

-----------------------------------------------------------------------------
Exclusive(p, c) == [to |-> "exclusive", path |-> p, collapsed |-> c]
Common(p) == [to |-> "common", path |-> p, collapsed |-> FALSE]

\* emitExclusive: a directory that matches by itself is one entry, another one is descended.
EmitExclusive(lower, f, p) ==
    LET emit[q \in DOMAIN lower] ==
            CASE ~Include(f, q, IsDir(lower, q)) -> <<>>
              [] Include(f, q, IsDir(lower, q)) /\ ~IsDir(lower, q) -> <<Exclusive(q, FALSE)>>
              [] Include(f, q, TRUE) /\ IsDir(lower, q) /\ Include(f, q, FALSE) -> <<Exclusive(q, TRUE)>>
              [] OTHER -> FlattenSeq([i \in 1..Len(Names(lower, q)) |-> emit[Append(q, Names(lower, q)[i])]])
    IN emit[p]

\* walkBoth and handleCommonEntry: what is only in the lower tree is exclusive, what is in
\* both is common unless both are directories, which are descended; a directory replaced by
\* a file is both.
CommonEntry(lower, upper, f, p, deeper) ==
    CASE ~Include(f, p, IsDir(lower, p)) -> <<>>
      [] IsDir(lower, p) /\ IsDir(upper, p) /\ Include(f, p, TRUE) -> deeper
      [] IsDir(lower, p) /\ ~IsDir(upper, p) /\ Include(f, p, TRUE) -> <<Common(p), Exclusive(p, TRUE)>>
      [] OTHER -> <<Common(p)>>
WalkBoth(lower, upper, f, root) ==
    LET walk[d \in {root} \cup DOMAIN lower] ==
            LET ns == Names(lower, d)
                One(p) == IF p \in DOMAIN upper THEN CommonEntry(lower, upper, f, p, walk[p]) ELSE EmitExclusive(lower, f, p)
            IN FlattenSeq([i \in 1..Len(ns) |-> One(Append(d, ns[i]))])
    IN walk[root]

-----------------------------------------------------------------------------
Least(a, b) == IF a < b THEN a ELSE b

\* compareContentsSequential: full buffers until both end.
SameFrom(l, u, from) ==
    LET same[at \in Nat] ==
            LET lc == SubSeq(l, at + 1, Least(Len(l), at + BufLen))
                uc == SubSeq(u, at + 1, Least(Len(u), at + BufLen))
            IN lc = uc /\ (Len(lc) < BufLen \/ same[at + BufLen])
    IN same[from]

\* compareSegment: until the end of the part, or of the file.
SameSegment(l, u, from, end) ==
    LET same[at \in Nat] ==
            at >= end \/ LET n == Least(BufLen, end - at)
                             lc == SubSeq(l, at + 1, Least(Len(l), at + n))
                             uc == SubSeq(u, at + 1, Least(Len(u), at + n))
                         IN lc = uc /\ (Len(lc) < n \/ same[at + n])
    IN same[from]

\* compareContentsParallel: the parts, of which the last takes the remainder.
SegmentLen(size) == IF size \div SegWorkers < MinSegment THEN MinSegment ELSE size \div SegWorkers

SameInParts(l, u) ==
    LET size == Len(l)
        seg == SegmentLen(size)
        n == (size + seg - 1) \div seg
    IN \A i \in 0..(n - 1) : SameSegment(l, u, i * seg, IF i = n - 1 THEN size ELSE (i + 1) * seg)

\* TwoPhaseHasher.Equal.  Two files of one inode, or of one size and one time of
\* modification, are taken to be equal without looking at them.
Equal(l, u) ==
    CASE l.kind # u.kind -> FALSE
      [] l.kind = "link" /\ u.kind = "link" -> l.data = u.data
      [] l.kind = "dir" /\ u.kind = "dir" -> l.mtime = u.mtime
      [] OTHER -> \/ l.inode = u.inode
                  \/ /\ Len(l.data) = Len(u.data)
                     /\ \/ l.mtime = u.mtime
                        \/ IF Len(l.data) >= LargeFile THEN SameInParts(l.data, u.data) ELSE SameFrom(l.data, u.data, 0)

-----------------------------------------------------------------------------

\* PruningSet.Add.
PruneAdd(es, e) ==
    IF \E x \in es : x.collapsed /\ Under(e.path, x.path) THEN es
    ELSE {x \in es : ~(e.collapsed /\ Under(x.path, e.path))} \cup {e}

=============================================================================
