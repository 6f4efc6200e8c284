------------------------------ MODULE HashCache ------------------------------
(***************************************************************************)
(* The in-memory hash cache of layermerkle (src/pkg/layermerkle/cache.go), *)
(* one shard of it: a sequence of entries, the most recently used first.   *)
(***************************************************************************)
EXTENDS Naturals, Sequences, SequencesExt

Entry(l, p, h) == [layer |-> l, path |-> p, hash |-> h]

\* cacheShard.get: the entries of a key, at most one.
EntriesOf(c, l, p) == {i \in 1..Len(c) : c[i].layer = l /\ c[i].path = p}

\* cacheShard.delete and DeleteLayer.
Without(c, l, p) ==
    IF EntriesOf(c, l, p) = {} THEN c ELSE RemoveAt(c, CHOOSE i \in EntriesOf(c, l, p) : TRUE)
WithoutLayer(c, l) == SelectSeq(c, LAMBDA x : x.layer # l)

\* cacheShard.set: an entry moves to the front, a new one may evict the oldest.
Put(c, cap, l, p, h) ==
    LET rest == Without(c, l, p)
    IN  <<Entry(l, p, h)>> \o (IF Len(rest) = Len(c) /\ Len(c) >= cap THEN Front(c) ELSE rest)
=============================================================================
