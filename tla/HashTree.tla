------------------------------ MODULE HashTree -------------------------------
(***************************************************************************)
(* pkg/fshash/merkle: the tree over a layer's leaves and the inclusion     *)
(* proofs of single leaves.  A leaf's hash is its index, the hash of a     *)
(* branch is the sequence of its children's hashes.                        *)
(***************************************************************************)
EXTENDS Naturals, Sequences, SequencesExt, FiniteSetsExt

CONSTANTS TreeSizes, Branching     \* leaves in a tree; branching factors
ASSUME TreeAssumption == TreeSizes \subseteq Nat \ {0} /\ Branching \subseteq Nat \ {0, 1}

VARIABLES htSize, htBranch         \* the tree looked at
htVars == <<htSize, htBranch>>
HtInit == htSize \in TreeSizes /\ htBranch \in Branching

LeafHash(i) == [leaf |-> i, of |-> << >>]
Combined(hashes) == [leaf |-> 0, of |-> hashes]
LeavesOf(n) == [i \in 1..n |-> LeafHash(i)]

(* The groups of one level. *)
GroupOf(i, b) == (i - 1) \div b + 1
Group(level, b, g) == SubSeq(level, (g - 1) * b + 1, Min({g * b, Len(level)}))
NextLevel(level, b) == [g \in 1..GroupOf(Len(level), b) |-> Combined(Group(level, b, g))]

RECURSIVE TreeRoot(_, _)
TreeRoot(level, b) == IF Len(level) = 1 THEN level[1] ELSE TreeRoot(NextLevel(level, b), b)

(* GenerateProof: the other members of the leaf's group, level by level. *)
Siblings(level, i, b) ==
    LET first == (GroupOf(i, b) - 1) * b
        others == SelectSeq([k \in 1..Len(Group(level, b, GroupOf(i, b))) |-> first + k], LAMBDA k : k # i)
    IN  [k \in DOMAIN others |-> [hash |-> level[others[k]], right |-> others[k] > i]]
RECURSIVE GenerateProof(_, _, _)
GenerateProof(level, i, b) ==
    IF Len(level) = 1 THEN << >> ELSE Siblings(level, i, b) \o GenerateProof(NextLevel(level, b), GroupOf(i, b), b)

(* Proof.Verify: the leaf's hash combined with one sibling after the other. *)
CombineWith(current, s) == IF s.right THEN Combined(<<current, s.hash>>) ELSE Combined(<<s.hash, current>>)
Verify(proof, leaf, root) == FoldLeft(CombineWith, leaf, proof) = root

RECURSIVE AllPairs(_, _, _)
AllPairs(level, i, b) ==
    \/ Len(level) = 1
    \/ Len(Group(level, b, GroupOf(i, b))) = 2 /\ AllPairs(NextLevel(level, b), GroupOf(i, b), b)

\* The proof generated for a leaf verifies for no other leaf of the tree, and for its own where
\* every group on the way up has two members (merkle/proof.go GenerateProof, Verify).  Nothing is
\* asked of the other trees: in a group of one or of three the generated proof does not verify,
\* though proof.go:3-5 and 22-24 promise one for every leaf.
ProofsVerify ==
    LET leaves == LeavesOf(htSize)
        root == TreeRoot(leaves, htBranch)
    IN  \A i \in DOMAIN leaves :
            LET proof == GenerateProof(leaves, i, htBranch) IN
            /\ AllPairs(leaves, i, htBranch) => Verify(proof, leaves[i], root)
            /\ \A j \in DOMAIN leaves : Verify(proof, leaves[j], root) => i = j
=============================================================================
