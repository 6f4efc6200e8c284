---------------------------- MODULE MCComposite ------------------------------
(***************************************************************************)
(* The fan-out writer over two required writers and a best-effort one,    *)
(* the composite stores that hand it out, the processor and store of file  *)
(* hashes (fshash), the graphs of the LLB client and its gates, each on    *)
(* its own (part).                                                         *)
(***************************************************************************)
EXTENDS FanoutWriter, CompositeStores, FSHash, HashTree, LLBGraph, LLBGate

VARIABLES
    part,      \* what runs
    fhPart     \* of fshash: the processor ("on"), its trees, or nothing ("off")

LastResilient == {N}

\* Bound: up to MaxChunks chunks are written where nobody calls Close, one beside a Close.
CloseBound == calls' > 0 => sent' <= 1

\* The first two stores share digest 1, and the last one alone has digest 2.
Holds(n) == [s \in 1..n |-> [d \in CsDigests |-> IF (s <= 2 /\ d = 1) \/ (s = n /\ d = 2) THEN 1 ELSE 0]]
CsWorld(k, n, down) == [kind |-> k, n |-> n, down |-> down, readonly |-> FALSE, has |-> Holds(n), fails |-> {}]
MCCsWorlds ==
    {CsWorld("fanout", 2, {}), CsWorld("fanout", 3, {3}), CsWorld("split", 3, {}), CsWorld("split", 2, {2}),
     CsWorld("split", 3, {3}), CsWorld("fallback", 2, {}), CsWorld("fallback", 2, {1}), CsWorld("fallback", 2, {2}),
     [CsWorld("fanout", 2, {}) EXCEPT !.fails = {1}], [CsWorld("fanout", 2, {}) EXCEPT !.readonly = TRUE]}

-----------------------------------------------------------------------------
(* The processor of pkg/fshash under scripts of four calls each, and the   *)
(* proofs of its Merkle trees.                                             *)

Dir == <<"d">>
File == <<"d", "f">>
MCPaths == {<< >>, Dir, File, <<"g">>}
FhCall(kind, layer, path) ==
    [kind |-> kind, layer |-> layer, path |-> path, parent |-> NoLayerID, what |-> "modified",
     mark |-> "none", data |-> NoData, cancels |-> FALSE]
Marks(what, layer, path) == [FhCall("mark", layer, path) EXCEPT !.what = what]
Marker(kind, mark, layer, path) == [FhCall(kind, layer, path) EXCEPT !.mark = mark]
Read(kind, layer, path, data) == [FhCall(kind, layer, path) EXCEPT !.data = data]
Registers(layer, parent) == [FhCall("register", layer, << >>) EXCEPT !.parent = parent]

Script(stack, a, b, c, d) == [stack |-> stack, calls |-> <<a, b, c, d>>]
MCScripts == {
    \* one file read through both layers while the upper one is marked modified
    Script(<<"base", "top">>, Read("submit", "base", File, "one"), Marks("modified", "top", File),
           [Read("submit", "top", File, "two") EXCEPT !.cancels = TRUE], FhCall("finalize", "top", << >>)),
    \* markers beside reads of what they hide
    Script(<<"base", "top">>, Marker("submit", "opaque", "top", Dir), Marker("async", "whiteout", "top", File),
           Read("submit", "top", File, "one"), Marks("modified", "top", File)),
    \* duplicates, and Close beside them
    Script(<<"base">>, Read("async", "base", File, "one"), Read("submit", "base", File, "two"),
           Read("async", "base", <<"g">>, NoData), FhCall("close", NoLayerID, << >>)),
    \* two sessions of one layer
    Script(<<"base">>, Read("submit", "base", File, "one"), FhCall("finalize", "base", << >>),
           Read("submit", "base", File, "two"), FhCall("close", NoLayerID, << >>)),
    \* layers registered beside each other, on the stack and on each other
    Script(<<"base", "mid">>, Registers("top", "mid"), Registers("third", "top"), Registers("top", NoLayerID),
           Read("submit", "third", File, "one")),
    \* what is refused
    Script(<<"base">>, Marks("opaque", "top", Dir), FhCall("submit", NoLayerID, File), Registers("top", "third"),
           FhCall("close", NoLayerID, << >>))}

fhsVars == <<fhPart, fhVars, htVars>>
AnyTree == htSize = 1 /\ htBranch = 2
AnyScript == FhInitWith(CHOOSE s \in FhScripts : TRUE)
FhSetUp ==
    \/ fhPart = "off" /\ AnyScript /\ AnyTree
    \/ fhPart = "on" /\ FhInit /\ AnyTree
    \/ fhPart = "tree" /\ AnyScript /\ HtInit

-----------------------------------------------------------------------------
(* Programs for the LLB client.  Where two goroutines marshal at once or   *)
(* an Inspect is made, mounts are given in the order of their targets.     *)

Mnt(t, m) == [target |-> t, mode |-> m]
MCLlbMounts ==
    [c \in {"run", "runMixed", "runBare"} |->
        CASE c = "run" -> {<< >>, <<Mnt(1, "rw")>>, <<Mnt(1, "ro"), Mnt(2, "rw")>>, <<Mnt(1, "cache"), Mnt(2, "rw")>>}
          [] c = "runMixed" -> {<<Mnt(2, "rw"), Mnt(1, "tmpfs")>>, <<Mnt(2, "rw"), Mnt(1, "rw")>>, <<Mnt(2, "noout"), Mnt(1, "rw")>>}
          [] c = "runBare" -> {<< >>}]
MCLlbSources == [c \in {"image", "git"} |-> IF c = "git" THEN "arm" ELSE ""]
Alone(cs) == [calls |-> cs, together |-> FALSE, platform |-> "riscv"]
Together(cs) == [calls |-> cs, together |-> TRUE, platform |-> ""]
MCLlbPrograms ==
    {Alone(<<"image", "runMixed", "file">>), Alone(<<"image", "run", "file">>), Alone(<<"image", "runBare", "merge">>),
     Alone(<<"image", "git", "switch">>), Alone(<<"image", "git", "merge", "diff">>), Alone(<<"image", "run", "inspect">>),
     Alone(<<"image", "gate", "solve", "merge">>), Alone(<<"image", "async", "merge">>),
     Together(<<"image", "file", "file">>), Together(<<"image", "git", "matrix">>),
     Together(<<"image", "absDir", "relDir", "env", "env", "run">>)}

MCGtWorlds ==
    {[approver |-> a, wrapped |-> w, auto |-> y, timeout |-> t] :
        a \in {"auto", "channel", "webhook"}, w \in BOOLEAN, y \in BOOLEAN, t \in BOOLEAN}
MCGtAnswers == [a \in {"ann", "ben", "cal"} |-> a # "ben"]

\* Two graphs are built bottom-up and read by another party.  The definition the LLB client hands
\* to the solver is closed and says what the program said (State.Marshal), and the proof of a leaf
\* of a Merkle tree is that of no other leaf, and verifies where the tree pairs every level
\* (merkle/proof.go).
GraphsAndTreesSound == DefinitionsSound /\ ProofsVerify

-----------------------------------------------------------------------------
mcVars == <<part, vars, csVars, fhsVars, llbVars, gtVars>>
MCInit ==
    /\ part \in {"writer", "stores", "hash", "llb", "gate"}
    /\ (part # "stores" => csOf = CHOOSE w \in CsWorlds : TRUE)
    /\ (part # "llb" => llbOf = CHOOSE w \in LlbPrograms : TRUE)
    /\ (part # "gate" => gtOf = CHOOSE w \in GtWorlds : TRUE)
    /\ Init /\ CsInit /\ FhSetUp /\ LlbInit /\ GtInit
    /\ (part = "hash" <=> fhPart # "off")
MCNext ==
    /\ part' = part
    /\ \/ part = "writer" /\ Next /\ CloseBound /\ UNCHANGED <<csVars, fhsVars, llbVars, gtVars>>
       \/ part = "stores" /\ CsNext /\ UNCHANGED <<vars, fhsVars, llbVars, gtVars>>
       \/ fhPart = "on" /\ FhNext /\ UNCHANGED <<vars, csVars, fhPart, htVars, llbVars, gtVars>>
       \/ part = "llb" /\ LlbNext /\ UNCHANGED <<vars, csVars, fhsVars, gtVars>>
       \/ part = "gate" /\ GtNext /\ UNCHANGED <<vars, csVars, fhsVars, llbVars>>
MCSpec == MCInit /\ [][MCNext]_mcVars
=============================================================================
