------------------------------ MODULE LLBGraph ------------------------------
(***************************************************************************)
(* The LLB client (client/llb): a program builds a graph of vertices one   *)
(* constructor call after the other, and goroutines marshal a state of it  *)
(* into a definition, the list of its operations in topological order.     *)
(*                                                                         *)
(* A vertex is a record of llbHeap and a pointer names one: n is its place *)
(* in the heap, and path leads from a loaded definition to the operation   *)
(* below it that a DefinitionOp of its own stands for.  An operation's     *)
(* bytes are the record of what is serialized, and its digest is that      *)
(* record: two operations have one digest when they have the same bytes.   *)
(***************************************************************************)
EXTENDS Integers, Sequences, FiniteSets, SequencesExt, TLC

CONSTANTS
    LlbPrograms,    \* [calls: constructor calls in order, together: two goroutines marshal at once,
                    \*  platform: what Marshal is given, "" for none]
    LlbSources,     \* source calls -> the platform the source asks for, "" for none
    LlbMounts       \* mount lists: Run calls -> set of Seq([target, mode])

VARIABLES
    llbOf,      \* the program
    llbLeft,    \* its calls still to be made
    llbHeap,    \* the vertices
    llbStates,  \* the States the program holds; the first is Scratch
    llbOrder,   \* ExecOp.mounts: exec vertex -> the order of its mounts
    llbCells,   \* the variable each closure of dir captures, now and as declared
    llbRuns     \* the two calls of Marshal or Build
llbVars == <<llbOf, llbLeft, llbHeap, llbStates, llbOrder, llbCells, llbRuns>>

NoPtr == [n |-> 0, path |-> << >>]
ErrVertex == [n |-> -1, path |-> << >>]
NoOutput == [p |-> NoPtr, m |-> 0, how |-> "nil"]
At(n) == [n |-> n, path |-> << >>]
OutputAt(n, m) == [p |-> At(n), m |-> m, how |-> "plain"]
NewState(out) == [out |-> out, args |-> FALSE, dirs |-> << >>, env |-> << >>]
Scratch == NewState(NoOutput)
WithOutput(s, out) == [s EXCEPT !.out = out]

-----------------------------------------------------------------------------
(* Metadata of a State: env.Set moves a variable that is set again to the  *)
(* end; dir joins a relative path to the one before it.                    *)

EnvSet(env, e) == Append(SelectSeq(env, LAMBDA x : x.k # e.k), e)

IsAbs(path) == path # << >> /\ path[1] = "/"
DirUpTo(dirs, cells) ==
    LET val[i \in 0..Len(dirs)] ==
          IF i = 0 THEN << >>
          ELSE IF IsAbs(cells[dirs[i]]) THEN cells[dirs[i]] ELSE val[i - 1] \o cells[dirs[i]]
    IN  val
GetDir(dirs, cells) == DirUpTo(dirs, cells)[Len(dirs)]
\* The closures that were called keep what they computed.
DirCalled(dirs, cells) == {i \in DOMAIN dirs : \A j \in (i + 1)..Len(dirs) : ~IsAbs(cells[dirs[j]])}
CellsAfter(dirs, cells) ==
    [c \in DOMAIN cells |->
        IF \E i \in DirCalled(dirs, cells) : dirs[i] = c
        THEN DirUpTo(dirs, cells)[CHOOSE i \in DirCalled(dirs, cells) : dirs[i] = c] ELSE cells[c]]

-----------------------------------------------------------------------------
(* Vertices: what they read, and what they serialize. *)

NonNil(outs) == SelectSeq(outs, LAMBDA o : o # NoOutput)

\* cartesianProduct: the axes by name, the values in their order.
CartesianProduct(axes) ==
    FoldLeft(LAMBDA cells, axis : FlattenSeq([i \in DOMAIN cells |-> [j \in DOMAIN axis |-> Append(cells[i], axis[j])]]),
             << << >> >>, axes)
\* expand: a state for every cell.
Expand(v) == [i \in DOMAIN CartesianProduct(v.axes) |-> v.fn[CartesianProduct(v.axes)[i]]]

SelectBranch(v) ==
    LET hits == {i \in DOMAIN v.branches : v.branches[i].key = v.key}
    IN  IF hits # {} THEN <<v.branches[CHOOSE i \in hits : \A j \in hits : i <= j].out>> ELSE v.default

\* A mount counts as an output: m.output is set, and it is neither read-only nor a tmpfs.
Counted(m) == m.mode = "rw" \/ (m.mode = "cache" /\ m.src # NoOutput)

InputOf(p) == IF p.path = << >> THEN llbHeap[p.n].head ELSE Last(p.path)

\* FileOp.Inputs: the base, then the copied states from the last action back, each once.
FileInputs(v) ==
    FoldLeft(LAMBDA outs, o : IF Contains(outs, o) THEN outs ELSE Append(outs, o),
             << >>, NonNil(<<v.base>> \o Reverse(v.acts)))
DefinitionInputs(p) ==
    [i \in DOMAIN InputOf(p).op.inputs |->
        [p |-> [p EXCEPT !.path = Append(@, InputOf(p).op.inputs[i])], m |-> 0, how |-> "plain"]]

Inputs(p) ==
    LET v == llbHeap[p.n] IN
    CASE p = ErrVertex -> << >>
      [] v.kind = "source" -> << >>
      [] v.kind = "exec" -> NonNil([i \in DOMAIN v.mounts |-> v.mounts[llbOrder[p.n][i]].src])
      [] v.kind = "file" -> FileInputs(v)
      [] v.kind = "merge" -> v.ins
      [] v.kind = "diff" -> NonNil(<<v.lower, v.upper>>)
      [] v.kind = "conditional" -> NonNil([i \in DOMAIN v.branches |-> v.branches[i].out] \o v.default)
      [] v.kind = "matrix" -> NonNil(Expand(v))
      [] v.kind \in {"gate", "solve", "inspect"} -> <<v.src>>
      [] v.kind = "definition" -> DefinitionInputs(p)

Vertex(out) == IF out.how = "error" THEN ErrVertex ELSE out.p

\* Variant: a mount that is read-only or a tmpfs is counted as well.
MountIndexAll(v, order, m) ==
    Cardinality({i \in DOMAIN order : order[i] # m /\ \E j \in DOMAIN order : j > i /\ order[j] = m})
\* getMountIndexFn: the outputs before the mount, in the order the mounts have now.
MountIndex(v, order, m) ==
    Cardinality({i \in DOMAIN order : /\ Counted(v.mounts[order[i]])
                                      /\ \E j \in DOMAIN order : j > i /\ order[j] = m})
Sorted(v) == SortSeq([i \in DOMAIN v.mounts |-> i], LAMBDA a, b : v.mounts[a].target < v.mounts[b].target)

OutIndex(out, order) ==
    LET v == llbHeap[out.p.n] IN
    CASE Vertex(out) = ErrVertex -> 0
      [] v.kind = "exec" -> MountIndex(v, order[out.p.n], out.m)
      [] v.kind = "definition" -> InputOf(out.p).index
      [] OTHER -> 0

\* MarshalConstraints: the vertex's own platform, else the caller's, else the default.
PlatformOf(v, r) == IF v.kind = "source" /\ v.platform # "" THEN v.platform
                    ELSE IF r.platform # "" THEN r.platform ELSE "default"

Op(kind, platform, inputs, body) ==
    [kind |-> kind, platform |-> platform, inputs |-> inputs, body |-> body, cwd |-> << >>, about |-> << >>]
FailOp(why) == Op(why, "", << >>, << >>)
Failed(op) == op.kind \in {"error", "panic"}
Entry(k, n, in) == [k |-> k, n |-> n, in |-> in, out |-> 0]
Checked(op) == IF \E i \in DOMAIN op.inputs : Failed(op.inputs[i].op)
               THEN op.inputs[CHOOSE i \in DOMAIN op.inputs : Failed(op.inputs[i].op)].op ELSE op
\* The place an output gets among the inputs, the absent ones left out; -1 is pb.Empty.
SlotOf(outs, i) ==
    IF outs[i] = NoOutput THEN -1 ELSE Cardinality({j \in 1..(i - 1) : outs[j] # NoOutput})

RECURSIVE LlbBytes(_, _), LlbWalk(_, _, _, _)
\* ToInput: the index the output has now, and the digest of its vertex.
ToInput(out, r) == [index |-> OutIndex(out, r.order), op |-> LlbBytes(Vertex(out), r)]
ToInputs(outs, r) == [i \in DOMAIN NonNil(outs) |-> ToInput(NonNil(outs)[i], r)]

ExecBytes(v, r) ==
    LET ms == [i \in DOMAIN v.mounts |-> v.mounts[Sorted(v)[i]]]
        srcs == [i \in DOMAIN ms |-> ms[i].src]
        wire(i) == [k |-> IF ms[i].mode = "noout" THEN "rw" ELSE ms[i].mode, n |-> ms[i].target,
                    in |-> SlotOf(srcs, i), out |-> IF Counted(ms[i]) THEN 0 ELSE -1]
    IN  [Op("exec", PlatformOf(v, r), ToInputs(srcs, r), [i \in DOMAIN ms |-> wire(i)] \o v.env)
            EXCEPT !.cwd = GetDir(v.dirs, r.cells)]
MergeBytes(outs, r) == Op("merge", "", ToInputs(outs, r), [i \in DOMAIN outs |-> Entry("in", i, i - 1)])
\* mergeop.Merge of the cells: scratch is left out, and one state alone stays what it is.
MatrixBytes(cells, r) ==
    LET kept == NonNil(cells) IN
    CASE cells = << >> \/ cells = <<NoOutput>> -> FailOp("error")
      [] kept = << >> /\ Len(cells) > 1 -> FailOp("panic")
      [] Len(kept) = 1 -> LlbBytes(Vertex(kept[1]), r)
      [] OTHER -> MergeBytes(kept, r)
ConditionalBytes(v, r) ==
    LET b == SelectBranch(v) IN
    CASE b = << >> -> FailOp("error")
      [] b = <<NoOutput>> -> Op("source", PlatformOf(v, r), << >>, <<Entry("conditional", 0, -1), Entry(v.key, 0, -1)>>)
      [] OTHER -> LlbBytes(Vertex(b[1]), r)

FileBytes(v, r) ==
    LET outs == <<v.base>> \o v.acts
        at(i) == IF v.acts[i] = NoOutput THEN 0 ELSE SlotOf(outs, i + 1)
    IN  Op("file", PlatformOf(v, r), ToInputs(outs, r), [i \in DOMAIN v.acts |-> Entry("act", i, at(i))])
DiffBytes(v, r) ==
    LET outs == <<v.lower, v.upper>>
    IN  Op("diff", "", ToInputs(outs, r), <<Entry("lower", 0, SlotOf(outs, 1)), Entry("upper", 0, SlotOf(outs, 2))>>)
SourceBytes(v, r) == Op("source", PlatformOf(v, r), << >>, <<Entry(v.name, 0, -1)>>)
GateBytes(v, r) == Op("source", PlatformOf(v, r), ToInputs(<<v.src>>, r), <<Entry("gate", 0, -1)>>)
SolveBytes(v, r) == Op("build", PlatformOf(v, r), ToInputs(<<v.src>>, r), <<Entry("llb", 0, 0)>>)
InspectBytes(v, r) ==
    LET found == LlbWalk(v.src, 0, [seen |-> {}, ops |-> << >>, depth |-> 0], r)
    IN  [Op("source", PlatformOf(v, r), ToInputs(<<v.src>>, r), <<Entry("inspect", found.depth, -1)>>)
            EXCEPT !.about = found.ops]
\* Validate and Marshal of a loaded operation: the definition must hold it.
DefinitionBytes(p) == IF InputOf(p).op \in Range(llbHeap[p.n].ops) THEN InputOf(p).op ELSE FailOp("error")

\* Marshal of a vertex: what its MarshalCache holds for the constraints, or its serialized form.
LlbBytes(p, r) ==
    LET v == llbHeap[p.n] IN
    CASE p = ErrVertex -> FailOp("error")
      [] p \in DOMAIN r.cache -> r.cache[p]
      [] p # ErrVertex /\ p \notin DOMAIN r.cache -> Checked(
            CASE v.kind = "source" -> SourceBytes(v, r)
              [] v.kind = "exec" -> IF v.args THEN ExecBytes(v, r) ELSE FailOp("error")
              [] v.kind = "file" -> FileBytes(v, r)
              [] v.kind = "merge" -> MergeBytes(v.ins, r)
              [] v.kind = "diff" -> DiffBytes(v, r)
              [] v.kind = "conditional" -> ConditionalBytes(v, r)
              [] v.kind = "matrix" -> MatrixBytes(Expand(v), r)
              [] v.kind = "gate" -> GateBytes(v, r)
              [] v.kind = "solve" -> SolveBytes(v, r)
              [] v.kind = "inspect" -> InspectBytes(v, r)
              [] v.kind = "definition" -> DefinitionBytes(p))

\* InspectOp.walk: every vertex once, before its inputs; one that cannot be marshalled ends its branch.
LlbWalk(out, depth, acc, r) ==
    LET p == Vertex(out)
        op == LlbBytes(p, r)
        here == [seen |-> acc.seen \cup {p}, ops |-> Append(acc.ops, op),
                 depth |-> IF depth > acc.depth THEN depth ELSE acc.depth]
    IN  IF p \in acc.seen THEN acc
        ELSE IF Failed(op) THEN [acc EXCEPT !.seen = @ \cup {p}]
        ELSE FoldLeft(LAMBDA a, o : LlbWalk(o, depth + 1, a, r), here, Inputs(p))

-----------------------------------------------------------------------------
(* The program builds the graph.  A constructor that is given only scratch *)
(* makes no vertex.                                                        *)

Calling(call) == llbLeft # << >> /\ Head(llbLeft) = call /\ llbLeft' = Tail(llbLeft)
Held == {llbStates[i] : i \in DOMAIN llbStates}
NewId == Len(llbHeap) + 1
Returns(states) == llbStates' = llbStates \o states
Made(v, states) == llbHeap' = Append(llbHeap, v) /\ Returns(states) /\ UNCHANGED <<llbOrder, llbCells>>
MadeNone(s) == Returns(<<s>>) /\ UNCHANGED <<llbHeap, llbOrder, llbCells>>

MakeSource(call) ==
    /\ Calling(call)
    /\ Made([kind |-> "source", name |-> call, platform |-> LlbSources[call]], <<NewState(OutputAt(NewId, 1))>>)
\* GetMount: a mount that is written to has an output of its own, the others hand on their source.
MountOutput(n, i, m) ==
    CASE m.mode = "rw" -> OutputAt(n, i) [] m.mode = "noout" -> NoOutput [] OTHER -> m.src
Run(call) ==
    /\ Calling(call)
    /\ \E base \in Held, ms \in LlbMounts[call], rootMode \in {"rw", "ro"} : \E srcs \in [DOMAIN ms -> Held] :
         LET mounts == <<[target |-> 0, mode |-> rootMode, src |-> base.out]>>
                       \o [i \in DOMAIN ms |-> [target |-> ms[i].target, mode |-> ms[i].mode, src |-> srcs[i].out]]
             root == IF rootMode = "ro" THEN NoOutput ELSE OutputAt(NewId, 1)
         IN  /\ llbHeap' = Append(llbHeap, [kind |-> "exec", mounts |-> mounts, args |-> call # "runBare",
                                           dirs |-> base.dirs, env |-> base.env])
             /\ Returns(<<NewState(root)>> \o [i \in DOMAIN ms |-> NewState(MountOutput(NewId, i + 1, mounts[i + 1]))])
             /\ llbOrder' = (NewId :> [i \in DOMAIN mounts |-> i]) @@ llbOrder
    /\ UNCHANGED llbCells
MakeFile ==
    /\ Calling("file")
    /\ \E base, src \in Held :
         Made([kind |-> "file", base |-> base.out, acts |-> <<NoOutput, src.out>>], <<WithOutput(base, OutputAt(NewId, 1))>>)
Merge ==
    /\ Calling("merge")
    /\ \E a, b \in Held :
         LET kept == SelectSeq(<<a, b>>, LAMBDA s : s.out # NoOutput) IN
         CASE kept = << >> -> MadeNone(Scratch)
           [] Len(kept) = 1 -> MadeNone(kept[1])
           [] OTHER -> Made([kind |-> "merge", ins |-> <<a.out, b.out>>], <<WithOutput(a, OutputAt(NewId, 1))>>)
Diff ==
    /\ Calling("diff")
    /\ \E a, b \in Held :
         IF a.out = NoOutput THEN MadeNone(IF b.out = NoOutput THEN Scratch ELSE b)
         ELSE Made([kind |-> "diff", lower |-> a.out, upper |-> b.out], <<WithOutput(a, OutputAt(NewId, 1))>>)
Switch ==
    /\ Calling("switch")
    /\ \E a, b \in Held, key \in {"x", "y"}, default \in {<< >>} \cup {<<s.out>> : s \in Held} :
         Made([kind |-> "conditional", branches |-> <<[key |-> "x", out |-> a.out], [key |-> "z", out |-> b.out]>>,
               key |-> key, default |-> default], <<NewState(OutputAt(NewId, 1))>>)
\* Two axes of one and two values: the cells differ in the second.
Matrix ==
    /\ Calling("matrix")
    /\ \E a, b \in Held, axes \in {<< <<"p">>, <<"q", "r">> >>, << <<"q">> >>} :
         Made([kind |-> "matrix", axes |-> axes,
               fn |-> [c \in Range(CartesianProduct(axes)) |-> IF Last(c) = "q" THEN a.out ELSE b.out]],
              <<NewState(OutputAt(NewId, 1))>>)
Wrap(call) ==
    /\ Calling(call)
    /\ \E s \in Held :
         IF s.out = NoOutput THEN MadeNone(Scratch)
         ELSE Made([kind |-> call, src |-> s.out], <<NewState([OutputAt(NewId, 1) EXCEPT !.how = IF call = "inspect" THEN call ELSE @])>>)
\* Async with a function that fails.
AsyncFails == Calling("async") /\ MadeNone(NewState([NoOutput EXCEPT !.how = "error"]))
AddEnv ==
    /\ Calling("env")
    /\ \E k \in {"A", "B"} :
         LET s == Last(llbStates)
         IN  MadeNone([s EXCEPT !.env = EnvSet(@, [k |-> k, n |-> Len(llbStates), in |-> -1, out |-> -1])])
SetDir(call) ==
    /\ Calling(call)
    /\ LET said == IF call = "absDir" THEN <<"/", "work">> ELSE <<"sub">> IN
         llbCells' = Append(llbCells, [now |-> said, said |-> said])
    /\ Returns(<<[Last(llbStates) EXCEPT !.dirs = Append(@, Len(llbCells) + 1)]>>)
    /\ UNCHANGED <<llbHeap, llbOrder>>
LlbBuild ==
    /\ \/ \E call \in DOMAIN LlbSources : MakeSource(call)
       \/ \E call \in DOMAIN LlbMounts : Run(call)
       \/ MakeFile \/ Merge \/ Diff \/ Switch \/ Matrix \/ AddEnv \/ AsyncFails
       \/ \E call \in {"gate", "solve", "inspect"} : Wrap(call)
       \/ \E call \in {"absDir", "relDir"} : SetDir(call)
    /\ UNCHANGED <<llbOf, llbRuns>>

-----------------------------------------------------------------------------
(* Marshalling: marshalVertex walks the inputs first and emits a vertex    *)
(* when they are done.  A frame of the stack is one call of it.            *)

View(g) == [platform |-> llbRuns[g].platform, cache |-> llbRuns[g].cache, order |-> llbOrder,
            cells |-> [c \in DOMAIN llbCells |-> llbCells[c].now]]
IsExec(p) == p.n > 0 /\ llbHeap[p.n].kind = "exec"
\* Marshal of the exec vertices ps sorts their mounts and calls the closures of their directories.
Disturb(ps) ==
    LET execs == {p.n : p \in {q \in ps : IsExec(q)}}
        after == FoldSet(LAMBDA n, cells : CellsAfter(llbHeap[n].dirs, cells), [c \in DOMAIN llbCells |-> llbCells[c].now], execs)
    IN  /\ llbOrder' = [n \in DOMAIN llbOrder |-> IF n \in execs THEN Sorted(llbHeap[n]) ELSE llbOrder[n]]
        /\ llbCells' = [c \in DOMAIN llbCells |-> [llbCells[c] EXCEPT !.now = after[c]]]
\* A matrix, a branch that was selected and a loaded operation are not put into a MarshalCache.
Memoised(p) ==
    /\ p # ErrVertex /\ llbHeap[p.n].kind \notin {"matrix", "definition"}
    /\ llbHeap[p.n].kind = "conditional" => SelectBranch(llbHeap[p.n]) = <<NoOutput>>
Below(p) == LlbWalk([NoOutput EXCEPT !.p = p], 0, [seen |-> {}, ops |-> << >>, depth |-> 0],
                    [platform |-> "", cache |-> << >>, order |-> llbOrder, cells |-> [c \in DOMAIN llbCells |-> llbCells[c].now]]).seen
\* The vertices that asking an output for its vertex marshals: all below an Inspect.
Marshalled(g, out) ==
    IF out.how # "inspect" THEN {}
    ELSE {p \in Below(llbHeap[out.p.n].src.p) : Memoised(p) /\ p \notin DOMAIN llbRuns[g].cache /\ ~Failed(LlbBytes(p, View(g)))}
Cached(r, ps, view) == [r EXCEPT !.cache = [p \in ps |-> LlbBytes(p, view)] @@ @]

Entered(r, p) == [r EXCEPT !.seen = @ \cup {p}, !.stack = Append(@, [p |-> p, left |-> Inputs(p)])]
\* The bound on what is marshalled: one of the two States the program has got last.
LastTwo == {i \in DOMAIN llbStates : i > Len(llbStates) - 2}
LlbStart(g) ==
    /\ llbLeft = << >> /\ llbRuns[g].pc = "idle"
    /\ g = 2 => llbOf.together \/ llbRuns[1].pc = "done"
    /\ \E mode \in {"state", "builder"}, root \in {llbStates[i].out : i \in LastTwo} :
         LET r == [llbRuns[g] EXCEPT !.platform = llbOf.platform, !.mode = mode, !.root = root,
                                     !.pc = IF mode = "builder" THEN "walk" ELSE "marshal"]
             ps == Marshalled(g, root)
         IN  /\ g = 2 => /\ mode = "state"
                         /\ root = llbRuns[1].root \/ (root.how = "plain" /\ llbHeap[root.p.n].kind = "definition")
             /\ llbRuns' = [llbRuns EXCEPT ![g] =
                    IF root = NoOutput THEN [r EXCEPT !.pc = "done"]
                    ELSE Entered(Cached(r, ps, [View(g) EXCEPT !.platform = llbOf.platform]), Vertex(root))]
             /\ Disturb(ps)
    /\ UNCHANGED <<llbOf, llbLeft, llbHeap, llbStates>>
Frame(g) == Last(llbRuns[g].stack)
LlbDescend(g) ==
    /\ llbRuns[g].stack # << >> /\ Frame(g).left # << >>
    /\ LET out == Head(Frame(g).left)
           ps == Marshalled(g, out)
           r == Cached([llbRuns[g] EXCEPT !.stack[Len(llbRuns[g].stack)].left = Tail(@)], ps, View(g))
       IN  /\ llbRuns' = [llbRuns EXCEPT ![g] = IF Vertex(out) \in r.seen THEN r ELSE Entered(r, Vertex(out))]
           /\ Disturb(ps)
    /\ UNCHANGED <<llbOf, llbLeft, llbHeap, llbStates>>
Popped(r) == [r EXCEPT !.stack = Front(@)]
\* Walk: the visitor is called after the inputs have been visited.
LlbVisit(g) ==
    /\ llbRuns[g].pc = "walk" /\ llbRuns[g].stack # << >> /\ Frame(g).left = << >>
    /\ llbRuns' = [llbRuns EXCEPT ![g] = [Popped(@) EXCEPT !.visited = Append(@, Frame(g).p)]]
    /\ UNCHANGED <<llbOf, llbLeft, llbHeap, llbStates, llbOrder, llbCells>>
LlbWalked(g) ==
    /\ llbRuns[g].pc = "walk" /\ llbRuns[g].stack = << >>
    /\ llbRuns' = [llbRuns EXCEPT ![g] = Entered([@ EXCEPT !.pc = "marshal", !.seen = {}], Vertex(@.root))]
    /\ UNCHANGED <<llbOf, llbLeft, llbHeap, llbStates, llbOrder, llbCells>>
\* The second half of marshalVertex: an error ends the call, and bytes that are there already are not added.
LlbEmit(g) ==
    /\ llbRuns[g].pc = "marshal" /\ llbRuns[g].stack # << >> /\ Frame(g).left = << >>
    /\ LET p == Frame(g).p
           op == LlbBytes(p, View(g))
           r == llbRuns[g]
           kept == IF Memoised(p) THEN [r EXCEPT !.cache = (p :> op) @@ @] ELSE r
       IN  /\ llbRuns' = [llbRuns EXCEPT ![g] =
                IF Failed(op) THEN [r EXCEPT !.pc = op.kind, !.def = << >>, !.stack = << >>]
                ELSE [Popped(kept) EXCEPT !.def = IF Contains(@, op) THEN @ ELSE Append(@, op)]]
           /\ Disturb(IF p \in DOMAIN r.cache THEN {} ELSE {p})
    /\ UNCHANGED <<llbOf, llbLeft, llbHeap, llbStates>>
\* State.Marshal ends with an operation that refers to the state's output; MarshalGraph does not.
LlbEnd(g) ==
    /\ llbRuns[g].pc = "marshal" /\ llbRuns[g].stack = << >>
    /\ llbRuns' = [llbRuns EXCEPT ![g].pc = "done",
                     ![g].def = IF llbRuns[g].mode = "builder" THEN @
                                ELSE Append(@, Op("", "", <<ToInput(llbRuns[g].root, View(g))>>, << >>))]
    /\ UNCHANGED <<llbOf, llbLeft, llbHeap, llbStates, llbOrder, llbCells>>
\* NewDefinitionOp of the first call's definition, whose last operation names the head.
LlbLoad ==
    /\ llbRuns[1].pc = "done" /\ llbRuns[1].mode = "state" /\ llbRuns[1].def # << >> /\ llbRuns[2].pc = "idle"
    /\ \A i \in DOMAIN llbHeap : llbHeap[i].kind # "definition"
    /\ llbHeap' = Append(llbHeap, [kind |-> "definition", ops |-> llbRuns[1].def, head |-> Last(llbRuns[1].def).inputs[1]])
    /\ Returns(<<NewState(OutputAt(NewId, 1))>>)
    /\ UNCHANGED <<llbOf, llbLeft, llbOrder, llbCells, llbRuns>>

IdleRun == [pc |-> "idle", mode |-> "state", root |-> NoOutput, platform |-> "", cache |-> << >>, seen |-> {},
            stack |-> << >>, def |-> << >>, visited |-> << >>]
LlbInit ==
    /\ llbOf \in LlbPrograms /\ llbLeft = llbOf.calls
    /\ llbHeap = << >> /\ llbStates = <<Scratch>> /\ llbOrder = << >> /\ llbCells = << >>
    /\ llbRuns = <<IdleRun, IdleRun>>
LlbNext ==
    \/ LlbBuild \/ LlbLoad
    \/ \E g \in 1..2 : LlbStart(g) \/ LlbDescend(g) \/ LlbVisit(g) \/ LlbWalked(g) \/ LlbEmit(g) \/ LlbEnd(g)

-----------------------------------------------------------------------------
Whole(g) == llbRuns[g].pc = "done" /\ llbRuns[g].def # << >>

\* An operation comes once, after those it reads: what the solver is given can be solved from first
\* to last, whatever vertices the program shares or makes twice (marshalVertex).
DefinitionClosed ==
    \A g \in 1..2 : Whole(g) =>
        LET def == llbRuns[g].def IN
        /\ Cardinality(Range(def)) = Len(def)
        /\ \A i \in DOMAIN def : \A k \in DOMAIN def[i].inputs : \E j \in 1..(i - 1) : def[j] = def[i].inputs[k].op

\* An operation says what the program said: marshalling it depends on no earlier or concurrent call,
\* although calls sort the mounts in place and the closures of dir remember what they computed.
Meaning(p, platform) ==
    LlbBytes(p, [platform |-> platform, cache |-> << >>,
                 order |-> [n \in DOMAIN llbOrder |-> Sorted(llbHeap[n])],
                 cells |-> [c \in DOMAIN llbCells |-> llbCells[c].said]])
MarshalMeans ==
    \A g \in 1..2 :
        /\ \A p \in DOMAIN llbRuns[g].cache : llbRuns[g].cache[p] = Meaning(p, llbRuns[g].platform)
        /\ Whole(g) /\ llbRuns[g].mode = "state" =>
             Last(llbRuns[g].def).inputs[1].op = Meaning(Vertex(llbRuns[g].root), llbRuns[g].platform)

\* The index of an exec's output is the place of its mount among the mounts serialized with an output
\* (getMountIndexFn and ExecOp.Marshal count on their own).
IndexNamesMount ==
    \A g \in 1..2 : Whole(g) /\ llbRuns[g].mode = "state" /\ IsExec(Vertex(llbRuns[g].root)) =>
        LET in == Last(llbRuns[g].def).inputs[1]
            outs == SelectSeq(in.op.body, LAMBDA b : b.k \in {"rw", "ro", "tmpfs", "cache"} /\ b.out = 0)
            root == llbRuns[g].root
        IN  in.index < Len(outs) /\ outs[in.index + 1].n = llbHeap[root.p.n].mounts[root.m].target

\* Every combination of axis values is an input of the matrix, or is the matrix.
MatrixComplete ==
    \A g \in 1..2 : Whole(g) /\ llbRuns[g].mode = "state" /\ llbRuns[g].root.p.n > 0 =>
        LET v == llbHeap[llbRuns[g].root.p.n]
            top == Last(llbRuns[g].def).inputs[1].op
        IN  v.kind = "matrix" =>
              \A c \in {<<x, y>> : x \in Range(v.axes[1]), y \in Range(Last(v.axes))} :
                  LET cell == IF Len(v.axes) = 1 THEN <<c[2]>> ELSE c
                      op == Meaning(Vertex(v.fn[cell]), llbRuns[g].platform)
                  IN  v.fn[cell] = NoOutput \/ op = top \/ \E k \in DOMAIN top.inputs : top.inputs[k].op = op

\* A definition that is loaded and marshalled again has the same head and exactly the operations the
\* head needs; one that is only marshalled again has the same operations.
SecondAgrees ==
    Whole(1) /\ Whole(2) /\ llbRuns[1].mode = "state" =>
        LET one == llbRuns[1].def
            two == llbRuns[2].def
        IN  /\ Last(one) = Last(two) /\ Range(two) \subseteq Range(one)
            /\ llbRuns[1].root = llbRuns[2].root => Range(two) = Range(one)
            /\ llbRuns[1].root # llbRuns[2].root =>
                 \A i \in 1..(Len(two) - 1) : \E j \in (i + 1)..Len(two) : \E k \in DOMAIN two[j].inputs : two[j].inputs[k].op = two[i]

\* The visitor sees every vertex once, after its inputs.
WalkVisitsInputsFirst ==
    \A g \in 1..2 : LET seen == llbRuns[g].visited IN
        /\ Cardinality(Range(seen)) = Len(seen)
        /\ \A i \in DOMAIN seen : \A k \in DOMAIN Inputs(seen[i]) :
             \E j \in 1..(i - 1) : seen[j] = Vertex(Inputs(seen[i])[k])

\* What State.Marshal and GraphBuilder.Build hand to the solver.
DefinitionsSound ==
    DefinitionClosed /\ MarshalMeans /\ IndexNamesMount /\ MatrixComplete /\ SecondAgrees /\ WalkVisitsInputsFirst
=============================================================================
