---------------------------- MODULE FilesProofs -----------------------------
(***************************************************************************)
(* Proofs about the packages that work on directory trees: that dirsync    *)
(* and dirpruner keep the promise of Pruning, for every pair of trees,     *)
(* filter, handlers, sizes of the channels and number of workers           *)
(* (RemovesAsMeant of DirSync, PrunesAsMeant of DirPruner), and that the   *)
(* engine of layermerkle is sound, for every set of events and layers and  *)
(* every capacity (EngineSound of MerkleEngine).                           *)
(***************************************************************************)
EXTENDS DirSync, DirPruner, MerkleEngine, TLAPS, SequenceTheorems, FiniteSetTheorems, WellFoundedInduction

-----------------------------------------------------------------------------
(* What is in a queue after an entry is put in it or taken out.            *)
LEMMA QueuePut ==
    ASSUME NEW S, NEW q \in Seq(S), NEW x \in S
    PROVE  Append(q, x) \in Seq(S) /\ Range(Append(q, x)) = Range(q) \cup {x}
<1> DEFINE t == Append(q, x)
<1>1. t \in Seq(S) /\ Len(t) = Len(q) + 1 /\ t[Len(q) + 1] = x /\ \A i \in 1..Len(q) : t[i] = q[i]
  OBVIOUS
<1>2. DOMAIN q = 1..Len(q) /\ DOMAIN t = 1..Len(t) /\ Len(q) \in Nat
  BY <1>1
<1> HIDE DEF t
<1>3. \A i \in 1..Len(t) : i \in 1..Len(q) \/ i = Len(q) + 1
  BY <1>1, <1>2
<1>4. Len(q) + 1 \in 1..Len(t) /\ \A i \in 1..Len(q) : i \in 1..Len(t)
  BY <1>1, <1>2
<1>5. Range(t) = Range(q) \cup {x}
  BY <1>1, <1>2, <1>3, <1>4 DEF Range
<1>6. QED
  BY <1>1, <1>5 DEF t
LEMMA QueueGet ==
    ASSUME NEW S, NEW q \in Seq(S), q # <<>>
    PROVE  /\ Head(q) \in S /\ Tail(q) \in Seq(S)
           /\ Range(q) = Range(Tail(q)) \cup {Head(q)}
<1> DEFINE n == Len(q)  t == Tail(q)
<1>1. n \in Nat /\ n > 0
  BY EmptySeq
<1>2. Head(q) \in S /\ t \in Seq(S) /\ Head(q) = q[1]
  BY HeadTailProperties
<1>3. Len(t) = n - 1 /\ \A i \in 1..(n - 1) : t[i] = q[i + 1]
  BY <1>1
<1>4. DOMAIN q = 1..n /\ DOMAIN t = 1..(n - 1)
  BY <1>2, <1>3
<1> HIDE DEF n, t
<1>5. 1 \in 1..n /\ \A i \in 1..(n - 1) : i + 1 \in 1..n
  BY <1>1
<1>6. \A i \in 1..n : i = 1 \/ (i - 1 \in 1..(n - 1) /\ (i - 1) + 1 = i)
  BY <1>1
<1>7. Range(t) \subseteq Range(q) /\ q[1] \in Range(q)
  BY <1>3, <1>4, <1>5 DEF Range
<1>8. ASSUME NEW i \in 1..n PROVE q[i] \in Range(t) \cup {Head(q)}
  <2>1. CASE i = 1
    BY <1>2, <2>1
  <2>2. CASE i # 1
    <3>1. i - 1 \in 1..(n - 1) /\ (i - 1) + 1 = i
      BY <1>6, <2>2
    <3>2. t[i - 1] = q[i]
      BY <1>3, <3>1
    <3>3. QED
      BY <1>4, <3>1, <3>2 DEF Range
  <2>3. QED
    BY <2>1, <2>2
<1>9. Range(q) \subseteq Range(t) \cup {Head(q)}
  BY <1>4, <1>8 DEF Range
<1>10. QED
  BY <1>2, <1>7, <1>9 DEF t
LEMMA QueueNone == ASSUME NEW S PROVE <<>> \in Seq(S) /\ Range(<<>>) = {}
<1>1. DOMAIN <<>> = {}
  OBVIOUS
<1>2. QED
  BY <1>1 DEF Range

-----------------------------------------------------------------------------
(* A set of numbers has a least element.                                   *)
Before == {p \in Nat \X Nat : p[1] < p[2]}
LEMMA BeforeFacts == \A i, j \in Nat : <<i, j>> \in Before <=> i < j
BY DEF Before
LEMMA BeforeWF == IsWellFoundedOn(Before, Nat)
<1>1. Before = OpToRel(<, Nat)
  BY Zenon DEF Before, OpToRel
<1>2. QED
  BY <1>1, NatLessThanWellFounded, Zenon
LEMMA FirstOf == ASSUME NEW T \in SUBSET Nat, T # {} PROVE \E x \in T : \A y \in T : x <= y
<1>1. PICK x \in T : \A y \in T : <<y, x>> \notin Before
  BY BeforeWF, WFMin
<1>2. ASSUME NEW y \in T PROVE x <= y
  <2>1. ~(y < x) /\ x \in Nat /\ y \in Nat
    BY <1>1, <1>2, BeforeFacts
  <2>2. QED
    BY <2>1
<1>3. QED
  BY <1>2

-----------------------------------------------------------------------------
(* The invariant of dirsync's pipeline: what is in its channels and with   *)
(* its workers comes from the walk, and says "same" of what is the same.   *)
ExcEntries == {e \in Range(dsWalk) : e.to = "exclusive"}
ComEntries == {e \in Range(dsWalk) : e.to = "common"}
ComPaths == {e.path : e \in ComEntries}
Hashed == {x \in [path : ComPaths, eq : {"same", "other", "unknown"}] : x.eq = "same" => HashResult(x.path) = "same"}
PipeShape ==
    /\ dsOf \in DsWorlds /\ dsWalk = WalkBoth(dsOf.lower, dsOf.upper, dsOf.filter, <<>>)
    /\ dsMeant = Meant(dsOf) /\ dsReach = Meant(dsOf) \cup Overreach(dsOf) /\ dsLeft \subseteq Merged(dsOf)
    /\ dsSent \in 0..Len(dsWalk)
    /\ excQ \in Seq(ExcEntries) /\ excW \subseteq ExcEntries /\ comQ \in Seq(ComEntries)
    /\ DOMAIN hashW \subseteq ComPaths
    /\ \A p \in DOMAIN hashW : hashW[p] # "hash" => [path |-> p, eq |-> hashW[p]] \in Hashed
    /\ enrQ \in Seq(Hashed) /\ comW \subseteq Hashed

\* Every removal in the batcher is of what may go, but for those the ring refuses.
OpIsMeant(o) ==
    \/ Hit(dsOf, o.path, o.all) \subseteq dsReach
    \/ Refuses(o)
OpsMeant == \A o \in dsPend \cup dsExec : OpIsMeant(o)

PipePhases ==
    /\ hashEnd => dsCls = "end" /\ comQ = <<>> /\ DOMAIN hashW = {}
    /\ dsPc # "stages" => StagesOver /\ dsPend = {}
    /\ dsPc \in {"stages", "done"} => dsExec = {}
    /\ dsPc \in {"stages", "flush", "hung", "done"}
    /\ dsCls = "end" /\ ~dsCtx /\ dsErrs = {} => dsSent = Len(dsWalk)

\* What is meant to go is ahead of the classifier or on its way to the batcher.
Ahead(p) == \E i \in (dsSent + 1)..Len(dsWalk) : p \in Hit(dsOf, dsWalk[i].path, dsWalk[i].collapsed)
ToHandle(p) == \E e \in Range(excQ) \cup excW : p \in Hit(dsOf, e.path, e.collapsed)
ToCompare(p) == (\E e \in Range(comQ) : e.path = p) \/ p \in DOMAIN hashW
Compared(p) == [path |-> p, eq |-> "same"] \in Range(enrQ) \cup comW
ToRemove(p) == \E o \in dsPend \cup dsExec : p \in Hit(dsOf, o.path, o.all)
OnItsWay(p) == Ahead(p) \/ ToHandle(p) \/ ToCompare(p) \/ Compared(p) \/ ToRemove(p)
NoneLost ==
    ~dsCtx /\ dsErrs = {} =>
        /\ \A p \in dsMeant \cap dsLeft : OnItsWay(p)
        /\ \A p \in dsMeant \cap DOMAIN hashW : hashW[p] \in {"hash", "same"}

PipeInv == PipeShape /\ OpsMeant /\ PipePhases /\ NoneLost

-----------------------------------------------------------------------------
(* What a right walk says of its entries.                                  *)
LEMMA SameWorld ==
    ASSUME UNCHANGED given
    PROVE  /\ dsOf' = dsOf /\ dsWalk' = dsWalk /\ dsMeant' = dsMeant /\ dsReach' = dsReach
           /\ ExcEntries' = ExcEntries /\ ComEntries' = ComEntries /\ ComPaths' = ComPaths /\ Hashed' = Hashed
<1>1. dsOf' = dsOf /\ dsWalk' = dsWalk /\ dsMeant' = dsMeant /\ dsReach' = dsReach
  BY DEF given
<1>2. ExcEntries' = ExcEntries /\ ComEntries' = ComEntries
  BY <1>1 DEF ExcEntries, ComEntries
<1>3. ComPaths' = ComPaths
  BY <1>2 DEF ComPaths
<1>4. ASSUME NEW p PROVE HashResult(p)' = HashResult(p)
  <2>1. CASE dsOf.lower[p].kind \notin {"file", "link"} \/ p \in dsOf.hashFails
    BY <1>1, <2>1 DEF HashResult
  <2>2. CASE ~(dsOf.lower[p].kind \notin {"file", "link"} \/ p \in dsOf.hashFails)
    <3>1. HashResult(p) = IF Equal(dsOf.lower[p], dsOf.upper[p]) THEN "same" ELSE "other"
      BY <2>2 DEF HashResult
    <3>2. HashResult(p)' = IF Equal(dsOf.lower[p], dsOf.upper[p]) THEN "same" ELSE "other"
      BY <1>1, <2>2 DEF HashResult
    <3>3. QED
      BY <3>1, <3>2
  <2>3. QED
    BY <2>1, <2>2
<1>5. Hashed' = Hashed
  BY <1>3, <1>4, Zenon DEF Hashed
<1>6. QED
  BY <1>1, <1>2, <1>3, <1>5
LEMMA WalkEntries ==
    ASSUME PipeShape, WalkIsRight(dsOf)
    PROVE  /\ Len(dsWalk) \in Nat
           /\ \A i \in 1..Len(dsWalk) : dsWalk[i] \in Range(dsWalk)
           /\ \A e \in Range(dsWalk) : e \in ExcEntries \/ e \in ComEntries
           /\ \A e \in ExcEntries : e.to = "exclusive" /\ e.collapsed \in BOOLEAN /\ OpIsMeant(Op(e.path, e.collapsed))
           /\ \A e \in ComEntries :
                 /\ e.to = "common" /\ e.path \in ComPaths /\ ~e.collapsed
                 /\ e.path \in DOMAIN dsOf.lower /\ e.path \in DOMAIN dsOf.upper
                 /\ IsDir(dsOf.lower, e.path) \/ Selected(dsOf.filter, e.path)
           /\ \A p \in dsMeant \cap Merged(dsOf) :
                 \E i \in 1..Len(dsWalk) : p \in Hit(dsOf, dsWalk[i].path, dsWalk[i].collapsed)
<1> DEFINE WalkEntry == [to : {"exclusive", "common"}, path : DOMAIN dsOf.lower, collapsed : BOOLEAN]
<1>1. dsWalk = WalkBoth(dsOf.lower, dsOf.upper, dsOf.filter, <<>>) /\ dsMeant = Meant(dsOf)
      /\ dsReach = Meant(dsOf) \cup Overreach(dsOf)
  BY DEF PipeShape
<1>2. /\ dsWalk \in Seq(WalkEntry)
      /\ \A i \in 1..Len(dsWalk) :
             IF dsWalk[i].to = "exclusive"
             THEN \/ dsOf.ring /\ dsWalk[i].collapsed /\ dsWalk[i].path \in DOMAIN dsOf.upper
                  \/ Hit(dsOf, dsWalk[i].path, dsWalk[i].collapsed) \subseteq dsReach
             ELSE /\ ~dsWalk[i].collapsed /\ dsWalk[i].path \in DOMAIN dsOf.upper
                  /\ IsDir(dsOf.lower, dsWalk[i].path) \/ Selected(dsOf.filter, dsWalk[i].path)
      /\ \A p \in dsMeant \cap Merged(dsOf) :
             \E i \in 1..Len(dsWalk) : p \in Hit(dsOf, dsWalk[i].path, dsWalk[i].collapsed)
  BY <1>1, Zenon DEF WalkIsRight
<1>3. Len(dsWalk) \in Nat /\ DOMAIN dsWalk = 1..Len(dsWalk) /\ \A i \in 1..Len(dsWalk) : dsWalk[i] \in WalkEntry
  <2>1. dsWalk \in Seq(WalkEntry)
    BY <1>2
  <2> HIDE DEF WalkEntry
  <2>2. QED
    BY <2>1
<1>4. \A e \in Range(dsWalk) : \E i \in 1..Len(dsWalk) : e = dsWalk[i]
  BY <1>3 DEF Range
<1>5. \A i \in 1..Len(dsWalk) : dsWalk[i] \in Range(dsWalk)
  BY <1>3 DEF Range
<1>6. ASSUME NEW e \in Range(dsWalk) PROVE e \in ExcEntries \/ e \in ComEntries
  BY <1>3, <1>4 DEF ExcEntries, ComEntries
<1>7. ASSUME NEW e \in ExcEntries PROVE e.to = "exclusive" /\ e.collapsed \in BOOLEAN /\ OpIsMeant(Op(e.path, e.collapsed))
  <2>1. e \in Range(dsWalk) /\ e.to = "exclusive"
    BY DEF ExcEntries
  <2>2. PICK i \in 1..Len(dsWalk) : e = dsWalk[i]
    BY <1>4, <2>1
  <2>3. e \in WalkEntry
    BY <1>3, <2>2
  <2>4. Op(e.path, e.collapsed).path = e.path /\ Op(e.path, e.collapsed).all = e.collapsed
    BY DEF Op
  <2>5. QED
    BY <1>2, <2>1, <2>2, <2>3, <2>4 DEF OpIsMeant, Refuses
<1>8. ASSUME NEW e \in ComEntries
      PROVE  /\ e.to = "common" /\ e.path \in ComPaths /\ ~e.collapsed
             /\ e.path \in DOMAIN dsOf.lower /\ e.path \in DOMAIN dsOf.upper
             /\ IsDir(dsOf.lower, e.path) \/ Selected(dsOf.filter, e.path)
  <2>1. e \in Range(dsWalk) /\ e.to = "common"
    BY DEF ComEntries
  <2>2. PICK i \in 1..Len(dsWalk) : e = dsWalk[i]
    BY <1>4, <2>1
  <2>3. e \in WalkEntry
    BY <1>3, <2>2
  <2>4. e.path \in DOMAIN dsOf.lower
    BY <2>3
  <2>5. e.path \in ComPaths
    BY DEF ComPaths
  <2>6. QED
    BY <1>2, <2>1, <2>2, <2>4, <2>5
<1>9. QED
  BY <1>2, <1>3, <1>5, <1>6, <1>7, <1>8

(* What is compared and found the same is meant to go, and the other way.  *)
LEMMA ComparedPaths ==
    ASSUME PipeShape, WalkIsRight(dsOf), NEW p \in ComPaths
    PROVE  /\ HashResult(p) = "same" => OpIsMeant(Op(p, FALSE))
           /\ p \in dsMeant /\ p \notin dsOf.hashFails => HashResult(p) = "same"
           /\ HashResult(p) \in {"same", "other", "unknown"}
<1>1. PICK e \in ComEntries : e.path = p
  BY DEF ComPaths
<1>2. /\ p \in DOMAIN dsOf.lower /\ p \in DOMAIN dsOf.upper
      /\ IsDir(dsOf.lower, p) \/ Selected(dsOf.filter, p)
  BY <1>1, WalkEntries
<1>3. dsOf \in DsWorlds /\ dsMeant = Meant(dsOf) /\ dsMeant \subseteq dsReach
  BY DEF PipeShape
<1>4. dsOf.lower[p].kind \in {"file", "link", "dir"}
  BY <1>2, <1>3, DsAssumption
<1>5. ASSUME HashResult(p) = "same" PROVE OpIsMeant(Op(p, FALSE))
  <2>1. dsOf.lower[p].kind \in {"file", "link"} /\ Equal(dsOf.lower[p], dsOf.upper[p])
    BY <1>5 DEF HashResult
  <2>2. p \in Meant(dsOf)
    BY <1>2, <2>1 DEF Meant, IsDir
  <2>3. Op(p, FALSE).path = p /\ Op(p, FALSE).all = FALSE
    BY DEF Op
  <2>4. QED
    BY <1>3, <2>2, <2>3 DEF OpIsMeant, Hit
<1>6. ASSUME p \in dsMeant, p \notin dsOf.hashFails PROVE HashResult(p) = "same"
  <2>1. dsOf.lower[p].kind # "dir" /\ Equal(dsOf.lower[p], dsOf.upper[p])
    BY <1>2, <1>3, <1>6 DEF Meant
  <2>2. dsOf.lower[p].kind \in {"file", "link"}
    BY <1>4, <2>1
  <2>3. QED
    BY <1>6, <2>1, <2>2 DEF HashResult
<1>7. HashResult(p) \in {"same", "other", "unknown"}
  BY DEF HashResult
<1>8. QED
  BY <1>5, <1>6, <1>7

-----------------------------------------------------------------------------
(* The invariant holds at first.                                           *)
LEMMA PipeStarts == ASSUME \A w \in DsWorlds : WalkIsRight(w), DsInit PROVE PipeInv
<1>1. /\ dsOf \in DsWorlds /\ dsWalk = WalkBoth(dsOf.lower, dsOf.upper, dsOf.filter, <<>>) /\ dsMeant = Meant(dsOf)
      /\ dsReach = Meant(dsOf) \cup Overreach(dsOf) /\ dsSent = 0 /\ dsCls = "run" /\ excQ = <<>> /\ comQ = <<>> /\ enrQ = <<>> /\ hashW = <<>> /\ hashEnd = FALSE
      /\ excW = {} /\ comW = {} /\ dsPend = {} /\ dsExec = {} /\ dsPc = "stages" /\ dsLeft = Merged(dsOf)
  BY DEF DsInit
<1>2. DOMAIN hashW = {}
  BY <1>1
<1>3. Len(dsWalk) \in Nat
  <2>1. dsWalk \in Seq([to : {"exclusive", "common"}, path : DOMAIN dsOf.lower, collapsed : BOOLEAN])
    BY <1>1, Zenon DEF WalkIsRight
  <2>2. QED
    BY <2>1
<1>4. PipeShape
  BY <1>1, <1>2, <1>3, QueueNone DEF PipeShape
<1>5. OpsMeant /\ PipePhases
  BY <1>1 DEF OpsMeant, PipePhases
<1>6. NoneLost
  <2>1. ASSUME NEW p \in dsMeant \cap dsLeft PROVE Ahead(p)
    <3>1. PICK i \in 1..Len(dsWalk) : p \in Hit(dsOf, dsWalk[i].path, dsWalk[i].collapsed)
      BY <1>1, <1>4, WalkEntries
    <3>2. i \in (dsSent + 1)..Len(dsWalk)
      BY <1>1, <1>3
    <3>3. QED
      BY <3>1, <3>2 DEF Ahead
  <2>2. QED
    BY <1>2, <2>1 DEF NoneLost, OnItsWay
<1>7. QED
  BY <1>4, <1>5, <1>6 DEF PipeInv

-----------------------------------------------------------------------------
(* The channels and the workers after each step.                           *)
Other == ClassifyFails \/ ClassifyEnds \/ HashEnds \/ Flush \/ (\E o \in dsExec : Execute(o)) \/ Hang \/ Done \/ DsCancel
LEMMA StepSame ==
    ASSUME [DsNext]_dsVars
    PROVE  /\ UNCHANGED given /\ dsLeft' \subseteq dsLeft
           /\ Other \/ UNCHANGED dsVars => UNCHANGED <<dsSent, excQ, comQ, enrQ, hashW, excW, comW>>
<1>1. CASE UNCHANGED dsVars
  BY <1>1 DEF dsVars, stageVars
<1>2. CASE ClassifyFails \/ ClassifyEnds \/ HashEnds \/ Flush \/ Hang \/ Done \/ DsCancel
  BY <1>2 DEF ClassifyFails, ClassifyEnds, HashEnds, Flush, Hang, Done, DsCancel, stageVars
<1>3. CASE \E o \in dsExec : Execute(o)
  BY <1>3 DEF Execute, stageVars
<1>4. CASE ~Other
  <2>1. UNCHANGED dsVars => Other \/ UNCHANGED <<dsSent, excQ, comQ, enrQ, hashW, excW, comW>>
    BY DEF dsVars, stageVars
  <2>2. CASE ClassifySend \/ HashTake
    BY <1>4, <2>1, <2>2 DEF ClassifySend, HashTake, given
  <2>3. CASE \E p \in DOMAIN hashW : HashOne(p) \/ HashSend(p)
    BY <1>4, <2>1, <2>3 DEF HashOne, HashSend
  <2>4. CASE ExclusiveTake \/ CommonTake
    BY <1>4, <2>1, <2>4 DEF ExclusiveTake, CommonTake
  <2>5. CASE \E e \in excW : ExclusiveWork(e)
    BY <1>4, <2>1, <2>5 DEF ExclusiveWork
  <2>6. CASE \E e \in comW : CommonWork(e)
    BY <1>4, <2>1, <2>6 DEF CommonWork
  <2>7. QED
    BY <1>1, <1>4, <2>2, <2>3, <2>4, <2>5, <2>6 DEF DsNext, DsStep, Other
<1>5. QED
  BY <1>2, <1>3, <1>4 DEF Other
LEMMA PipeShapeNext ==
    ASSUME PipeShape, WalkIsRight(dsOf), [DsNext]_dsVars
    PROVE  PipeShape'
<1>1. /\ dsOf \in DsWorlds /\ dsWalk = WalkBoth(dsOf.lower, dsOf.upper, dsOf.filter, <<>>) /\ dsMeant = Meant(dsOf)
      /\ dsReach = Meant(dsOf) \cup Overreach(dsOf) /\ dsLeft \subseteq Merged(dsOf) /\ dsSent \in 0..Len(dsWalk)
      /\ excQ \in Seq(ExcEntries) /\ excW \subseteq ExcEntries /\ comQ \in Seq(ComEntries)
      /\ DOMAIN hashW \subseteq ComPaths
      /\ \A p \in DOMAIN hashW : hashW[p] # "hash" => [path |-> p, eq |-> hashW[p]] \in Hashed
      /\ enrQ \in Seq(Hashed) /\ comW \subseteq Hashed
  BY DEF PipeShape
<1>2. /\ dsOf' = dsOf /\ dsWalk' = dsWalk /\ dsMeant' = dsMeant /\ dsReach' = dsReach /\ dsLeft' \subseteq dsLeft
      /\ ExcEntries' = ExcEntries /\ ComEntries' = ComEntries /\ ComPaths' = ComPaths /\ Hashed' = Hashed
  BY StepSame, SameWorld
<1>3. SUFFICES /\ dsSent' \in 0..Len(dsWalk)
               /\ excQ' \in Seq(ExcEntries) /\ excW' \subseteq ExcEntries /\ comQ' \in Seq(ComEntries)
               /\ DOMAIN hashW' \subseteq ComPaths
               /\ \A p \in DOMAIN hashW' : hashW'[p] # "hash" => [path |-> p, eq |-> hashW'[p]] \in Hashed
               /\ enrQ' \in Seq(Hashed) /\ comW' \subseteq Hashed
  <2>1. dsLeft' \subseteq Merged(dsOf)
    BY <1>1, <1>2
  <2>2. dsWalk' = WalkBoth(dsOf'.lower, dsOf'.upper, dsOf'.filter, <<>>) /\ dsMeant' = Meant(dsOf')
        /\ dsReach' = Meant(dsOf') \cup Overreach(dsOf') /\ dsLeft' \subseteq Merged(dsOf')
    BY <1>1, <1>2, <2>1, Zenon
  <2>3. QED
    BY <1>1, <1>2, <2>2 DEF PipeShape
<1>4. CASE Other \/ UNCHANGED dsVars
  <2>1. UNCHANGED <<dsSent, excQ, comQ, enrQ, hashW, excW, comW>>
    BY <1>4, StepSame
  <2>2. QED
    BY <1>1, <2>1
<1>5. CASE ClassifySend
  <2> DEFINE e == dsWalk[dsSent + 1]
  <2>1. Len(dsWalk) \in Nat /\ dsSent < Len(dsWalk) /\ dsSent' = dsSent + 1 /\ UNCHANGED <<enrQ, hashW, excW, comW>>
    BY <1>5, WalkEntries DEF ClassifySend
  <2>2. dsSent' \in 0..Len(dsWalk) /\ dsSent + 1 \in 1..Len(dsWalk)
    BY <1>1, <2>1
  <2>3. e \in ExcEntries \/ e \in ComEntries
    BY <2>2, WalkEntries
  <2>4. \/ e.to = "exclusive" /\ excQ' = Append(excQ, e) /\ UNCHANGED comQ
        \/ e.to = "common" /\ comQ' = Append(comQ, e) /\ UNCHANGED excQ
    BY <1>5 DEF ClassifySend
  <2>5. (e \in ExcEntries => e.to = "exclusive") /\ (e \in ComEntries => e.to = "common")
    BY WalkEntries
  <2> HIDE DEF e
  <2>6. excQ' \in Seq(ExcEntries) /\ comQ' \in Seq(ComEntries)
    <3>1. CASE e.to = "exclusive" /\ excQ' = Append(excQ, e) /\ UNCHANGED comQ
      <4>1. e \in ExcEntries
        BY <2>3, <2>5, <3>1
      <4>2. Append(excQ, e) \in Seq(ExcEntries)
        BY <1>1, <4>1, QueuePut
      <4>3. QED
        BY <1>1, <3>1, <4>2
    <3>2. CASE e.to = "common" /\ comQ' = Append(comQ, e) /\ UNCHANGED excQ
      <4>1. e \in ComEntries
        BY <2>3, <2>5, <3>2
      <4>2. Append(comQ, e) \in Seq(ComEntries)
        BY <1>1, <4>1, QueuePut
      <4>3. QED
        BY <1>1, <3>2, <4>2
    <3>3. QED
      BY <2>4, <3>1, <3>2
  <2>7. QED
    BY <1>1, <2>1, <2>2, <2>6
<1>6. CASE HashTake
  <2> DEFINE e == Head(comQ)
  <2>1. comQ # <<>> /\ comQ' = Tail(comQ) /\ UNCHANGED <<dsSent, excQ, enrQ, excW, comW>>
    BY <1>6 DEF HashTake
  <2>2. e \in ComEntries /\ comQ' \in Seq(ComEntries)
    BY <1>1, <2>1, QueueGet
  <2>3. e.path \in ComPaths
    BY <2>2 DEF ComPaths
  <2>4. \/ UNCHANGED hashW
        \/ hashW' = [p \in DOMAIN hashW \cup {e.path} |-> IF p \in DOMAIN hashW THEN hashW[p] ELSE "hash"]
    BY <1>6 DEF HashTake
  <2> HIDE DEF e
  <2>5. QED
    BY <1>1, <2>1, <2>2, <2>3, <2>4
<1>7. CASE \E p \in DOMAIN hashW : HashOne(p)
  <2>1. PICK p \in DOMAIN hashW : HashOne(p)
    BY <1>7
  <2>2. UNCHANGED <<dsSent, excQ, comQ, enrQ, excW, comW>>
    BY <2>1 DEF HashOne
  <2>3. PICK r \in {HashResult(p), "unknown"} : hashW' = [hashW EXCEPT ![p] = r]
    BY <2>1 DEF HashOne
  <2>4. [path |-> p, eq |-> r] \in Hashed
    <3>1. r \in {"same", "other", "unknown"} /\ (r = "same" => HashResult(p) = "same")
      BY <1>1, <2>3, ComparedPaths
    <3>2. QED
      BY <1>1, <3>1 DEF Hashed
  <2>5. QED
    BY <1>1, <2>2, <2>3, <2>4
<1>8. CASE \E p \in DOMAIN hashW : HashSend(p)
  <2>1. PICK p \in DOMAIN hashW : HashSend(p)
    BY <1>8
  <2>2. UNCHANGED <<dsSent, excQ, comQ, excW, comW>> /\ hashW' = [q \in DOMAIN hashW \ {p} |-> hashW[q]]
    BY <2>1 DEF HashSend
  <2>3. hashW[p] # "hash" /\ (enrQ' = Append(enrQ, [path |-> p, eq |-> hashW[p]]) \/ UNCHANGED enrQ)
    BY <2>1 DEF HashSend
  <2>4. [path |-> p, eq |-> hashW[p]] \in Hashed
    BY <1>1, <2>3
  <2>5. enrQ' \in Seq(Hashed)
    <3>1. enrQ \in Seq(Hashed)
      BY <1>1
    <3>2. CASE enrQ' = Append(enrQ, [path |-> p, eq |-> hashW[p]])
      BY <3>1, <3>2, <2>4, QueuePut
    <3>3. QED
      BY <2>3, <3>1, <3>2
  <2>6. QED
    BY <1>1, <2>2, <2>5
<1>9. CASE ExclusiveTake
  <2>1. excQ # <<>> /\ excQ' = Tail(excQ) /\ excW' \subseteq excW \cup {Head(excQ)} /\ UNCHANGED <<dsSent, comQ, enrQ, hashW, comW>>
    BY <1>9 DEF ExclusiveTake
  <2>2. Head(excQ) \in ExcEntries /\ excQ' \in Seq(ExcEntries)
    BY <1>1, <2>1, QueueGet
  <2>3. QED
    BY <1>1, <2>1, <2>2
<1>10. CASE CommonTake
  <2>1. enrQ # <<>> /\ enrQ' = Tail(enrQ) /\ comW' \subseteq comW \cup {Head(enrQ)} /\ UNCHANGED <<dsSent, excQ, comQ, hashW, excW>>
    BY <1>10 DEF CommonTake
  <2>2. Head(enrQ) \in Hashed /\ enrQ' \in Seq(Hashed)
    BY <1>1, <2>1, QueueGet
  <2>3. QED
    BY <1>1, <2>1, <2>2
<1>11. CASE \E e \in excW : ExclusiveWork(e)
  BY <1>1, <1>11 DEF ExclusiveWork
<1>12. CASE \E e \in comW : CommonWork(e)
  BY <1>1, <1>12 DEF CommonWork
<1>13. QED
  BY <1>4, <1>5, <1>6, <1>7, <1>8, <1>9, <1>10, <1>11, <1>12 DEF DsNext, DsStep, Other

-----------------------------------------------------------------------------
(* The removals after each step.                                           *)
LEMMA OpsStep ==
    ASSUME PipeShape, WalkIsRight(dsOf), DsNext
    PROVE  \A o \in dsPend' \cup dsExec' : o \in dsPend \cup dsExec \/ OpIsMeant(o)
<1>1. /\ excW \subseteq ExcEntries /\ comW \subseteq Hashed
  BY DEF PipeShape
<1>2. CASE \E e \in excW : ExclusiveWork(e)
  <2>1. PICK e \in excW : ExclusiveWork(e)
    BY <1>2
  <2>2. dsExec' = dsExec /\ dsPend' \subseteq dsPend \cup {Op(e.path, e.collapsed)}
    BY <2>1 DEF ExclusiveWork
  <2>3. OpIsMeant(Op(e.path, e.collapsed))
    BY <1>1, WalkEntries
  <2>4. QED
    BY <2>2, <2>3
<1>3. CASE \E e \in comW : CommonWork(e)
  <2>1. PICK e \in comW : CommonWork(e)
    BY <1>3
  <2>2. dsExec' = dsExec /\ (dsPend' = dsPend \/ (e.eq = "same" /\ dsPend' = dsPend \cup {Op(e.path, FALSE)}))
    BY <2>1 DEF CommonWork, Removes
  <2>3. e.path \in ComPaths /\ (e.eq = "same" => HashResult(e.path) = "same")
    BY <1>1 DEF Hashed
  <2>4. e.eq = "same" => OpIsMeant(Op(e.path, FALSE))
    BY <2>3, ComparedPaths
  <2>5. QED
    BY <2>2, <2>4
<1>4. CASE ClassifyFails \/ ClassifySend \/ ClassifyEnds \/ HashTake \/ HashEnds \/ ExclusiveTake \/ CommonTake \/ Hang \/ Done \/ DsCancel
  BY <1>4 DEF ClassifyFails, ClassifySend, ClassifyEnds, HashTake, HashEnds, ExclusiveTake, CommonTake, Hang, Done, DsCancel
<1>5. CASE \E p \in DOMAIN hashW : HashOne(p) \/ HashSend(p)
  BY <1>5 DEF HashOne, HashSend
<1>6. CASE Flush
  BY <1>6 DEF Flush
<1>7. CASE \E o \in dsExec : Execute(o)
  BY <1>7 DEF Execute
<1>8. QED
  BY <1>2, <1>3, <1>4, <1>5, <1>6, <1>7 DEF DsNext, DsStep
LEMMA OpsMeantNext ==
    ASSUME PipeShape, OpsMeant, WalkIsRight(dsOf), DsNext
    PROVE  OpsMeant'
<1>1. dsOf' = dsOf /\ dsReach' = dsReach
  BY StepSame, SameWorld
<1>2. \A o : OpIsMeant(o) => OpIsMeant(o)'
  BY <1>1 DEF OpIsMeant, Refuses
<1>3. ASSUME NEW o \in dsPend' \cup dsExec' PROVE OpIsMeant(o)'
  BY <1>2, <1>3, OpsStep DEF OpsMeant
<1>4. QED
  BY <1>3 DEF OpsMeant

-----------------------------------------------------------------------------
(* The order of the stages.                                                *)
LEMMA ErrorsStay ==
    ASSUME NEW p, AddErr(p) \/ NoErr
    PROVE  dsErrs \subseteq dsErrs' /\ (dsCtx => dsCtx') /\ (dsErrs' = {} /\ ~dsCtx' => NoErr)
<1>1. CASE AddErr(p)
  <2>1. dsErrs' = dsErrs \cup {p}
    BY <1>1 DEF AddErr
  <2>2. dsCtx => dsCtx'
    BY <1>1, Zenon DEF AddErr
  <2>3. dsErrs \subseteq dsErrs' /\ dsErrs' # {}
    BY <2>1
  <2>4. QED
    BY <2>2, <2>3, Zenon
<1>2. CASE NoErr
  <2>1. dsErrs' = dsErrs /\ dsCtx' = dsCtx
    BY <1>2 DEF NoErr
  <2>2. dsCtx => dsCtx'
    BY <2>1, Zenon
  <2>3. dsErrs \subseteq dsErrs'
    BY <2>1
  <2>4. QED
    BY <1>2, <2>2, <2>3, Zenon
<1>3. QED
  BY <1>1, <1>2
LEMMA PhasesStep ==
    ASSUME PipeShape, PipePhases, WalkIsRight(dsOf), DsNext
    PROVE  PipePhases'
<1>1. /\ hashEnd => dsCls = "end" /\ comQ = <<>> /\ DOMAIN hashW = {}
      /\ dsPc # "stages" => dsCls = "end" /\ excQ = <<>> /\ excW = {} /\ hashEnd /\ enrQ = <<>> /\ comW = {} /\ dsPend = {}
      /\ dsPc \in {"stages", "done"} => dsExec = {}
      /\ dsPc \in {"stages", "flush", "hung", "done"}
      /\ dsCls = "end" /\ ~dsCtx /\ dsErrs = {} => dsSent = Len(dsWalk)
  BY DEF PipePhases, StagesOver
<1>2. dsWalk' = dsWalk
  BY StepSame, SameWorld
<1>3. SUFFICES
      /\ hashEnd' => dsCls' = "end" /\ comQ' = <<>> /\ DOMAIN hashW' = {}
      /\ dsPc' # "stages" => dsCls' = "end" /\ excQ' = <<>> /\ excW' = {} /\ hashEnd' /\ enrQ' = <<>> /\ comW' = {} /\ dsPend' = {}
      /\ dsPc' \in {"stages", "done"} => dsExec' = {}
      /\ dsPc' \in {"stages", "flush", "hung", "done"}
      /\ dsCls' = "end" /\ ~dsCtx' /\ dsErrs' = {} => dsSent' = Len(dsWalk)
  BY <1>2 DEF PipePhases, StagesOver
<1>4. CASE ClassifyFails
  BY <1>1, <1>4 DEF ClassifyFails, AddErr, NoErr
<1>5. CASE ClassifySend
  BY <1>1, <1>5 DEF ClassifySend
<1>6. CASE ClassifyEnds
  BY <1>1, <1>6 DEF ClassifyEnds
<1>7. CASE HashTake
  BY <1>1, <1>7 DEF HashTake
<1>8. CASE \E p \in DOMAIN hashW : HashOne(p)
  <2>1. PICK p \in DOMAIN hashW : HashOne(p)
    BY <1>8
  <2>2. /\ UNCHANGED <<dsSent, dsCls, excQ, comQ, enrQ, hashEnd, excW, comW, dsPend, dsExec, dsPc>>
        /\ dsErrs \subseteq dsErrs' /\ (dsCtx => dsCtx')
    <3>1. AddErr(p) \/ NoErr
      BY <2>1 DEF HashOne
    <3>2. QED
      BY <2>1, <3>1, ErrorsStay DEF HashOne
  <2>3. ~hashEnd
    BY <1>1
  <2>4. QED
    BY <1>1, <2>2, <2>3
<1>9. CASE \E p \in DOMAIN hashW : HashSend(p)
  <2>1. PICK p \in DOMAIN hashW : HashSend(p)
    BY <1>9
  <2>2. ~hashEnd
    BY <1>1
  <2>3. QED
    BY <1>1, <2>1, <2>2 DEF HashSend
<1>10. CASE HashEnds
  BY <1>1, <1>10 DEF HashEnds
<1>11. CASE ExclusiveTake
  BY <1>1, <1>11 DEF ExclusiveTake
<1>12. CASE \E e \in excW : ExclusiveWork(e)
  <2>1. PICK e \in excW : ExclusiveWork(e)
    BY <1>12
  <2>2. /\ UNCHANGED <<dsSent, dsCls, excQ, comQ, enrQ, hashW, hashEnd, comW, dsExec, dsPc>>
        /\ dsErrs \subseteq dsErrs' /\ (dsCtx => dsCtx')
    <3>1. AddErr(e.path) \/ NoErr
      BY <2>1 DEF ExclusiveWork
    <3>2. QED
      BY <2>1, <3>1, ErrorsStay DEF ExclusiveWork
  <2>3. dsPc = "stages"
    BY <1>1
  <2>4. QED
    BY <1>1, <2>2, <2>3
<1>13. CASE CommonTake
  BY <1>1, <1>13 DEF CommonTake
<1>14. CASE \E e \in comW : CommonWork(e)
  <2>1. PICK e \in comW : CommonWork(e)
    BY <1>14
  <2>2. /\ UNCHANGED <<dsSent, dsCls, excQ, comQ, enrQ, hashW, hashEnd, excW, dsExec, dsPc>>
        /\ dsErrs \subseteq dsErrs' /\ (dsCtx => dsCtx')
    <3>1. AddErr(e.path) \/ NoErr
      BY <2>1 DEF CommonWork
    <3>2. QED
      BY <2>1, <3>1, ErrorsStay DEF CommonWork
  <2>3. dsPc = "stages"
    BY <1>1
  <2>4. QED
    BY <1>1, <2>2, <2>3
<1>15. CASE Flush
  BY <1>1, <1>15 DEF Flush, StagesOver, stageVars
<1>16. CASE \E o \in dsExec : Execute(o)
  <2>1. PICK o \in dsExec : Execute(o)
    BY <1>16
  <2>2. /\ UNCHANGED <<dsSent, dsCls, excQ, comQ, enrQ, hashW, hashEnd, excW, comW, dsPend, dsPc>> /\ dsPc = "flush"
        /\ dsErrs \subseteq dsErrs' /\ (dsCtx => dsCtx')
    <3>1. dsErrs' = dsErrs \/ dsErrs' = dsErrs \cup {o.path}
      BY <2>1 DEF Execute
    <3>2. dsErrs \subseteq dsErrs'
      BY <3>1
    <3>3. dsCtx' = dsCtx
      BY <2>1 DEF Execute
    <3>4. QED
      BY <2>1, <3>2, <3>3 DEF Execute, stageVars
  <2>3. QED
    BY <1>1, <2>2
<1>17. CASE Hang \/ Done
  BY <1>1, <1>17 DEF Hang, Done, stageVars
<1>18. CASE DsCancel
  BY <1>1, <1>18 DEF DsCancel, stageVars
<1>19. QED
  BY <1>4, <1>5, <1>6, <1>7, <1>8, <1>9, <1>10, <1>11, <1>12, <1>13, <1>14, <1>15, <1>16, <1>17, <1>18 DEF DsNext, DsStep

-----------------------------------------------------------------------------
(* Nothing is lost on the way from the walk to the batcher.                *)
LEMMA HitSame == UNCHANGED given => \A p, q, all : (p \in Hit(dsOf, q, all))' <=> p \in Hit(dsOf, q, all)
BY DEF given
LEMMA ErrorsSpread ==
    ASSUME DsNext
    PROVE  dsErrs \subseteq dsErrs' /\ (dsCtx => dsCtx')
<1>1. CASE DsCancel
  <2>1. dsErrs' = dsErrs /\ dsCtx'
    BY <1>1 DEF DsCancel
  <2>2. QED
    BY <2>1
<1>2. CASE \E p : AddErr(p) \/ NoErr
  BY <1>2, ErrorsStay
<1>3. CASE UNCHANGED <<dsErrs, dsCtx>>
  BY <1>2, <1>3 DEF NoErr
<1>4. CASE \E e \in excW : ExclusiveWork(e)
  BY <1>2, <1>4 DEF ExclusiveWork
<1>5. CASE \E e \in comW : CommonWork(e)
  BY <1>2, <1>5 DEF CommonWork
<1>6. CASE \E p \in DOMAIN hashW : HashOne(p) \/ HashSend(p)
  BY <1>2, <1>3, <1>6 DEF HashOne, HashSend
<1>7. CASE \E o \in dsExec : Execute(o)
  <2>1. PICK o \in dsExec : Execute(o)
    BY <1>7
  <2>2. (dsErrs' = dsErrs \/ dsErrs' = dsErrs \cup {o.path}) /\ dsCtx' = dsCtx
    BY <2>1 DEF Execute
  <2>3. dsErrs \subseteq dsErrs'
    BY <2>2
  <2>4. QED
    BY <2>2, <2>3
<1>8. CASE ClassifyFails
  BY <1>2, <1>8 DEF ClassifyFails
<1>9. CASE ClassifySend \/ ClassifyEnds \/ HashTake \/ HashEnds \/ ExclusiveTake \/ CommonTake \/ Flush \/ Hang \/ Done
  BY <1>3, <1>9 DEF ClassifySend, ClassifyEnds, HashTake, HashEnds, ExclusiveTake, CommonTake, Flush, Hang, Done
<1>10. QED
  BY <1>1, <1>4, <1>5, <1>6, <1>7, <1>8, <1>9 DEF DsNext, DsStep

\* What a step without an error or a cancellation does to one entry.
Going == ~dsCtx' /\ dsErrs' = {}
LEMMA WayHash ==
    ASSUME PipeInv, WalkIsRight(dsOf), DsNext, Going
    PROVE  \A p \in dsMeant \cap DOMAIN hashW' : hashW'[p] \in {"hash", "same"}
<1>1. ~dsCtx /\ dsErrs = {}
  BY ErrorsSpread DEF Going
<1>2. \A p \in dsMeant \cap DOMAIN hashW : hashW[p] \in {"hash", "same"}
  BY <1>1 DEF PipeInv, NoneLost
<1>3. CASE HashTake
  BY <1>2, <1>3 DEF HashTake
<1>4. CASE \E p \in DOMAIN hashW : HashOne(p)
  <2>1. PICK p \in DOMAIN hashW : HashOne(p)
    BY <1>4
  <2>2. hashW' = [hashW EXCEPT ![p] = HashResult(p)] /\ (IF p \in dsOf.hashFails THEN AddErr(p) ELSE NoErr)
    BY <1>1, <2>1 DEF HashOne
  <2>3. p \notin dsOf.hashFails
    <3>1. ~AddErr(p)
      BY DEF Going, AddErr
    <3>2. QED
      BY <2>2, <3>1
  <2>4. p \in dsMeant => HashResult(p) = "same"
    BY <2>1, <2>3, ComparedPaths DEF PipeInv, PipeShape
  <2>5. QED
    BY <1>2, <2>2, <2>4
<1>5. CASE \E p \in DOMAIN hashW : HashSend(p)
  BY <1>2, <1>5 DEF HashSend
<1>6. CASE hashW' = hashW
  BY <1>2, <1>6
<1>7. CASE Other
  BY <1>6, <1>7, StepSame
<1>8. CASE ClassifySend \/ ExclusiveTake \/ CommonTake
  BY <1>6, <1>8 DEF ClassifySend, ExclusiveTake, CommonTake
<1>9. CASE \E e \in excW : ExclusiveWork(e)
  BY <1>6, <1>9 DEF ExclusiveWork
<1>10. CASE \E e \in comW : CommonWork(e)
  BY <1>6, <1>10 DEF CommonWork
<1>11. QED
  BY <1>3, <1>4, <1>5, <1>7, <1>8, <1>9, <1>10 DEF DsNext, DsStep, Other

LEMMA StepMoves ==
    ASSUME DsNext
    PROVE  /\ ClassifySend \/ dsSent' = dsSent
           /\ ClassifySend \/ ExclusiveTake \/ (\E e \in excW : ExclusiveWork(e)) \/ UNCHANGED <<excQ, excW>>
           /\ ClassifySend \/ HashTake \/ (\E p \in DOMAIN hashW : HashOne(p) \/ HashSend(p)) \/ UNCHANGED <<comQ, hashW>>
           /\ (\E p \in DOMAIN hashW : HashSend(p)) \/ CommonTake \/ (\E e \in comW : CommonWork(e)) \/ UNCHANGED <<enrQ, comW>>
           /\ (\E e \in excW : ExclusiveWork(e)) \/ (\E e \in comW : CommonWork(e)) \/ Flush
                \/ (\E o \in dsExec : Execute(o)) \/ UNCHANGED <<dsPend, dsExec>>
<1>1. CASE ClassifyFails \/ ClassifyEnds \/ HashEnds \/ Hang \/ Done \/ DsCancel
  BY <1>1 DEF ClassifyFails, ClassifyEnds, HashEnds, Hang, Done, DsCancel, stageVars
<1>2. CASE ClassifySend \/ HashTake
  BY <1>2 DEF ClassifySend, HashTake
<1>3. CASE ExclusiveTake \/ CommonTake
  BY <1>3 DEF ExclusiveTake, CommonTake
<1>4. CASE Flush
  BY <1>4 DEF Flush, stageVars
<1>5. CASE \E o \in dsExec : Execute(o)
  BY <1>5 DEF Execute, stageVars
<1>6. CASE \E e \in excW : ExclusiveWork(e)
  BY <1>6 DEF ExclusiveWork
<1>7. CASE \E e \in comW : CommonWork(e)
  BY <1>7 DEF CommonWork
<1>8. CASE \E p \in DOMAIN hashW : HashOne(p)
  BY <1>8 DEF HashOne
<1>9. CASE \E p \in DOMAIN hashW : HashSend(p)
  BY <1>9 DEF HashSend
<1>10. QED
  BY <1>1, <1>2, <1>3, <1>4, <1>5, <1>6, <1>7, <1>8, <1>9 DEF DsNext, DsStep
LEMMA WayAhead ==
    ASSUME PipeInv, WalkIsRight(dsOf), DsNext, NEW p, Ahead(p)
    PROVE  OnItsWay(p)'
<1>1. PICK i \in (dsSent + 1)..Len(dsWalk) : p \in Hit(dsOf, dsWalk[i].path, dsWalk[i].collapsed)
  BY DEF Ahead
<1>2. dsOf' = dsOf /\ dsWalk' = dsWalk
  BY StepSame, SameWorld
<1>3. PipeShape /\ dsSent \in 0..Len(dsWalk) /\ Len(dsWalk) \in Nat /\ excQ \in Seq(ExcEntries) /\ comQ \in Seq(ComEntries)
  BY WalkEntries DEF PipeInv, PipeShape
<1>4. ASSUME i \in (dsSent' + 1)..Len(dsWalk) PROVE OnItsWay(p)'
  <2>1. Ahead(p)'
    BY <1>1, <1>2, <1>4 DEF Ahead
  <2>2. QED
    BY <2>1 DEF OnItsWay
<1>5. CASE dsSent' = dsSent
  BY <1>4, <1>5
<1>6. CASE ClassifySend
  <2> DEFINE e == dsWalk[dsSent + 1]
  <2>1. dsSent' = dsSent + 1
    BY <1>6 DEF ClassifySend
  <2>2. CASE i # dsSent + 1
    <3>1. i \in (dsSent' + 1)..Len(dsWalk)
      BY <1>3, <2>1, <2>2
    <3>2. QED
      BY <1>4, <3>1
  <2>3. CASE i = dsSent + 1
    <3>1. p \in Hit(dsOf, e.path, e.collapsed)
      BY <1>1, <2>3
    <3>2. i \in 1..Len(dsWalk)
      BY <1>3
    <3>3. e \in ExcEntries \/ e \in ComEntries
      BY <1>3, <2>3, <3>2, WalkEntries
    <3>4. \/ e.to = "exclusive" /\ excQ' = Append(excQ, e)
          \/ e.to = "common" /\ comQ' = Append(comQ, e)
      BY <1>6 DEF ClassifySend
    <3>5. (e \in ExcEntries => e.to = "exclusive") /\ (e \in ComEntries => e.to = "common" /\ ~e.collapsed)
      BY <1>3, WalkEntries
    <3> HIDE DEF e
    <3>6. CASE e.to = "exclusive" /\ excQ' = Append(excQ, e)
      <4>1. e \in ExcEntries
        BY <3>3, <3>5, <3>6
      <4>2. e \in Range(excQ')
        BY <1>3, <3>6, <4>1, QueuePut
      <4>3. ToHandle(p)'
        BY <1>2, <3>1, <4>2 DEF ToHandle
      <4>4. QED
        BY <4>3 DEF OnItsWay
    <3>7. CASE e.to = "common" /\ comQ' = Append(comQ, e)
      <4>1. e \in ComEntries /\ ~e.collapsed
        BY <3>3, <3>5, <3>7
      <4>2. e \in Range(comQ')
        BY <1>3, <3>7, <4>1, QueuePut
      <4>3. e.path = p
        BY <3>1, <4>1 DEF Hit
      <4>4. ToCompare(p)'
        BY <4>2, <4>3 DEF ToCompare
      <4>5. QED
        BY <4>4 DEF OnItsWay
    <3>8. QED
      BY <3>4, <3>6, <3>7
  <2>4. QED
    BY <2>2, <2>3
<1>7. QED
  BY <1>5, <1>6, StepMoves
LEMMA WayHandle ==
    ASSUME PipeInv, WalkIsRight(dsOf), DsNext, Going, ~dsCtx, NEW p, ToHandle(p)
    PROVE  OnItsWay(p)'
<1>1. PICK e \in Range(excQ) \cup excW : p \in Hit(dsOf, e.path, e.collapsed)
  BY DEF ToHandle
<1>2. dsOf' = dsOf
  BY StepSame, SameWorld
<1>3. PipeShape /\ excQ \in Seq(ExcEntries)
  BY DEF PipeInv, PipeShape
<1>4. ASSUME e \in Range(excQ') \cup excW' PROVE OnItsWay(p)'
  <2>1. ToHandle(p)'
    BY <1>1, <1>2, <1>4 DEF ToHandle
  <2>2. QED
    BY <2>1 DEF OnItsWay
<1>5. CASE ClassifySend
  <2> DEFINE x == dsWalk[dsSent + 1]
  <2>1. excW' = excW /\ (excQ' = excQ \/ (x.to = "exclusive" /\ excQ' = Append(excQ, x)))
    BY <1>5 DEF ClassifySend
  <2>2. dsSent \in 0..Len(dsWalk) /\ dsSent < Len(dsWalk) /\ Len(dsWalk) \in Nat
    BY <1>3, <1>5, WalkEntries DEF ClassifySend, PipeShape
  <2>3. x \in ExcEntries \/ x \in ComEntries
    <3>1. dsSent + 1 \in 1..Len(dsWalk)
      BY <2>2
    <3>2. QED
      BY <1>3, <3>1, WalkEntries
  <2>4. x.to = "exclusive" => x \in ExcEntries
    BY <1>3, <2>3, WalkEntries
  <2> HIDE DEF x
  <2>5. CASE excQ' = excQ
    BY <1>1, <1>4, <2>1, <2>5
  <2>6. CASE x.to = "exclusive" /\ excQ' = Append(excQ, x)
    <3>1. Range(excQ') = Range(excQ) \cup {x}
      BY <1>3, <2>4, <2>6, QueuePut
    <3>2. QED
      BY <1>1, <1>4, <2>1, <3>1
  <2>7. QED
    BY <2>1, <2>5, <2>6
<1>6. CASE ExclusiveTake
  <2>1. excQ # <<>> /\ excQ' = Tail(excQ) /\ excW' = excW \cup {Head(excQ)}
    BY <1>6 DEF ExclusiveTake
  <2>2. Range(excQ) = Range(excQ') \cup {Head(excQ)}
    BY <1>3, <2>1, QueueGet
  <2>3. QED
    BY <1>1, <1>4, <2>1, <2>2
<1>7. CASE \E x \in excW : ExclusiveWork(x)
  <2>1. PICK x \in excW : ExclusiveWork(x)
    BY <1>7
  <2>2. excQ' = excQ /\ excW' = excW \ {x}
    BY <2>1 DEF ExclusiveWork
  <2>3. CASE x = e
    <3>1. ~AddErr(x.path)
      BY DEF Going, AddErr
    <3>2. dsPend' = dsPend \cup {Op(e.path, e.collapsed)}
      BY <2>1, <2>3, <3>1 DEF ExclusiveWork
    <3>3. p \in Hit(dsOf', Op(e.path, e.collapsed).path, Op(e.path, e.collapsed).all)
      BY <1>1, <1>2 DEF Op
    <3>4. ToRemove(p)'
      BY <3>2, <3>3 DEF ToRemove
    <3>5. QED
      BY <3>4 DEF OnItsWay
  <2>4. CASE x # e
    BY <1>1, <1>4, <2>2, <2>4
  <2>5. QED
    BY <2>3, <2>4
<1>8. CASE UNCHANGED <<excQ, excW>>
  BY <1>1, <1>4, <1>8
<1>9. QED
  BY <1>5, <1>6, <1>7, <1>8, StepMoves
LEMMA WayCompare ==
    ASSUME PipeInv, WalkIsRight(dsOf), DsNext, ~dsCtx, NEW p,
           ToCompare(p), p \in DOMAIN hashW => hashW[p] \in {"hash", "same"}
    PROVE  OnItsWay(p)'
<1>1. PipeShape /\ comQ \in Seq(ComEntries) /\ enrQ \in Seq(Hashed)
      /\ \A q \in DOMAIN hashW : hashW[q] # "hash" => [path |-> q, eq |-> hashW[q]] \in Hashed
  BY DEF PipeInv, PipeShape
<1>2. ASSUME (\E e \in Range(comQ') : e.path = p) \/ p \in DOMAIN hashW' PROVE OnItsWay(p)'
  <2>1. ToCompare(p)'
    BY <1>2 DEF ToCompare
  <2>2. QED
    BY <2>1 DEF OnItsWay
<1>3. CASE ClassifySend
  <2> DEFINE x == dsWalk[dsSent + 1]
  <2>1. hashW' = hashW /\ (comQ' = comQ \/ (x.to = "common" /\ comQ' = Append(comQ, x)))
    BY <1>3 DEF ClassifySend
  <2>2. dsSent \in 0..Len(dsWalk) /\ dsSent < Len(dsWalk) /\ Len(dsWalk) \in Nat
    BY <1>1, <1>3, WalkEntries DEF ClassifySend, PipeShape
  <2>3. x \in ExcEntries \/ x \in ComEntries
    <3>1. dsSent + 1 \in 1..Len(dsWalk)
      BY <2>2
    <3>2. QED
      BY <1>1, <3>1, WalkEntries
  <2>4. x.to = "common" => x \in ComEntries
    BY <1>1, <2>3, WalkEntries
  <2> HIDE DEF x
  <2>5. Range(comQ) \subseteq Range(comQ')
    <3>1. CASE x.to = "common" /\ comQ' = Append(comQ, x)
      BY <1>1, <2>4, <3>1, QueuePut
    <3>2. QED
      BY <2>1, <3>1
  <2>6. QED
    BY <1>2, <2>1, <2>5 DEF ToCompare
<1>4. CASE HashTake
  <2>1. /\ comQ # <<>> /\ comQ' = Tail(comQ)
        /\ hashW' = [q \in DOMAIN hashW \cup {Head(comQ).path} |-> IF q \in DOMAIN hashW THEN hashW[q] ELSE "hash"]
    BY <1>4 DEF HashTake
  <2>2. Range(comQ) = Range(comQ') \cup {Head(comQ)} /\ DOMAIN hashW' = DOMAIN hashW \cup {Head(comQ).path}
    BY <1>1, <2>1, QueueGet
  <2>3. QED
    BY <1>2, <2>2 DEF ToCompare
<1>5. CASE \E q \in DOMAIN hashW : HashOne(q)
  <2>1. comQ' = comQ /\ DOMAIN hashW' = DOMAIN hashW
    BY <1>5 DEF HashOne
  <2>2. QED
    BY <1>2, <2>1 DEF ToCompare
<1>6. CASE \E q \in DOMAIN hashW : HashSend(q)
  <2>1. PICK q \in DOMAIN hashW : HashSend(q)
    BY <1>6
  <2>2. /\ hashW[q] # "hash" /\ comQ' = comQ /\ DOMAIN hashW' = DOMAIN hashW \ {q}
        /\ enrQ' = Append(enrQ, [path |-> q, eq |-> hashW[q]])
    BY <2>1 DEF HashSend
  <2>3. CASE q # p
    BY <1>2, <2>2, <2>3 DEF ToCompare
  <2>4. CASE q = p
    <3>1. hashW[p] = "same"
      BY <2>1, <2>2, <2>4
    <3>2. [path |-> p, eq |-> "same"] \in Hashed /\ enrQ' = Append(enrQ, [path |-> p, eq |-> "same"])
      BY <1>1, <2>1, <2>2, <2>4, <3>1
    <3>3. [path |-> p, eq |-> "same"] \in Range(enrQ')
      BY <1>1, <3>2, QueuePut
    <3>4. Compared(p)'
      BY <3>3 DEF Compared
    <3>5. QED
      BY <3>4 DEF OnItsWay
  <2>5. QED
    BY <2>3, <2>4
<1>7. CASE UNCHANGED <<comQ, hashW>>
  BY <1>2, <1>7 DEF ToCompare
<1>8. QED
  BY <1>3, <1>4, <1>5, <1>6, <1>7, StepMoves
LEMMA WayCompared ==
    ASSUME PipeInv, DsNext, Going, ~dsCtx, NEW p \in dsMeant, p \in Merged(dsOf), Compared(p)
    PROVE  OnItsWay(p)'
<1> DEFINE x == [path |-> p, eq |-> "same"]
<1>1. x \in Range(enrQ) \cup comW /\ enrQ \in Seq(Hashed)
      /\ \A q \in DOMAIN hashW : hashW[q] # "hash" => [path |-> q, eq |-> hashW[q]] \in Hashed
  BY DEF Compared, PipeInv, PipeShape
<1>2. ASSUME x \in Range(enrQ') \cup comW' PROVE OnItsWay(p)'
  <2>1. Compared(p)'
    BY <1>2 DEF Compared
  <2>2. QED
    BY <2>1 DEF OnItsWay
<1>0. x.path = p /\ x.eq = "same"
  OBVIOUS
<1> HIDE DEF x
<1>3. CASE \E q \in DOMAIN hashW : HashSend(q)
  <2>1. PICK q \in DOMAIN hashW : HashSend(q)
    BY <1>3
  <2>2. hashW[q] # "hash" /\ comW' = comW /\ enrQ' = Append(enrQ, [path |-> q, eq |-> hashW[q]])
    BY <2>1 DEF HashSend
  <2>3. Range(enrQ) \subseteq Range(enrQ')
    BY <1>1, <2>1, <2>2, QueuePut
  <2>4. QED
    BY <1>1, <1>2, <2>2, <2>3
<1>4. CASE CommonTake
  <2>1. enrQ # <<>> /\ enrQ' = Tail(enrQ) /\ comW' = comW \cup {Head(enrQ)}
    BY <1>4 DEF CommonTake
  <2>2. Range(enrQ) = Range(enrQ') \cup {Head(enrQ)}
    BY <1>1, <2>1, QueueGet
  <2>3. QED
    BY <1>1, <1>2, <2>1, <2>2
<1>5. CASE \E e \in comW : CommonWork(e)
  <2>1. PICK e \in comW : CommonWork(e)
    BY <1>5
  <2>2. enrQ' = enrQ /\ comW' = comW \ {e}
    BY <2>1 DEF CommonWork
  <2>3. CASE e # x
    BY <1>1, <1>2, <2>2, <2>3
  <2>4. CASE e = x
    <3>1. ~AddErr(e.path)
      BY DEF Going, AddErr
    <3>2. dsPend' = dsPend \cup {Op(p, FALSE)}
      BY <1>0, <2>1, <2>4, <3>1 DEF CommonWork, Removes
    <3>3. p \in Hit(dsOf', Op(p, FALSE).path, Op(p, FALSE).all)
      BY StepSame, SameWorld DEF Op, Hit
    <3>4. ToRemove(p)'
      BY <3>2, <3>3 DEF ToRemove
    <3>5. QED
      BY <3>4 DEF OnItsWay
  <2>5. QED
    BY <2>3, <2>4
<1>6. CASE UNCHANGED <<enrQ, comW>>
  BY <1>1, <1>2, <1>6
<1>7. QED
  BY <1>3, <1>4, <1>5, <1>6, StepMoves
LEMMA WayRemove ==
    ASSUME PipeInv, DsNext, Going, ~dsCtx, NEW p, p \in dsLeft', ToRemove(p)
    PROVE  OnItsWay(p)'
<1>1. PICK o \in dsPend \cup dsExec : p \in Hit(dsOf, o.path, o.all)
  BY DEF ToRemove
<1>2. dsOf' = dsOf
  BY StepSame, SameWorld
<1>3. ASSUME o \in dsPend' \cup dsExec' PROVE OnItsWay(p)'
  <2>1. ToRemove(p)'
    BY <1>1, <1>2, <1>3 DEF ToRemove
  <2>2. QED
    BY <2>1 DEF OnItsWay
<1>4. CASE \E e \in excW : ExclusiveWork(e)
  <2>1. dsPend \subseteq dsPend' /\ dsExec' = dsExec
    BY <1>4 DEF ExclusiveWork
  <2>2. QED
    BY <1>1, <1>3, <2>1
<1>5. CASE \E e \in comW : CommonWork(e)
  <2>1. dsPend \subseteq dsPend' /\ dsExec' = dsExec
    BY <1>5 DEF CommonWork
  <2>2. QED
    BY <1>1, <1>3, <2>1
<1>6. CASE Flush
  <2>1. dsExec = {} /\ dsExec' = dsPend
    BY <1>6 DEF Flush, PipeInv, PipePhases
  <2>2. QED
    BY <1>1, <1>3, <2>1
<1>7. CASE \E x \in dsExec : Execute(x)
  <2>1. PICK x \in dsExec : Execute(x)
    BY <1>7
  <2>2. dsExec' = dsExec \ {x} /\ dsPend' = dsPend
    BY <2>1 DEF Execute
  <2>3. CASE x # o
    BY <1>1, <1>3, <2>2, <2>3
  <2>4. CASE x = o
    <3>1. dsErrs' # dsErrs \cup {o.path}
      BY DEF Going
    <3>2. Hits(o) \cap dsOf.stuck = {} /\ dsLeft' = dsLeft \ Goes(o)
      BY <2>1, <2>4, <3>1 DEF Execute
    <3>3. IF o.all THEN Under(p, o.path) ELSE p = o.path
      BY <1>1 DEF Hit
    <3>4. p \in dsLeft => p \in Goes(o)
      BY <3>2, <3>3 DEF Goes, Hits
    <3>5. QED
      BY <3>2, <3>4
  <2>5. QED
    BY <2>3, <2>4
<1>8. CASE UNCHANGED <<dsPend, dsExec>>
  BY <1>1, <1>3, <1>8
<1>9. QED
  BY <1>4, <1>5, <1>6, <1>7, <1>8, StepMoves
LEMMA NoneLostNext ==
    ASSUME PipeInv, WalkIsRight(dsOf), DsNext
    PROVE  NoneLost'
<1>1. dsMeant' = dsMeant /\ dsLeft' \subseteq dsLeft /\ dsLeft \subseteq Merged(dsOf)
  BY StepSame, SameWorld DEF PipeInv, PipeShape
<1>2. SUFFICES ASSUME Going
               PROVE  /\ \A p \in dsMeant \cap dsLeft' : OnItsWay(p)'
                      /\ \A p \in dsMeant \cap DOMAIN hashW' : hashW'[p] \in {"hash", "same"}
  BY <1>1 DEF NoneLost, Going
<1>3. ~dsCtx /\ dsErrs = {}
  BY <1>2, ErrorsSpread DEF Going
<1>4. /\ \A p \in dsMeant \cap dsLeft : OnItsWay(p)
      /\ \A p \in dsMeant \cap DOMAIN hashW : hashW[p] \in {"hash", "same"}
  BY <1>3 DEF PipeInv, NoneLost
<1>5. ASSUME NEW p \in dsMeant \cap dsLeft' PROVE OnItsWay(p)'
  <2>1. p \in dsMeant /\ p \in dsLeft /\ p \in Merged(dsOf) /\ OnItsWay(p)
    BY <1>1, <1>4
  <2>2. p \in DOMAIN hashW => hashW[p] \in {"hash", "same"}
    BY <1>4, <2>1
  <2>3. CASE Ahead(p)
    BY <2>3, WayAhead
  <2>4. CASE ToHandle(p)
    BY <1>2, <1>3, <2>4, WayHandle
  <2>5. CASE ToCompare(p)
    BY <1>3, <2>2, <2>5, WayCompare
  <2>6. CASE Compared(p)
    BY <1>2, <1>3, <2>1, <2>6, WayCompared
  <2>7. CASE ToRemove(p)
    BY <1>2, <1>3, <2>7, WayRemove
  <2>8. QED
    BY <2>1, <2>3, <2>4, <2>5, <2>6, <2>7 DEF OnItsWay
<1>6. QED
  BY <1>2, <1>5, WayHash

-----------------------------------------------------------------------------
(* Each step of the pipeline is one of the promise, or none.               *)
LEMMA PipeKept ==
    ASSUME \A w \in DsWorlds : WalkIsRight(w), PipeInv, [DsNext]_dsVars
    PROVE  PipeInv'
<1>1. PipeShape /\ WalkIsRight(dsOf)
  BY DEF PipeInv, PipeShape
<1>2. PipeShape'
  BY <1>1, PipeShapeNext
<1>3. CASE DsNext
  BY <1>1, <1>2, <1>3, OpsMeantNext, PhasesStep, NoneLostNext DEF PipeInv
<1>4. CASE UNCHANGED dsVars
  <2>1. /\ UNCHANGED <<dsOf, dsWalk, dsMeant, dsReach, dsCtx, dsSent, dsCls, excQ, comQ, enrQ, hashW, hashEnd, excW, comW>>
        /\ UNCHANGED <<dsPend, dsExec, dsPc, dsLeft, dsErrs>>
    BY <1>4 DEF dsVars, given, stageVars
  <2>2. OpsMeant'
    BY <2>1 DEF PipeInv, OpsMeant, OpIsMeant, Refuses
  <2>3. PipePhases'
    BY <2>1 DEF PipeInv, PipePhases, StagesOver
  <2>4. NoneLost'
    BY <2>1 DEF PipeInv, NoneLost, OnItsWay, Ahead, ToHandle, ToCompare, Compared, ToRemove
  <2>5. QED
    BY <1>2, <2>2, <2>3, <2>4 DEF PipeInv
<1>5. QED
  BY <1>3, <1>4
LEMMA SyncRemoves ==
    ASSUME PipeInv, NEW o \in dsExec, Execute(o)
    PROVE  dsLeft' \subseteq dsLeft /\ dsLeft \ dsLeft' \subseteq dsReach
<1>1. dsLeft' = dsLeft \/ (dsLeft' = dsLeft \ Goes(o) /\ ~Refuses(o))
  BY DEF Execute
<1>2. OpIsMeant(o) /\ dsLeft \subseteq Merged(dsOf)
  BY DEF PipeInv, OpsMeant, PipeShape
<1>3. CASE dsLeft' = dsLeft
  BY <1>3
<1>4. CASE dsLeft' = dsLeft \ Goes(o) /\ ~Refuses(o)
  <2>1. Hit(dsOf, o.path, o.all) \subseteq dsReach
    BY <1>2, <1>4 DEF OpIsMeant
  <2>2. Goes(o) \subseteq Hit(dsOf, o.path, o.all)
    BY <1>2 DEF Goes, Hits, Hit
  <2>3. QED
    BY <1>4, <2>1, <2>2
<1>5. QED
  BY <1>1, <1>3, <1>4
LEMMA SyncLeavesNone ==
    ASSUME PipeInv, Done, dsErrs = {}, ~dsCtx
    PROVE  dsLeft \cap dsMeant = {}
<1>1. /\ dsExec = {} /\ dsPend = {} /\ excQ = <<>> /\ excW = {} /\ comQ = <<>> /\ DOMAIN hashW = {}
      /\ enrQ = <<>> /\ comW = {} /\ dsSent = Len(dsWalk) /\ dsSent \in 0..Len(dsWalk)
  BY DEF Done, PipeInv, PipePhases, StagesOver, PipeShape
<1>2. Range(excQ) = {} /\ Range(comQ) = {} /\ Range(enrQ) = {}
  BY <1>1, QueueNone
<1>3. (dsSent + 1)..Len(dsWalk) = {}
  BY <1>1
<1>4. \A p : ~OnItsWay(p)
  BY <1>1, <1>2, <1>3 DEF OnItsWay, Ahead, ToHandle, ToCompare, Compared, ToRemove
<1>5. QED
  BY <1>4 DEF PipeInv, NoneLost

(* The pipeline removes nothing but what it may, and a run without an      *)
(* error or a cancellation has removed all it is meant to, whatever the    *)
(* capacities of its channels, the number of its workers, its handlers and *)
(* the order in which they run (Engine.Run).  The walk has to be right     *)
(* about the trees, which no induction over them can be asked for here.    *)
SyncOutcome ==
    CASE dsPc # "done" -> "running"
      [] dsPc = "done" /\ dsErrs # {} -> "failed"
      [] dsPc = "done" /\ dsErrs = {} -> IF dsCtx THEN "cut" ELSE "ok"
THEOREM RemovesAsPromised ==
    ASSUME \A w \in DsWorlds : WalkIsRight(w)
    PROVE  DsSpec => RemovesAsMeant
<1>1. UNCHANGED <<dsMeant, dsReach, dsLeft, SyncOutcome>> => UNCHANGED Promise!pruningVars
  BY DEF Promise!pruningVars, SyncOutcome
<1>2. DsInit => Promise!PruningInit
  BY DEF DsInit, Promise!PruningInit
<1>3. PipeInv /\ [DsNext]_dsVars => [Promise!PruningNext]_Promise!pruningVars
  <2> SUFFICES ASSUME PipeInv, [DsNext]_dsVars
               PROVE  Promise!PruningNext \/ UNCHANGED <<dsMeant, dsReach, dsLeft, SyncOutcome>>
    BY <1>1
  <2>1. CASE UNCHANGED dsVars
    BY <2>1 DEF dsVars, given, SyncOutcome
  <2>2. CASE \E o \in dsExec : Execute(o)
    <3>1. PICK o \in dsExec : Execute(o)
      BY <2>2
    <3>2. dsLeft' \subseteq dsLeft /\ dsLeft \ dsLeft' \subseteq dsReach
      BY <3>1, SyncRemoves
    <3>3. dsPc = "flush" /\ dsPc' = dsPc /\ dsMeant' = dsMeant /\ dsReach' = dsReach
      BY <3>1 DEF Execute, given
    <3>4. Promise!RemoveSome
      BY <3>2, <3>3 DEF Promise!RemoveSome
    <3>5. QED
      BY <3>4 DEF Promise!PruningNext
  <2>3. CASE Done
    <3>1. dsPc = "flush" /\ dsPc' = "done" /\ dsErrs' = dsErrs /\ dsCtx' = dsCtx
          /\ dsMeant' = dsMeant /\ dsReach' = dsReach /\ dsLeft' = dsLeft
      BY <2>3 DEF Done, given
    <3>2. CASE dsErrs = {} /\ ~dsCtx
      <4>1. dsLeft \cap dsMeant = {}
        BY <2>3, <3>2, SyncLeavesNone
      <4>2. Promise!EndWell
        BY <3>1, <3>2, <4>1 DEF Promise!EndWell
      <4>3. QED
        BY <4>2 DEF Promise!PruningNext
    <3>3. CASE dsErrs # {}
      <4>1. Promise!EndBadly
        BY <3>1, <3>3 DEF Promise!EndBadly
      <4>2. QED
        BY <4>1 DEF Promise!PruningNext
    <3>4. CASE dsErrs = {} /\ dsCtx
      <4>1. Promise!EndCut
        BY <3>1, <3>4 DEF Promise!EndCut
      <4>2. QED
        BY <4>1 DEF Promise!PruningNext
    <3>5. QED
      BY <3>2, <3>3, <3>4
  <2>4. CASE DsNext /\ ~Done /\ ~(\E o \in dsExec : Execute(o))
    <3>1. UNCHANGED <<dsMeant, dsReach, dsLeft>> /\ (dsPc' = dsPc \/ dsPc' \in {"flush", "hung"})
      <4>1. CASE ClassifyFails \/ ClassifySend \/ ClassifyEnds \/ HashTake \/ HashEnds \/ ExclusiveTake \/ CommonTake \/ DsCancel
        BY <4>1 DEF ClassifyFails, ClassifySend, ClassifyEnds, HashTake, HashEnds, ExclusiveTake, CommonTake, DsCancel, given
      <4>2. CASE \E p \in DOMAIN hashW : HashOne(p) \/ HashSend(p)
        BY <4>2 DEF HashOne, HashSend, given
      <4>3. CASE \E e \in excW : ExclusiveWork(e)
        BY <4>3 DEF ExclusiveWork, given
      <4>4. CASE \E e \in comW : CommonWork(e)
        BY <4>4 DEF CommonWork, given
      <4>5. CASE Flush \/ Hang
        BY <4>5 DEF Flush, Hang, given
      <4>6. QED
        BY <2>4, <4>1, <4>2, <4>3, <4>4, <4>5 DEF DsNext, DsStep
    <3>2. dsPc # "done"
      <4>1. dsPc = "done" => StagesOver /\ dsExec = {} /\ DOMAIN hashW = {} /\ comQ = <<>>
        BY DEF PipeInv, PipePhases, StagesOver
      <4>2. QED
        BY <2>4, <4>1 DEF DsNext, DsStep, StagesOver, DsCancel, ClassifyFails, ClassifySend, ClassifyEnds, HashTake, HashEnds, ExclusiveTake,
                          CommonTake, Flush, Hang
    <3>3. QED
      BY <3>1, <3>2 DEF SyncOutcome
  <2>5. QED
    BY <2>1, <2>2, <2>3, <2>4
<1>4. DsSpec => []PipeInv
  BY PipeStarts, PipeKept, PTL DEF DsSpec
<1>5. QED
  BY <1>2, <1>3, <1>4, PTL DEF DsSpec, RemovesAsMeant, Promise!PruningSpec
-----------------------------------------------------------------------------
(* A finite set of numbers can be listed in order, so a directory can.     *)
Listing(s, S) == Range(s) = S /\ \A i, j \in DOMAIN s : i < j => s[i] < s[j]
Listed(S) == \E s \in [1..Cardinality(S) -> S] : Listing(s, S)
LEMMA ListedNext ==
    ASSUME NEW S \in SUBSET Nat, IsFiniteSet(S), NEW x \in S, \A y \in S : x <= y, Listed(S \ {x})
    PROVE  Listed(S)
<1> DEFINE n == Cardinality(S \ {x})
<1>1. n \in Nat /\ Cardinality(S) = n + 1
  <2>1. Cardinality(S) \in Nat /\ IsFiniteSet(S \ {x}) /\ Cardinality(S \ {x}) = Cardinality(S) - 1
    BY FS_RemoveElement, FS_CardinalityType
  <2>2. n \in Nat
    BY <2>1, FS_CardinalityType
  <2>3. QED
    BY <2>1, <2>2
<1>2. PICK s \in [1..n -> S \ {x}] : Listing(s, S \ {x})
  BY DEF Listed
<1> DEFINE t == [i \in 1..(n + 1) |-> IF i = 1 THEN x ELSE s[i - 1]]
<1> HIDE DEF n
<1>3. \A i \in 1..(n + 1) : i # 1 => i - 1 \in 1..n
  BY <1>1
<1>4. t \in [1..Cardinality(S) -> S]
  BY <1>1, <1>2, <1>3
<1>5. Range(t) = S
  <2>1. ASSUME NEW y \in S PROVE \E i \in DOMAIN t : t[i] = y
    <3>1. CASE y = x
      <4>1. 1 \in DOMAIN t /\ t[1] = x
        BY <1>1
      <4>2. QED
        BY <3>1, <4>1
    <3>2. CASE y # x
      <4>1. PICK i \in DOMAIN s : s[i] = y
        BY <1>2, <3>2 DEF Listing, Range
      <4>2. i \in 1..n
        BY <4>1
      <4>3. i + 1 \in 1..(n + 1) /\ i + 1 # 1 /\ (i + 1) - 1 = i
        BY <1>1, <4>2
      <4>4. t[i + 1] = y
        BY <4>1, <4>3
      <4>5. QED
        BY <4>3, <4>4
    <3>3. QED
      BY <3>1, <3>2
  <2> HIDE DEF t
  <2>2. \A i \in DOMAIN t : t[i] \in S
    BY <1>4
  <2>3. QED
    BY <2>1, <2>2 DEF Range
<1>6. ASSUME NEW i \in DOMAIN t, NEW j \in DOMAIN t, i < j PROVE t[i] < t[j]
  <2>0. i \in 1..(n + 1) /\ j \in 1..(n + 1)
    OBVIOUS
  <2>1. j # 1 /\ j - 1 \in 1..n /\ t[j] = s[j - 1]
    BY <1>1, <1>3, <1>6, <2>0
  <2>2. CASE i = 1
    <3>1. t[i] = x /\ s[j - 1] \in S \ {x}
      BY <1>2, <2>0, <2>1, <2>2
    <3>2. x <= s[j - 1] /\ x # s[j - 1] /\ x \in Nat /\ s[j - 1] \in Nat
      BY <3>1
    <3>3. x < s[j - 1]
      BY <3>2
    <3>4. QED
      BY <2>1, <3>1, <3>3
  <2>3. CASE i # 1
    <3>1. i - 1 \in 1..n /\ i - 1 < j - 1 /\ t[i] = s[i - 1]
      BY <1>1, <1>3, <1>6, <2>0, <2>3
    <3>2. QED
      BY <1>2, <2>1, <3>1 DEF Listing
  <2>4. QED
    BY <2>2, <2>3
<1>7. QED
  BY <1>4, <1>5, <1>6 DEF Listed, Listing
LEMMA ListedAlways == ASSUME NEW S \in SUBSET Nat, IsFiniteSet(S) PROVE Listed(S)
<1> DEFINE Bad == {n \in Nat : \E T \in SUBSET Nat : IsFiniteSet(T) /\ Cardinality(T) = n /\ ~Listed(T)}
<1>1. SUFFICES Bad = {}
  <2>1. Cardinality(S) \in Nat
    BY FS_CardinalityType
  <2>2. QED
    BY <2>1
<1>2. SUFFICES ASSUME Bad # {} PROVE FALSE
  OBVIOUS
<1>3. PICK n \in Bad : \A m \in Bad : n <= m
  <2>1. Bad \in SUBSET Nat
    OBVIOUS
  <2> HIDE DEF Bad
  <2>2. QED
    BY <1>2, <2>1, FirstOf
<1>4. PICK T \in SUBSET Nat : IsFiniteSet(T) /\ Cardinality(T) = n /\ ~Listed(T)
  OBVIOUS
<1>5. CASE T = {}
  <2>1. Cardinality(T) = 0
    BY <1>5, FS_EmptySet
  <2>2. <<>> \in [1..0 -> T] /\ Range(<<>>) = {} /\ DOMAIN <<>> = {}
    BY DEF Range
  <2>3. QED
    BY <1>4, <1>5, <2>1, <2>2 DEF Listed, Listing
<1>6. CASE T # {}
  <2>1. PICK x \in T : \A y \in T : x <= y
    BY <1>6, FirstOf
  <2>2. IsFiniteSet(T \ {x}) /\ Cardinality(T \ {x}) = n - 1
    BY <1>4, FS_RemoveElement
  <2>3. Cardinality(T \ {x}) \in Nat /\ n \in Nat
    BY <2>2, FS_CardinalityType
  <2>4. Cardinality(T \ {x}) \notin Bad
    <3> HIDE DEF Bad
    <3>1. QED
      BY <1>3, <2>2, <2>3
  <2>5. Listed(T \ {x})
    BY <2>2, <2>3, <2>4
  <2>6. QED
    BY <1>4, <2>1, <2>5, ListedNext
<1>7. QED
  BY <1>5, <1>6

-----------------------------------------------------------------------------
(* Paths, and what stays.                                                  *)
DirPath == Seq(Nat)
LEMMA UnderPoint ==
    ASSUME NEW p \in DirPath, NEW d \in DirPath
    PROVE  Under(p, d) <=> Len(d) <= Len(p) /\ \A i \in 1..Len(d) : p[i] = d[i]
<1>1. Len(d) \in Nat /\ Len(p) \in Nat
  BY DEF DirPath
<1>2. SubSeq(d, 1, Len(d)) = d
  BY DEF DirPath
<1>3. CASE Len(d) <= Len(p)
  <2>1. SubSeq(p, 1, Len(d)) \in DirPath /\ Len(SubSeq(p, 1, Len(d))) = Len(d)
    BY <1>1, <1>3 DEF DirPath
  <2>2. \A i \in 1..Len(d) : SubSeq(p, 1, Len(d))[i] = p[i]
    BY <1>1, <1>3 DEF DirPath
  <2>3. SubSeq(p, 1, Len(d)) = d <=> \A i \in 1..Len(d) : SubSeq(p, 1, Len(d))[i] = d[i]
    BY <2>1, SeqEqual DEF DirPath
  <2>4. QED
    BY <1>2, <1>3, <2>2, <2>3 DEF Under, IsPrefix
<1>4. QED
  BY <1>3 DEF Under, IsPrefix
LEMMA UnderTransitive ==
    ASSUME NEW p \in DirPath, NEW q \in DirPath, NEW d \in DirPath, Under(p, q), Under(q, d)
    PROVE  Under(p, d)
<1>1. Len(d) <= Len(q) /\ Len(q) <= Len(p) /\ Len(d) \in Nat /\ Len(q) \in Nat /\ Len(p) \in Nat
  BY UnderPoint DEF DirPath
<1>2. \A i \in 1..Len(d) : i \in 1..Len(q)
  BY <1>1
<1>3. QED
  BY <1>1, <1>2, UnderPoint
LEMMA ChildOf ==
    ASSUME NEW d \in DirPath, NEW n \in Nat
    PROVE  /\ Append(d, n) \in DirPath /\ Len(Append(d, n)) = Len(d) + 1
           /\ Append(d, n)[Len(d) + 1] = n /\ \A i \in 1..Len(d) : Append(d, n)[i] = d[i]
BY DEF DirPath
LEMMA UnderChild ==
    ASSUME NEW p \in DirPath, NEW d \in DirPath, NEW n \in Nat
    PROVE  Under(p, Append(d, n)) <=> Under(p, d) /\ Len(p) > Len(d) /\ p[Len(d) + 1] = n
<1> DEFINE e == Append(d, n)  m == Len(d)
<1>1. m \in Nat /\ Len(p) \in Nat
  BY DEF DirPath
<1>2. e \in DirPath /\ Len(e) = m + 1 /\ e[m + 1] = n /\ \A i \in 1..m : e[i] = d[i]
  BY ChildOf
<1>3. Under(p, d) <=> m <= Len(p) /\ \A i \in 1..m : p[i] = d[i]
  BY UnderPoint
<1>4. SUFFICES Under(p, e) <=> Under(p, d) /\ Len(p) > m /\ p[m + 1] = n
  OBVIOUS
<1> HIDE DEF e, m
<1>5. Under(p, e) <=> m + 1 <= Len(p) /\ \A i \in 1..(m + 1) : p[i] = e[i]
  BY <1>2, UnderPoint
<1>6. (\A i \in 1..(m + 1) : p[i] = e[i]) <=> p[m + 1] = n /\ \A i \in 1..m : p[i] = d[i]
  <2>1. \A i \in 1..(m + 1) : i \in 1..m \/ i = m + 1
    BY <1>1
  <2>2. m + 1 \in 1..(m + 1) /\ \A i \in 1..m : i \in 1..(m + 1)
    BY <1>1
  <2>3. QED
    BY <1>2, <2>1, <2>2
<1>7. m + 1 <= Len(p) <=> m <= Len(p) /\ Len(p) > m
  BY <1>1
<1>8. QED
  BY <1>3, <1>5, <1>6, <1>7
LEMMA SamePath ==
    ASSUME NEW p \in DirPath, NEW d \in DirPath, Under(p, d), Len(p) = Len(d)
    PROVE  p = d
<1>1. \A i \in 1..Len(p) : p[i] = d[i]
  BY UnderPoint
<1>2. QED
  BY <1>1, SeqEqual DEF DirPath
LEMMA UnderItself == ASSUME NEW p \in DirPath PROVE Under(p, p) /\ Under(p, <<>>)
<1>1. <<>> \in DirPath /\ Len(<<>>) = 0 /\ Len(p) \in Nat
  BY DEF DirPath
<1>2. QED
  BY <1>1, UnderPoint
LEMMA PrefixUnder ==
    ASSUME NEW p \in DirPath, NEW d \in DirPath, Under(p, d)
    PROVE  \A i \in 1..Len(d) : SubSeq(p, 1, i) = SubSeq(d, 1, i)
<1>1. ASSUME NEW i \in 1..Len(d) PROVE SubSeq(p, 1, i) = SubSeq(d, 1, i)
  <2>1. Len(d) \in Nat /\ Len(p) \in Nat /\ i \in Nat /\ i <= Len(d) /\ i <= Len(p)
    BY UnderPoint DEF DirPath
  <2>2. SubSeq(p, 1, i) \in DirPath /\ SubSeq(d, 1, i) \in DirPath /\ Len(SubSeq(p, 1, i)) = i /\ Len(SubSeq(d, 1, i)) = i
    BY <2>1 DEF DirPath
  <2>3. \A j \in 1..i : SubSeq(p, 1, i)[j] = p[j] /\ SubSeq(d, 1, i)[j] = d[j] /\ j \in 1..Len(d)
    BY <2>1 DEF DirPath
  <2>4. \A j \in 1..i : SubSeq(p, 1, i)[j] = SubSeq(d, 1, i)[j]
    BY <2>3, UnderPoint
  <2>5. QED
    BY <2>2, <2>4, SeqEqual DEF DirPath
<1>2. QED
  BY <1>1

(* What an entry is in is a directory; its names are those of its entries. *)
LEMMA PathsOfTree == ASSUME NEW w \in DpWorlds PROVE DOMAIN w.tree \subseteq DirPath /\ Dirs(w) \subseteq DirPath
<1>1. DOMAIN w.tree \subseteq DirPath
  BY DpAssumption DEF DirPath
<1>2. <<>> \in DirPath
  BY DEF DirPath
<1>3. QED
  BY <1>1, <1>2 DEF Dirs
LEMMA Inside ==
    ASSUME NEW w \in DpWorlds, NEW p \in DOMAIN w.tree, NEW d \in DirPath, Under(p, d), Len(p) > Len(d)
    PROVE  d \in Dirs(w)
<1>1. CASE d = <<>>
  BY <1>1 DEF Dirs
<1>2. CASE d # <<>>
  <2>1. p \in DirPath /\ Len(p) \in Nat /\ Len(d) \in Nat /\ Len(d) # 0
    BY <1>2, PathsOfTree DEF DirPath
  <2>2. Len(d) \in 1..(Len(p) - 1)
    BY <2>1
  <2>3. SubSeq(p, 1, Len(d)) = SubSeq(d, 1, Len(d)) /\ SubSeq(d, 1, Len(d)) = d
    BY DEF Under, IsPrefix, DirPath
  <2>4. d \in DOMAIN w.tree /\ IsDir(w.tree, d)
    BY <2>2, <2>3, DpAssumption
  <2>5. QED
    BY <2>4 DEF Dirs
<1>3. QED
  BY <1>1, <1>2
LEMMA NamesAre ==
    ASSUME NEW w \in DpWorlds, NEW d \in Dirs(w)
    PROVE  /\ Names(w.tree, d) \in Seq(Nat)
           /\ \A i \in 1..Len(Names(w.tree, d)) : Append(d, Names(w.tree, d)[i]) \in DOMAIN w.tree
           /\ \A p \in DOMAIN w.tree : Under(p, d) /\ Len(p) > Len(d) =>
                \E i \in 1..Len(Names(w.tree, d)) : Names(w.tree, d)[i] = p[Len(d) + 1]
<1> DEFINE Q == {q \in DOMAIN w.tree : Len(q) = Len(d) + 1 /\ IsPrefix(d, q)}
           S == {p[Len(d) + 1] : p \in Q}
           s == Names(w.tree, d)
<1>1. d \in DirPath /\ Len(d) \in Nat
  BY PathsOfTree DEF DirPath
<1>2. \A q \in Q : q \in DirPath /\ q[Len(d) + 1] \in Nat
  <2>1. ASSUME NEW q \in Q PROVE q \in DirPath /\ q[Len(d) + 1] \in Nat
    <3>1. q \in Seq(Nat) /\ Len(d) + 1 \in 1..Len(q)
      BY <1>1, PathsOfTree DEF DirPath
    <3>2. QED
      BY <3>1 DEF DirPath
  <2>2. QED
    BY <2>1
<1>3. S \in SUBSET Nat /\ IsFiniteSet(S)
  <2>1. IsFiniteSet(Q)
    BY DpAssumption, FS_Subset
  <2>2. IsFiniteSet(S)
    <3> DEFINE f == [p \in Q |-> p[Len(d) + 1]]
    <3>1. f \in Surjection(Q, S)
      BY DEF Surjection
    <3> HIDE DEF f, Q, S
    <3>2. QED
      BY <2>1, <3>1, FS_Surjection
  <2>3. QED
    BY <1>2, <2>2
<1>4. s \in [1..Cardinality(S) -> S] /\ Listing(s, S)
  <2>1. \E t \in [1..Cardinality(S) -> S] : Listing(t, S)
    BY <1>3, ListedAlways DEF Listed
  <2>2. s = CHOOSE t \in [1..Cardinality(S) -> S] : Listing(t, S)
    BY DEF Names, Listing
  <2> HIDE DEF S, s
  <2>3. QED
    BY <2>1, <2>2
<1>5. Cardinality(S) \in Nat
  BY <1>3, FS_CardinalityType
<1>6. s \in Seq(Nat) /\ DOMAIN s = 1..Len(s) /\ Range(s) = S
  <2> HIDE DEF S, s
  <2>1. s \in [1..Cardinality(S) -> Nat]
    BY <1>3, <1>4
  <2>2. s \in Seq(Nat) /\ DOMAIN s = 1..Len(s)
    BY <1>5, <2>1
  <2>3. QED
    BY <1>4, <2>2 DEF Listing
<1>7. ASSUME NEW i \in 1..Len(s) PROVE Append(d, s[i]) \in DOMAIN w.tree
  <2>1. s[i] \in S /\ s[i] \in Nat
    <3> HIDE DEF S, s
    <3>1. i \in DOMAIN s
      BY <1>6
    <3>2. QED
      BY <1>6, <3>1 DEF Range
  <2>2. PICK q \in Q : s[i] = q[Len(d) + 1]
    BY <2>1
  <2>3. Under(q, d) /\ q \in DirPath /\ Len(q) = Len(d) + 1
    BY <1>2 DEF Under
  <2>4. Under(q, Append(d, s[i])) /\ Append(d, s[i]) \in DirPath /\ Len(Append(d, s[i])) = Len(d) + 1
    <3>1. Len(q) > Len(d)
      BY <1>1, <2>3
    <3> HIDE DEF s
    <3>2. QED
      BY <1>1, <2>1, <2>2, <2>3, <3>1, UnderChild, ChildOf
  <2>5. q = Append(d, s[i])
    BY <2>3, <2>4, SamePath
  <2>6. QED
    BY <2>5
<1>8. ASSUME NEW p \in DOMAIN w.tree, Under(p, d), Len(p) > Len(d)
      PROVE  \E i \in 1..Len(s) : s[i] = p[Len(d) + 1]
  <2> DEFINE n == p[Len(d) + 1]  e == Append(d, n)
  <2>1. p \in DirPath /\ Len(p) \in Nat /\ n \in Nat
    <3>1. p \in Seq(Nat) /\ Len(d) + 1 \in 1..Len(p)
      BY <1>1, <1>8, PathsOfTree DEF DirPath
    <3>2. QED
      BY <3>1 DEF DirPath
  <2>2. e \in DirPath /\ Len(e) = Len(d) + 1 /\ e[Len(d) + 1] = n /\ Under(p, e) /\ Under(e, d)
    <3> HIDE DEF n
    <3>1. e \in DirPath /\ Len(e) = Len(d) + 1 /\ e[Len(d) + 1] = n
      BY <1>1, <2>1, ChildOf
    <3>2. Under(p, e) <=> Under(p, d) /\ Len(p) > Len(d) /\ p[Len(d) + 1] = n
      BY <1>1, <2>1, UnderChild
    <3>3. Under(e, e) /\ (Under(e, e) <=> Under(e, d) /\ Len(e) > Len(d) /\ e[Len(d) + 1] = n)
      BY <1>1, <2>1, <3>1, UnderChild, UnderItself
    <3>4. QED
      BY <1>8, <3>1, <3>2, <3>3 DEF n
  <2>3. e \in DOMAIN w.tree
    <3>1. CASE Len(p) = Len(e)
      BY <2>1, <2>2, <3>1, SamePath
    <3>2. CASE Len(p) # Len(e)
      <4>1. Len(p) > Len(e) /\ e # <<>>
        <5> HIDE DEF e
        <5>1. Len(e) \in Nat /\ Len(e) <= Len(p)
          BY <1>1, <2>2, <1>8, <2>1
        <5>2. Len(<<>>) = 0
          OBVIOUS
        <5>3. QED
          BY <1>1, <2>1, <2>2, <3>2, <5>1, <5>2
      <4>2. e \in Dirs(w)
        BY <2>2, <4>1, Inside
      <4>3. QED
        BY <4>1, <4>2 DEF Dirs
    <3>3. QED
      BY <3>1, <3>2
  <2>4. n \in S
    <3>1. e \in Q
      BY <2>2, <2>3 DEF Under
    <3> HIDE DEF Q, e, n
    <3>2. QED
      BY <2>2, <3>1
  <2>5. QED
    BY <1>6, <2>4 DEF Range
<1>9. QED
  BY <1>6, <1>7, <1>8

(* An entry the filter rejects goes with all below it, and with one that   *)
(* goes all below it goes.                                                 *)
LEMMA IncludeWeaker == ASSUME NEW f, NEW p, NEW b \in BOOLEAN, Include(f, p, FALSE) PROVE Include(f, p, b)
BY DEF Include
LEMMA MeantBelow ==
    ASSUME NEW w \in DpWorlds, NEW d \in DOMAIN w.tree, NEW p \in DOMAIN w.tree, Under(p, d), ~Stays(w, d)
    PROVE  ~Stays(w, p)
<1>1. \A q \in Below(w.tree, p) : q \in Below(w.tree, d)
  BY PathsOfTree, UnderTransitive DEF Below
<1>2. QED
  BY <1>1 DEF Stays
LEMMA Rejected ==
    ASSUME NEW w \in DpWorlds, NEW d \in DOMAIN w.tree, ~Include(w.filter, d, IsDir(w.tree, d))
    PROVE  ~Stays(w, d)
<1>1. SUFFICES ASSUME NEW q \in Below(w.tree, d), MatchesDown(w, q) PROVE FALSE
  BY DEF Stays
<1>2. q \in DOMAIN w.tree /\ Under(q, d) /\ q \in DirPath /\ d \in DirPath /\ Len(q) \in Nat /\ Len(d) \in Nat
  BY PathsOfTree DEF Below, DirPath
<1>3. Len(d) <= Len(q)
  BY <1>2, UnderPoint
<1>4. CASE Len(q) = Len(d)
  <2>1. q = d
    BY <1>2, <1>4, SamePath
  <2>2. Include(w.filter, d, FALSE)
    BY <1>1, <2>1 DEF MatchesDown
  <2>3. IsDir(w.tree, d) \in BOOLEAN
    BY DEF IsDir
  <2>4. QED
    BY <2>2, <2>3, IncludeWeaker
<1>5. CASE Len(q) # Len(d)
  <2>1. Len(q) > Len(d) /\ d # <<>>
    <3>1. d # <<>>
      BY DpAssumption
    <3>2. QED
      BY <1>2, <1>3, <1>5, <3>1
  <2>2. IsDir(w.tree, d) = TRUE
    <3>1. d \in Dirs(w)
      BY <1>2, <2>1, Inside
    <3>2. QED
      BY <2>1, <3>1 DEF Dirs, IsDir
  <2>3. Len(d) \in 1..(Len(q) - 1) /\ SubSeq(q, 1, Len(d)) = d
    <3>1. Len(d) # 0
      BY <1>2, <2>1 DEF DirPath
    <3>2. Len(d) \in 1..(Len(q) - 1)
      BY <1>2, <2>1, <3>1
    <3>3. SubSeq(q, 1, Len(d)) = SubSeq(d, 1, Len(d)) /\ SubSeq(d, 1, Len(d)) = d
      BY <1>2 DEF Under, IsPrefix, DirPath
    <3>4. QED
      BY <3>2, <3>3
  <2>4. Include(w.filter, d, TRUE)
    BY <1>1, <2>3 DEF MatchesDown
  <2>5. QED
    BY <2>2, <2>4
<1>6. QED
  BY <1>4, <1>5

-----------------------------------------------------------------------------
(* What the walk can see, and what goes where it sees nothing that stays.  *)
LEMMA PrefixesOf == ASSUME NEW q \in DirPath PROVE Prefixes(q) = {x \in DirPath : Under(q, x)}
<1>1. Len(q) \in Nat
  BY DEF DirPath
<1>2. ASSUME NEW x \in Prefixes(q) PROVE x \in DirPath /\ Under(q, x)
  <2>1. PICK l \in 0..Len(q) : x = SubSeq(q, 1, l)
    BY DEF Prefixes
  <2>2. l \in Nat /\ l <= Len(q)
    BY <1>1, <2>1
  <2>3. SubSeq(q, 1, l) \in DirPath /\ Len(SubSeq(q, 1, l)) = l /\ \A i \in 1..l : SubSeq(q, 1, l)[i] = q[i]
    BY <2>2 DEF DirPath
  <2>4. x \in DirPath /\ Len(x) = l /\ \A i \in 1..l : x[i] = q[i]
    BY <2>1, <2>3
  <2>5. QED
    BY <2>2, <2>4, UnderPoint
<1>3. ASSUME NEW x \in DirPath, Under(q, x) PROVE x \in Prefixes(q)
  <2>1. Len(x) \in 0..Len(q)
    BY <1>1, <1>3, UnderPoint DEF DirPath
  <2>2. SubSeq(q, 1, Len(x)) = SubSeq(x, 1, Len(x)) /\ SubSeq(x, 1, Len(x)) = x
    BY <1>3 DEF Under, IsPrefix, DirPath
  <2>3. QED
    BY <2>1, <2>2 DEF Prefixes
<1>4. QED
  BY <1>2, <1>3
LEMMA SeenIs ==
    ASSUME NEW w, NEW q \in DirPath
    PROVE  Seen(w, q) <=> \A x \in DirPath : Under(q, x) => x \notin w.unstat /\ (x # q => x \notin w.unreadable)
BY PrefixesOf DEF Seen
LEMMA SeenRoot == ASSUME NEW w \in DpWorlds PROVE Seen(w, <<>>)
<1>1. <<>> \in DirPath /\ Len(<<>>) = 0 /\ <<>> \notin w.unstat
  BY DpAssumption DEF DirPath
<1>2. ASSUME NEW e \in DirPath, Len(e) = 0, NEW x \in DirPath, Under(e, x) PROVE x = e
  <2>0. Len(x) \in Nat
    BY DEF DirPath
  <2>1. Len(x) <= Len(e)
    BY <1>2, UnderPoint
  <2>2. Len(e) = Len(x)
    BY <1>2, <2>0, <2>1
  <2>3. QED
    BY <1>2, <2>2, SamePath
<1>3. QED
  BY <1>1, <1>2, SeenIs
LEMMA SeenChild ==
    ASSUME NEW w, NEW d \in DirPath, NEW n \in Nat, Seen(w, d), d \notin w.unreadable, Append(d, n) \notin w.unstat
    PROVE  Seen(w, Append(d, n))
<1> DEFINE e == Append(d, n)
<1>1. e \in DirPath /\ Len(e) = Len(d) + 1 /\ Len(d) \in Nat /\ \A i \in 1..Len(d) : e[i] = d[i]
  BY ChildOf DEF DirPath
<1>2. SUFFICES Seen(w, e)
  OBVIOUS
<1>3. e \notin w.unstat
  OBVIOUS
<1> HIDE DEF e
<1>4. ASSUME NEW x \in DirPath, Under(e, x), x # e PROVE Under(d, x)
  <2>1. Len(x) \in Nat /\ Len(x) <= Len(e) /\ \A i \in 1..Len(x) : e[i] = x[i]
    BY <1>1, <1>4, UnderPoint DEF DirPath
  <2>2. Len(x) # Len(e)
    BY <1>1, <1>4, SamePath
  <2>3. Len(x) <= Len(d) /\ \A i \in 1..Len(x) : i \in 1..Len(d)
    BY <1>1, <2>1, <2>2
  <2>4. QED
    BY <1>1, <2>1, <2>3, UnderPoint
<1>5. \A x \in DirPath : Under(e, x) => x \notin w.unstat /\ (x # e => x \notin w.unreadable)
  BY <1>3, <1>4, SeenIs
<1>6. QED
  BY <1>1, <1>5, SeenIs

\* The walk sees nothing that stays from p on.
ShowsNone(p) == \A q \in Below(dpOf.tree, p) : MatchesDown(dpOf, q) => ~Seen(dpOf, q)
Fit(p) == Below(dpOf.tree, p) \subseteq dpReach
LEMMA ShowsNoneBut == ASSUME NEW p, ~Stays(dpOf, p) PROVE ShowsNone(p)
BY DEF ShowsNone, Stays
LEMMA UnseenUnstat ==
    ASSUME dpOf \in DpWorlds, NEW p \in DirPath, p \in dpOf.unstat
    PROVE  ShowsNone(p)
<1>1. \A q \in Below(dpOf.tree, p) : q \in DirPath /\ Under(q, p)
  BY PathsOfTree DEF Below
<1>2. QED
  BY <1>1, SeenIs DEF ShowsNone
LEMMA MeantFits ==
    ASSUME dpOf \in DpWorlds, NEW p \in DOMAIN dpOf.tree, ~Stays(dpOf, p),
           {q \in DOMAIN dpOf.tree : ~Stays(dpOf, q)} \subseteq dpReach
    PROVE  Fit(p)
<1>1. \A q \in Below(dpOf.tree, p) : q \in DOMAIN dpOf.tree /\ Under(q, p)
  BY DEF Below
<1>2. QED
  BY <1>1, MeantBelow DEF Fit
LEMMA BlindFits ==
    ASSUME dpOf \in DpWorlds, NEW p \in DOMAIN dpOf.tree, Seen(dpOf, p), ShowsNone(p), Blind(dpOf) \subseteq dpReach
    PROVE  Fit(p)
<1>1. p \in DirPath /\ p # <<>>
  BY PathsOfTree, DpAssumption
<1>2. ASSUME NEW q \in Below(dpOf.tree, p) PROVE q \in Blind(dpOf)
  <2>1. q \in DOMAIN dpOf.tree /\ q \in DirPath /\ Under(q, p)
    BY PathsOfTree DEF Below
  <2>2. p \in Prefixes(q) \ {<<>>}
    BY <1>1, <2>1, PrefixesOf
  <2>3. QED
    BY <2>1, <2>2 DEF Blind, ShowsNone
<1>3. QED
  BY <1>2 DEF Fit

-----------------------------------------------------------------------------
(* The walk.                                                               *)
Frame == [dir : DirPath, at : Nat, keep : BOOLEAN]
Job == [path : DirPath, all : BOOLEAN]
Frames == 1..Len(dpStack)
List(d) == dpNames[d]

(* The frames are a way down from the root, each at the entry the next one *)
(* is in, through directories the filter lets pass.                        *)
AllPass(d) == \A i \in 1..Len(d) : Include(dpOf.filter, SubSeq(d, 1, i), TRUE)
WalkShape ==
    /\ dpOf \in DpWorlds /\ dpNames = [d \in Dirs(dpOf) |-> Names(dpOf.tree, d)]
    /\ dpMeant = {p \in DOMAIN dpOf.tree : ~Stays(dpOf, p)} /\ dpReach = dpMeant \cup Blind(dpOf)
    /\ dpLeft \subseteq DOMAIN dpOf.tree /\ dpCtx \in BOOLEAN /\ dpStack \in Seq(Frame)
    /\ \A k \in Frames : dpStack[k].dir \in Dirs(dpOf) /\ AllPass(dpStack[k].dir)
    /\ \A k \in 1..(Len(dpStack) - 1) :
         /\ dpStack[k].at \in 1..Len(List(dpStack[k].dir))
         /\ dpStack[k + 1].dir = Append(dpStack[k].dir, List(dpStack[k].dir)[dpStack[k].at])
    /\ Len(dpStack) > 0 => dpStack[1].dir = <<>>

(* A directory that keeps something holds something that stays; one that   *)
(* keeps nothing so far has nothing that stays, and that the walk can see, *)
(* among the entries visited, unless a cancellation has cut short the walk *)
(* of one of them.                                                         *)
Inner(q, d) == Under(q, d) /\ Len(q) > Len(d)
HoldsOne(d) == \E q \in DOMAIN dpOf.tree : Inner(q, d) /\ MatchesDown(dpOf, q)
OnlyFrom(d, at) ==
    \A q \in DOMAIN dpOf.tree : Inner(q, d) /\ MatchesDown(dpOf, q) /\ Seen(dpOf, q) =>
        \E i \in 1..Len(List(d)) : i >= at /\ List(d)[i] = q[Len(d) + 1]
Sighted(fr) == Seen(dpOf, fr.dir) /\ (fr.at > 0 => fr.dir \notin dpOf.unreadable)
Told(fr) ==
    /\ Sighted(fr)
    /\ fr.keep => HoldsOne(fr.dir)
    /\ ~dpCtx /\ ~fr.keep => OnlyFrom(fr.dir, fr.at)
KeepTells == \A k \in Frames : Told(dpStack[k])

(* Only what may go is removed: a removal in the channel may be wrong      *)
(* after a cancellation, and then no worker submits it.                    *)
JobShape == dpJobs \in Seq(Job) /\ dpBusy \subseteq Job /\ dpPend \subseteq Job /\ dpExec \subseteq Job
JobsMeant ==
    /\ \A j \in dpBusy \cup dpPend \cup dpExec : Fit(j.path)
    /\ ~dpCtx => \A j \in Range(dpJobs) : Fit(j.path)

(* What is meant to go and is still there is on its way, or the walk has   *)
(* yet to come to it.                                                      *)
Covers(j, p) == p = j.path \/ (j.all /\ Under(p, j.path))
InFlight == Range(dpJobs) \cup dpBusy \cup dpPend \cup dpExec
AheadIn(p, s, k) ==
    LET d == s[k].dir at == s[k].at IN
    Inner(p, d) /\ \E i \in 1..Len(List(d)) :
        /\ List(d)[i] = p[Len(d) + 1]
        /\ i > at \/ (i = at /\ (k = Len(s) \/ Len(p) = Len(d) + 1))
Found(p) == (\E j \in InFlight : Covers(j, p)) \/ \E k \in Frames : AheadIn(p, dpStack, k)
AllFound == ~dpCtx /\ dpErrs = {} /\ dpPc # "check" => \A p \in dpMeant \cap dpLeft : Found(p)

Phases ==
    /\ dpPc \in {"check", "walk", "pool", "close", "hung", "done"}
    /\ dpPc # "walk" => dpStack = <<>>
    /\ dpPc \in {"check", "close", "hung", "done"} => dpJobs = <<>> /\ dpBusy = {} /\ dpPend = {}
    /\ dpPc \notin {"close", "hung"} => dpExec = {}

PrunerInv == WalkShape /\ KeepTells /\ JobShape /\ JobsMeant /\ AllFound /\ Phases

-----------------------------------------------------------------------------
(* What a step does to the frames.                                         *)
Advanced(fr, b) == [dir |-> fr.dir, at |-> fr.at + 1, keep |-> fr.keep \/ b]
LEMMA AdvancedFrame ==
    ASSUME NEW fr \in Frame, NEW b \in BOOLEAN
    PROVE  Advanced(fr, b) \in Frame /\ Advanced(fr, b) = [fr EXCEPT !.at = fr.at + 1, !.keep = fr.keep \/ b]
<1> DEFINE v == fr.keep \/ b
<1>1. v \in BOOLEAN /\ fr.at + 1 \in Nat
  BY DEF Frame
<1>2. Advanced(fr, b) = [dir |-> fr.dir, at |-> fr.at + 1, keep |-> v]
  BY DEF Advanced
<1>3. [fr EXCEPT !.at = fr.at + 1, !.keep = fr.keep \/ b] = [fr EXCEPT !.at = fr.at + 1, !.keep = v]
  OBVIOUS
<1> HIDE DEF v
<1>4. [fr EXCEPT !.at = fr.at + 1, !.keep = v] = [dir |-> fr.dir, at |-> fr.at + 1, keep |-> v]
  <2>1. fr = [dir |-> fr.dir, at |-> fr.at, keep |-> fr.keep]
    BY DEF Frame
  <2>2. DOMAIN fr = {"dir", "at", "keep"}
    BY DEF Frame
  <2> DEFINE m == fr.at + 1
  <2> HIDE DEF m
  <2>3. [fr EXCEPT !.at = m, !.keep = v] = [dir |-> fr.dir, at |-> m, keep |-> v]
    <3> DEFINE x == [fr EXCEPT !.at = m, !.keep = v]  y == [dir |-> fr.dir, at |-> m, keep |-> v]
    <3>1. x = [f \in {"dir", "at", "keep"} |-> x[f]] /\ y = [f \in {"dir", "at", "keep"} |-> y[f]]
      BY <2>2
    <3>2. x.dir = fr.dir /\ x.at = m /\ x.keep = v /\ y.dir = fr.dir /\ y.at = m /\ y.keep = v
      BY <2>2
    <3> HIDE DEF x, y
    <3>3. x = y
      BY <3>1, <3>2
    <3>4. QED
      BY <3>3 DEF x, y
  <2>4. QED
    BY <2>3 DEF m
<1>5. [dir |-> fr.dir, at |-> fr.at + 1, keep |-> v] \in Frame
  BY <1>1 DEF Frame
<1>6. QED
  BY <1>2, <1>3, <1>4, <1>5
LEMMA NextEntryIs ==
    ASSUME dpStack \in Seq(Frame), dpStack # <<>>, NEW b \in BOOLEAN
    PROVE  /\ NextEntry(b) \in Seq(Frame) /\ Len(NextEntry(b)) = Len(dpStack)
           /\ \A k \in 1..(Len(dpStack) - 1) : NextEntry(b)[k] = dpStack[k]
           /\ NextEntry(b)[Len(dpStack)] = Advanced(Deepest, b)
<1> DEFINE n == Len(dpStack)  top == [Deepest EXCEPT !.at = @ + 1, !.keep = @ \/ b]
<1>1. n \in Nat \ {0} /\ Deepest \in Frame
  BY DEF Deepest
<1>2. top = Advanced(Deepest, b)
  BY <1>1, AdvancedFrame
<1>3. top \in Frame
  BY <1>1, <1>2, AdvancedFrame
<1>4. Above \in Seq(Frame) /\ Len(Above) = n - 1 /\ \A k \in 1..(n - 1) : Above[k] = dpStack[k]
  <2>1. Above = SubSeq(dpStack, 1, n - 1)
    BY DEF Above
  <2>2. n = Len(dpStack)
    OBVIOUS
  <2> HIDE DEF n
  <2>3. 1 \in Nat /\ n - 1 \in Nat /\ \A k \in 1..(n - 1) : k \in 1..Len(dpStack)
    BY <1>1, <2>2
  <2>4. QED
    BY <1>1, <2>1, <2>2, <2>3
<1>5. NextEntry(b) = Above \o <<top>>
  BY DEF NextEntry
<1> HIDE DEF n, top
<1>6. NextEntry(b) = Append(Above, top)
  BY <1>4, <1>3, <1>5
<1>7. NextEntry(b) \in Seq(Frame) /\ Len(NextEntry(b)) = n
  BY <1>1, <1>3, <1>4, <1>6
<1>8. \A k \in 1..(n - 1) : NextEntry(b)[k] = dpStack[k]
  BY <1>1, <1>3, <1>4, <1>6
<1>9. NextEntry(b)[n] = top
  <2>1. n = Len(Above) + 1
    BY <1>1, <1>4
  <2>2. QED
    BY <1>3, <1>4, <1>6, <2>1
<1>10. QED
  BY <1>2, <1>7, <1>8, <1>9 DEF n
Popped(b) == [Above EXCEPT ![Len(Above)].at = @ + 1, ![Len(Above)].keep = @ \/ b]
LEMMA PoppedIs ==
    ASSUME dpStack \in Seq(Frame), Len(dpStack) > 1, NEW b \in BOOLEAN
    PROVE  /\ Popped(b) \in Seq(Frame) /\ Len(Popped(b)) = Len(dpStack) - 1
           /\ \A k \in 1..(Len(dpStack) - 2) : Popped(b)[k] = dpStack[k]
           /\ Popped(b)[Len(dpStack) - 1] = Advanced(dpStack[Len(dpStack) - 1], b)
<1> DEFINE n == Len(dpStack) - 1  fr == dpStack[n]
<1>1. n \in Nat \ {0} /\ fr \in Frame /\ n - 1 = Len(dpStack) - 2
  <2>1. Len(dpStack) \in Nat
    OBVIOUS
  <2>2. \A m \in Nat : m > 1 => m - 1 \in Nat \ {0} /\ m - 1 \in 1..m /\ (m - 1) - 1 = m - 2
    OBVIOUS
  <2>3. QED
    BY <2>1, <2>2
<1>2. Above \in Seq(Frame) /\ Len(Above) = n /\ \A k \in 1..n : Above[k] = dpStack[k]
  BY <1>1 DEF Above
<1>3. Above[n] = fr
  BY <1>1, <1>2
<1> HIDE DEF n, fr
<1>4. DOMAIN Above = 1..n /\ n \in 1..n
  BY <1>1, <1>2
<1>5. Popped(b) = [Above EXCEPT ![n].at = @ + 1, ![n].keep = @ \/ b]
  BY <1>2 DEF Popped
<1>6. Popped(b) = [k \in 1..n |-> IF k = n THEN Advanced(fr, b) ELSE Above[k]]
  <2>1. [fr EXCEPT !.at = fr.at + 1, !.keep = fr.keep \/ b] = Advanced(fr, b)
    BY <1>1, AdvancedFrame
  <2>2. Popped(b) = [Above EXCEPT ![n] = [Above[n] EXCEPT !.at = Above[n].at + 1, !.keep = Above[n].keep \/ b]]
    BY <1>1, <1>3, <1>4, <1>5 DEF Frame
  <2>3. Popped(b) = [Above EXCEPT ![n] = Advanced(fr, b)]
    BY <1>3, <2>1, <2>2
  <2>4. QED
    BY <1>4, <2>3
<1>7. Advanced(fr, b) \in Frame
  BY <1>1, AdvancedFrame
<1>8. Popped(b) \in [1..n -> Frame]
  BY <1>1, <1>2, <1>6, <1>7
<1>9. Popped(b) \in Seq(Frame) /\ Len(Popped(b)) = n
  BY <1>1, <1>8
<1>10. \A k \in 1..(n - 1) : Popped(b)[k] = dpStack[k]
  BY <1>1, <1>2, <1>6
<1>11. QED
  BY <1>1, <1>4, <1>6, <1>9, <1>10 DEF n, fr

-----------------------------------------------------------------------------
(* The entry the walk is at, and what lies below it.                       *)
LEMMA EntryFacts ==
    ASSUME WalkShape, AtAnEntry
    PROVE  /\ Len(dpStack) \in Frames /\ Deepest = dpStack[Len(dpStack)] /\ Deepest \in Frame
           /\ Deepest.dir \in Dirs(dpOf) /\ Deepest.dir \in DirPath /\ AllPass(Deepest.dir)
           /\ Deepest.at \in 1..Len(List(Deepest.dir)) /\ List(Deepest.dir) \in Seq(Nat)
           /\ AtEntry \in DOMAIN dpOf.tree /\ AtEntry \in DirPath /\ Len(AtEntry) = Len(Deepest.dir) + 1
           /\ AtEntry = Append(Deepest.dir, List(Deepest.dir)[Deepest.at])
           /\ \A q \in DOMAIN dpOf.tree :
                Under(q, AtEntry) <=> Inner(q, Deepest.dir) /\ q[Len(Deepest.dir) + 1] = List(Deepest.dir)[Deepest.at]
<1> DEFINE d == Deepest.dir  i == Deepest.at
<1>1. Len(dpStack) \in Frames /\ Deepest \in Frame /\ dpOf \in DpWorlds
  BY DEF WalkShape, AtAnEntry, Frames, Deepest
<1>2. d \in Dirs(dpOf) /\ AllPass(d) /\ d \in DirPath
  BY <1>1, PathsOfTree DEF WalkShape, Deepest
<1>3. List(d) = Names(dpOf.tree, d)
  BY <1>2 DEF WalkShape, List
<1>4. i \in 1..Len(List(d)) /\ List(d) \in Seq(Nat) /\ AtEntry = Append(d, List(d)[i]) /\ List(d)[i] \in Nat
  BY <1>1, <1>2, <1>3, NamesAre DEF AtAnEntry, AtEntry, List
<1>5. AtEntry \in DOMAIN dpOf.tree
  BY <1>1, <1>2, <1>3, <1>4, NamesAre
<1>6. AtEntry \in DirPath /\ Len(AtEntry) = Len(d) + 1
  BY <1>2, <1>4, ChildOf
<1>7. ASSUME NEW q \in DOMAIN dpOf.tree
      PROVE  Under(q, AtEntry) <=> Inner(q, d) /\ q[Len(d) + 1] = List(d)[i]
  BY <1>1, <1>2, <1>4, PathsOfTree, UnderChild DEF Inner
<1>8. QED
  BY <1>1, <1>2, <1>4, <1>5, <1>6, <1>7 DEF Deepest
LEMMA PassesChild ==
    ASSUME NEW d \in DirPath, NEW n \in Nat, AllPass(d), Include(dpOf.filter, Append(d, n), TRUE)
    PROVE  AllPass(Append(d, n))
<1> DEFINE e == Append(d, n)
<1>1. e \in DirPath /\ Len(e) = Len(d) + 1 /\ Len(d) \in Nat /\ Under(e, d)
  <2>1. e \in DirPath /\ Len(e) = Len(d) + 1 /\ \A i \in 1..Len(d) : e[i] = d[i]
    BY ChildOf
  <2>2. Len(d) \in Nat
    BY DEF DirPath
  <2> HIDE DEF e
  <2>3. Len(d) <= Len(e)
    BY <2>1, <2>2
  <2>4. QED
    BY <2>1, <2>2, <2>3, UnderPoint
<1>2. SubSeq(e, 1, Len(e)) = e
  <2> HIDE DEF e
  <2>1. QED
    BY <1>1 DEF DirPath
<1>3. Include(dpOf.filter, e, TRUE)
  OBVIOUS
<1>4. SUFFICES AllPass(e)
  OBVIOUS
<1> HIDE DEF e
<1>5. \A i \in 1..Len(d) : SubSeq(e, 1, i) = SubSeq(d, 1, i)
  BY <1>1, PrefixUnder
<1>6. \A i \in 1..Len(e) : i \in 1..Len(d) \/ i = Len(e)
  BY <1>1
<1>7. QED
  BY <1>2, <1>3, <1>5, <1>6 DEF AllPass
LEMMA PassesMatches ==
    ASSUME NEW e \in DirPath, Include(dpOf.filter, e, FALSE),
           AllPass(e) \/ \E d \in DirPath : \E n \in Nat : AllPass(d) /\ e = Append(d, n)
    PROVE  MatchesDown(dpOf, e)
<1>1. Len(e) \in Nat
  BY DEF DirPath
<1>2. CASE AllPass(e)
  <2>1. \A i \in 1..(Len(e) - 1) : i \in 1..Len(e)
    BY <1>1
  <2>2. QED
    BY <1>2, <2>1 DEF AllPass, MatchesDown
<1>3. CASE \E d \in DirPath : \E n \in Nat : AllPass(d) /\ e = Append(d, n)
  <2>1. PICK d \in DirPath : \E n \in Nat : AllPass(d) /\ e = Append(d, n)
    BY <1>3
  <2>2. PICK n \in Nat : AllPass(d) /\ e = Append(d, n)
    BY <2>1
  <2>3. Include(dpOf.filter, e, TRUE)
    BY IncludeWeaker
  <2>4. AllPass(e)
    BY <2>2, <2>3, PassesChild
  <2>5. QED
    BY <1>2, <2>4
<1>4. QED
  BY <1>2, <1>3

(* The frames after each step of the walk.                                 *)
LEMMA ShapeInit == DpInit => WalkShape
<1>1. SUFFICES ASSUME DpInit PROVE WalkShape
  OBVIOUS
<1>2. dpStack = <<>> /\ Len(dpStack) = 0 /\ dpStack \in Seq(Frame) /\ Frames = {} /\ 1..(Len(dpStack) - 1) = {}
  BY <1>1 DEF DpInit, Frames
<1>3. dpOf \in DpWorlds /\ dpNames = [d \in Dirs(dpOf) |-> Names(dpOf.tree, d)]
  BY <1>1 DEF DpInit
<1>4. dpMeant = {p \in DOMAIN dpOf.tree : ~Stays(dpOf, p)} /\ dpReach = dpMeant \cup Blind(dpOf)
      /\ dpLeft \subseteq DOMAIN dpOf.tree /\ dpCtx \in BOOLEAN
  BY <1>1 DEF DpInit
<1>5. ~(Len(dpStack) > 0)
  BY <1>2
<1>6. QED
  BY <1>2, <1>3, <1>4, <1>5, Zenon DEF WalkShape
LEMMA ShapeOfStack ==
    ASSUME WalkShape, UNCHANGED <<dpOf, dpNames, dpMeant, dpReach>>, dpLeft' \subseteq dpLeft, dpCtx' \in BOOLEAN,
           dpStack' \in Seq(Frame),
           \A k \in 1..Len(dpStack') : dpStack'[k].dir \in Dirs(dpOf) /\ AllPass(dpStack'[k].dir),
           \A k \in 1..(Len(dpStack') - 1) :
             /\ dpStack'[k].at \in 1..Len(List(dpStack'[k].dir))
             /\ dpStack'[k + 1].dir = Append(dpStack'[k].dir, List(dpStack'[k].dir)[dpStack'[k].at]),
           Len(dpStack') > 0 => dpStack'[1].dir = <<>>
    PROVE  WalkShape'
<1>1. dpOf' \in DpWorlds /\ dpNames' = [d \in Dirs(dpOf') |-> Names(dpOf'.tree, d)]
  BY DEF WalkShape
<1>2. dpMeant' = {p \in DOMAIN dpOf'.tree : ~Stays(dpOf', p)} /\ dpReach' = dpMeant' \cup Blind(dpOf')
      /\ dpLeft' \subseteq DOMAIN dpOf'.tree
  BY DEF WalkShape
<1>3. (\A k \in Frames : dpStack[k].dir \in Dirs(dpOf) /\ AllPass(dpStack[k].dir))'
  BY DEF Frames, AllPass
<1>4. (\A k \in 1..(Len(dpStack) - 1) :
         /\ dpStack[k].at \in 1..Len(List(dpStack[k].dir))
         /\ dpStack[k + 1].dir = Append(dpStack[k].dir, List(dpStack[k].dir)[dpStack[k].at]))'
  BY DEF List
<1>5. QED
  BY <1>1, <1>2, <1>3, <1>4, Zenon DEF WalkShape
Root == [dir |-> <<>>, at |-> 0, keep |-> FALSE]
LEMMA RootFrame == Root \in Frame /\ Root.dir = <<>> /\ Root.at = 0 /\ Root.keep = FALSE
<1>1. <<>> \in DirPath
  BY DEF DirPath
<1>2. QED
  BY <1>1 DEF Root, Frame
Opened(fr) == [fr EXCEPT !.at = 1]
LEMMA ReadDirIs ==
    ASSUME WalkShape, ReadDir
    PROVE  /\ Len(dpStack) \in Frames /\ Len(dpStack') = Len(dpStack) /\ dpStack' \in Seq(Frame)
           /\ \A k \in Frames : k # Len(dpStack) => dpStack'[k] = dpStack[k]
           /\ dpStack'[Len(dpStack)].dir = Deepest.dir /\ dpStack'[Len(dpStack)].at = 1
           /\ dpStack'[Len(dpStack)].keep = Deepest.keep
<1> DEFINE n == Len(dpStack)
<1>1. n \in Frames /\ n \in Nat /\ Deepest = dpStack[n] /\ Deepest \in Frame /\ dpStack \in Seq(Frame)
  BY DEF WalkShape, ReadDir, Frames, Deepest
<1>2. dpStack' = [dpStack EXCEPT ![n].at = 1]
  BY DEF ReadDir
<1> HIDE DEF n
<1>3. DOMAIN dpStack = 1..n /\ Frames = 1..n
  BY <1>1 DEF Frames, n
<1>4. dpStack' = [k \in 1..n |-> IF k = n THEN Opened(Deepest) ELSE dpStack[k]]
  <2>1. dpStack' = [dpStack EXCEPT ![n] = [dpStack[n] EXCEPT !.at = 1]]
    BY <1>1, <1>2, <1>3
  <2>2. dpStack' = [dpStack EXCEPT ![n] = Opened(Deepest)]
    BY <1>1, <2>1 DEF Opened
  <2>3. QED
    BY <1>3, <2>2
<1>5. Opened(Deepest) \in Frame /\ Opened(Deepest).dir = Deepest.dir /\ Opened(Deepest).at = 1 /\ Opened(Deepest).keep = Deepest.keep
  BY <1>1 DEF Opened, Frame
<1>6. dpStack' \in [1..n -> Frame]
  BY <1>1, <1>3, <1>4, <1>5
<1>7. dpStack' \in Seq(Frame) /\ Len(dpStack') = n
  BY <1>1, <1>6
<1>8. QED
  BY <1>1, <1>3, <1>4, <1>5, <1>7 DEF n
LEMMA ShapeNext ==
    ASSUME PrunerInv, DpNext
    PROVE  WalkShape'
<1>0. WalkShape /\ UNCHANGED <<dpOf, dpNames, dpMeant, dpReach>> /\ dpStack \in Seq(Frame) /\ Phases /\ Len(dpStack) \in Nat
  <2>1. WalkShape /\ Phases
    BY DEF PrunerInv
  <2>2. UNCHANGED dpGiven
    BY DEF DpNext, DpStep, DpCancel, DpCheck, ReadDir, VisitUnstat, VisitNoMatch, VisitFile, VisitDir, LeaveDir, WalkEnds,
           WorkerTakes, WorkerSubmits, DpClose, DpExecute, DpHang, DpDone
  <2>3. dpOf' = dpOf /\ dpNames' = dpNames /\ dpMeant' = dpMeant /\ dpReach' = dpReach
    BY <2>2 DEF dpGiven
  <2>4. dpStack \in Seq(Frame)
    BY <2>1 DEF WalkShape
  <2>5. Len(dpStack) \in Nat
    BY <2>4
  <2>6. QED
    BY <2>1, <2>3, <2>4, <2>5
<1>1. dpLeft' \subseteq dpLeft
  <2>1. DpExecute \/ dpLeft' = dpLeft
    BY DEF DpNext, DpStep, DpCancel, DpCheck, ReadDir, VisitUnstat, VisitNoMatch, VisitFile, VisitDir, LeaveDir, WalkEnds,
           WorkerTakes, WorkerSubmits, DpClose, DpHang, DpDone
  <2>2. QED
    BY <2>1 DEF DpExecute
<1>2. dpCtx' \in BOOLEAN
  BY <1>0 DEF WalkShape, DpNext, DpStep, DpCancel, DpCheck, ReadDir, VisitUnstat, VisitNoMatch, VisitFile, VisitDir,
           LeaveDir, WalkEnds, WorkerTakes, WorkerSubmits, DpClose, DpExecute, DpHang, DpDone
<1>3. CASE UNCHANGED dpStack
  <2>1. \A k \in Frames : dpStack[k].dir \in Dirs(dpOf) /\ AllPass(dpStack[k].dir)
    BY <1>0 DEF WalkShape
  <2>2. QED
    BY <1>0, <1>1, <1>2, <1>3, <2>1, ShapeOfStack DEF WalkShape, Frames
<1>4. CASE dpStack' = <<Root>>
  <2>1. dpStack' \in Seq(Frame) /\ Len(dpStack') = 1 /\ dpStack'[1] = Root
    BY <1>4, RootFrame
  <2>2. Root.dir \in Dirs(dpOf) /\ AllPass(Root.dir)
    BY RootFrame DEF Dirs, AllPass
  <2>3. \A k \in 1..(Len(dpStack') - 1) : FALSE
    BY <2>1
  <2>4. QED
    BY <1>0, <1>1, <1>2, <2>1, <2>2, <2>3, RootFrame, ShapeOfStack
<1>5. CASE ReadDir
  <2>1. \A k \in 1..Len(dpStack') : k \in Frames /\ dpStack'[k].dir = dpStack[k].dir /\ (k # Len(dpStack) => dpStack'[k] = dpStack[k])
    BY <1>0, <1>5, ReadDirIs DEF Frames, Deepest
  <2>2. Len(dpStack') = Len(dpStack) /\ dpStack' \in Seq(Frame)
    BY <1>0, <1>5, ReadDirIs
  <2>3. \A k \in 1..Len(dpStack') : dpStack'[k].dir \in Dirs(dpOf) /\ AllPass(dpStack'[k].dir)
    BY <1>0, <2>1 DEF WalkShape
  <2>4. \A k \in 1..(Len(dpStack') - 1) :
             /\ dpStack'[k].at \in 1..Len(List(dpStack'[k].dir))
             /\ dpStack'[k + 1].dir = Append(dpStack'[k].dir, List(dpStack'[k].dir)[dpStack'[k].at])
    <3>1. \A k \in 1..(Len(dpStack') - 1) : k \in 1..Len(dpStack') /\ k + 1 \in 1..Len(dpStack') /\ k # Len(dpStack)
      BY <1>0, <2>2
    <3>2. QED
      BY <1>0, <2>1, <2>2, <3>1 DEF WalkShape
  <2>5. Len(dpStack') > 0 => dpStack'[1].dir = <<>>
    BY <1>0, <2>1, <2>2 DEF WalkShape
  <2>6. QED
    BY <1>0, <1>1, <1>2, <2>2, <2>3, <2>4, <2>5, ShapeOfStack
<1>6. ASSUME NEW b \in BOOLEAN, AtAnEntry, dpStack' = NextEntry(b) PROVE WalkShape'
  <2>0. dpStack # <<>> /\ Len(dpStack) \in Frames
    BY <1>0, <1>6, EntryFacts DEF AtAnEntry
  <2>1. /\ Len(dpStack') = Len(dpStack) /\ dpStack' \in Seq(Frame)
        /\ \A k \in 1..(Len(dpStack) - 1) : dpStack'[k] = dpStack[k]
        /\ dpStack'[Len(dpStack)].dir = dpStack[Len(dpStack)].dir
    <3>1. Advanced(Deepest, b).dir = dpStack[Len(dpStack)].dir
      BY DEF Advanced, Deepest
    <3>2. /\ NextEntry(b) \in Seq(Frame) /\ Len(NextEntry(b)) = Len(dpStack)
          /\ \A k \in 1..(Len(dpStack) - 1) : NextEntry(b)[k] = dpStack[k]
          /\ NextEntry(b)[Len(dpStack)] = Advanced(Deepest, b)
      BY <1>0, <2>0, NextEntryIs
    <3>3. QED
      BY <1>6, <3>1, <3>2, Zenon
  <2>2. \A k \in 1..Len(dpStack') : k \in Frames /\ dpStack'[k].dir = dpStack[k].dir /\ (k # Len(dpStack) => dpStack'[k] = dpStack[k])
    <3>1. \A k \in 1..Len(dpStack') : k \in Frames /\ (k = Len(dpStack) \/ k \in 1..(Len(dpStack) - 1))
      BY <1>0, <2>1 DEF Frames
    <3>2. QED
      BY <2>1, <3>1
  <2>3. \A k \in 1..Len(dpStack') : dpStack'[k].dir \in Dirs(dpOf) /\ AllPass(dpStack'[k].dir)
    BY <1>0, <2>2 DEF WalkShape
  <2>4. \A k \in 1..(Len(dpStack') - 1) :
             /\ dpStack'[k].at \in 1..Len(List(dpStack'[k].dir))
             /\ dpStack'[k + 1].dir = Append(dpStack'[k].dir, List(dpStack'[k].dir)[dpStack'[k].at])
    <3>1. \A k \in 1..(Len(dpStack') - 1) : k \in 1..Len(dpStack') /\ k + 1 \in 1..Len(dpStack') /\ k # Len(dpStack)
      BY <1>0, <2>1
    <3>2. QED
      BY <1>0, <2>1, <2>2, <3>1 DEF WalkShape
  <2>5. Len(dpStack') > 0 => dpStack'[1].dir = <<>>
    BY <1>0, <2>1, <2>2 DEF WalkShape
  <2>6. QED
    BY <1>0, <1>1, <1>2, <2>1, <2>3, <2>4, <2>5, ShapeOfStack
<1>7. CASE VisitDir
  <2> DEFINE fr == [dir |-> AtEntry, at |-> 0, keep |-> FALSE]
  <2>0. /\ Visiting /\ IsDir(dpOf.tree, AtEntry) /\ Include(dpOf.filter, AtEntry, TRUE)
        /\ dpStack' = Append(dpStack, fr)
    BY <1>7 DEF VisitDir
  <2>1. /\ Len(dpStack) \in Frames /\ Deepest = dpStack[Len(dpStack)] /\ Deepest.dir \in DirPath /\ AllPass(Deepest.dir)
        /\ Deepest.at \in 1..Len(List(Deepest.dir)) /\ List(Deepest.dir) \in Seq(Nat)
        /\ AtEntry \in DOMAIN dpOf.tree /\ AtEntry \in DirPath
        /\ AtEntry = Append(Deepest.dir, List(Deepest.dir)[Deepest.at])
    BY <1>0, <2>0, EntryFacts DEF Visiting
  <2>2. fr \in Frame /\ fr.dir = AtEntry
    BY <2>1 DEF Frame
  <2>3. AtEntry \in Dirs(dpOf) /\ AllPass(AtEntry)
    <3>1. List(Deepest.dir)[Deepest.at] \in Nat
      BY <2>1
    <3>2. AllPass(AtEntry)
      BY <2>0, <2>1, <3>1, PassesChild
    <3>3. QED
      BY <2>0, <2>1, <3>2 DEF Dirs
  <2> HIDE DEF fr
  <2>4. /\ dpStack' \in Seq(Frame) /\ Len(dpStack') = Len(dpStack) + 1 /\ dpStack'[Len(dpStack) + 1] = fr
        /\ \A k \in Frames : dpStack'[k] = dpStack[k]
    BY <1>0, <2>0, <2>2 DEF Frames
  <2>5. \A k \in 1..Len(dpStack') : k \in Frames \/ k = Len(dpStack) + 1
    BY <1>0, <2>4 DEF Frames
  <2>6. \A k \in 1..Len(dpStack') : dpStack'[k].dir \in Dirs(dpOf) /\ AllPass(dpStack'[k].dir)
    BY <1>0, <2>2, <2>3, <2>4, <2>5 DEF WalkShape
  <2>7. ASSUME NEW k \in 1..(Len(dpStack') - 1)
        PROVE  /\ dpStack'[k].at \in 1..Len(List(dpStack'[k].dir))
               /\ dpStack'[k + 1].dir = Append(dpStack'[k].dir, List(dpStack'[k].dir)[dpStack'[k].at])
    <3>1. k \in Frames /\ dpStack'[k] = dpStack[k]
      BY <1>0, <2>4 DEF Frames
    <3>2. CASE k = Len(dpStack)
      BY <2>1, <2>2, <2>4, <3>1, <3>2
    <3>3. CASE k # Len(dpStack)
      <4>1. k \in 1..(Len(dpStack) - 1) /\ k + 1 \in Frames
        BY <1>0, <3>1, <3>3 DEF Frames
      <4>2. QED
        BY <1>0, <2>4, <3>1, <4>1 DEF WalkShape
    <3>4. QED
      BY <3>2, <3>3
  <2>8. dpStack'[1].dir = <<>>
    <3>1. 1 \in Frames /\ Len(dpStack) > 0
      BY <1>0, <2>1 DEF Frames
    <3>2. QED
      BY <1>0, <2>4, <3>1 DEF WalkShape
  <2>9. QED
    BY <1>0, <1>1, <1>2, <2>4, <2>6, <2>7, <2>8, ShapeOfStack
<1>8. ASSUME NEW b \in BOOLEAN, Len(dpStack) > 1, dpStack' = Popped(b) PROVE WalkShape'
  <2>1. /\ dpStack' \in Seq(Frame) /\ Len(dpStack') = Len(dpStack) - 1
        /\ \A k \in 1..(Len(dpStack) - 2) : dpStack'[k] = dpStack[k]
        /\ dpStack'[Len(dpStack) - 1].dir = dpStack[Len(dpStack) - 1].dir
    <3>1. Advanced(dpStack[Len(dpStack) - 1], b).dir = dpStack[Len(dpStack) - 1].dir
      BY DEF Advanced
    <3>2. /\ Popped(b) \in Seq(Frame) /\ Len(Popped(b)) = Len(dpStack) - 1
          /\ \A k \in 1..(Len(dpStack) - 2) : Popped(b)[k] = dpStack[k]
          /\ Popped(b)[Len(dpStack) - 1] = Advanced(dpStack[Len(dpStack) - 1], b)
      BY <1>0, <1>8, PoppedIs
    <3>3. QED
      BY <1>8, <3>1, <3>2, Zenon
  <2>2. \A k \in 1..Len(dpStack') : k \in Frames /\ dpStack'[k].dir = dpStack[k].dir
    <3>1. \A k \in 1..Len(dpStack') : k \in Frames /\ (k = Len(dpStack) - 1 \/ k \in 1..(Len(dpStack) - 2))
      BY <1>0, <2>1 DEF Frames
    <3>2. QED
      BY <2>1, <3>1
  <2>3. \A k \in 1..Len(dpStack') : dpStack'[k].dir \in Dirs(dpOf) /\ AllPass(dpStack'[k].dir)
    BY <1>0, <2>2 DEF WalkShape
  <2>4. \A k \in 1..(Len(dpStack') - 1) :
             /\ dpStack'[k].at \in 1..Len(List(dpStack'[k].dir))
             /\ dpStack'[k + 1].dir = Append(dpStack'[k].dir, List(dpStack'[k].dir)[dpStack'[k].at])
    <3>1. \A k \in 1..(Len(dpStack') - 1) : k \in 1..(Len(dpStack) - 2) /\ k + 1 \in 1..Len(dpStack') /\ k \in 1..(Len(dpStack) - 1)
      BY <1>0, <2>1
    <3>2. QED
      BY <1>0, <2>1, <2>2, <3>1 DEF WalkShape
  <2>5. dpStack'[1].dir = <<>>
    <3>1. 1 \in 1..Len(dpStack') /\ Len(dpStack) > 0
      BY <1>0, <1>8, <2>1
    <3>2. QED
      BY <1>0, <2>2, <3>1 DEF WalkShape
  <2>6. QED
    BY <1>0, <1>1, <1>2, <2>1, <2>3, <2>4, <2>5, ShapeOfStack
<1>9. CASE dpStack' = <<>>
  <2>1. dpStack' \in Seq(Frame) /\ Len(dpStack') = 0 /\ 1..(Len(dpStack') - 1) = {} /\ 1..Len(dpStack') = {}
    BY <1>9
  <2>2. QED
    BY <1>0, <1>1, <1>2, <2>1, ShapeOfStack
<1>10. CASE LeaveDir
  <2>1. CASE Len(dpStack) = 1
    BY <1>9, <1>10, <2>1 DEF LeaveDir
  <2>2. CASE Len(dpStack) # 1
    <3>1. dpStack' = Popped(Staying(Deepest.dir, Deepest.keep)) /\ dpStack # <<>>
      BY <1>10, <2>2 DEF LeaveDir, Popped
    <3>2. Len(dpStack) > 1
      <4>1. Len(dpStack) # 0
        BY <1>0, <3>1, EmptySeq
      <4>2. \A m \in Nat : m # 0 /\ m # 1 => m > 1
        OBVIOUS
      <4>3. Len(dpStack) \in Nat
        BY <1>0, Zenon
      <4>4. QED
        BY <2>2, <4>1, <4>2, <4>3, Zenon
    <3>3. Staying(Deepest.dir, Deepest.keep) \in BOOLEAN
      <4>1. Deepest \in Frame
        BY <1>0, <3>2 DEF Deepest
      <4>2. QED
        BY <4>1 DEF Staying, Include, Frame, Matches
    <3>4. QED
      BY <1>8, <3>1, <3>2, <3>3
  <2>3. QED
    BY <2>1, <2>2
<1>11. ReadDir \/ VisitUnstat \/ VisitNoMatch \/ VisitFile \/ VisitDir \/ LeaveDir \/ dpStack' = <<Root>> \/ UNCHANGED dpStack
  BY DEF DpNext, DpStep, DpCancel, DpCheck, WalkEnds, WorkerTakes, WorkerSubmits, DpClose, DpExecute, DpHang, DpDone, Root
<1>12. VisitUnstat \/ VisitNoMatch => AtAnEntry /\ dpStack' = NextEntry(FALSE)
  BY DEF VisitUnstat, VisitNoMatch, Visiting
<1>13. VisitFile => AtAnEntry /\ dpStack' = NextEntry(TRUE)
  BY DEF VisitFile, Visiting
<1>14. QED
  BY <1>3, <1>4, <1>5, <1>6, <1>7, <1>10, <1>11, <1>12, <1>13

-----------------------------------------------------------------------------
(* What the frames say of the entries walked over.                         *)
EntryOf(d, i) == Append(d, List(d)[i])
LEMMA EntryBelow ==
    ASSUME WalkShape, NEW d \in Dirs(dpOf), NEW i \in 1..Len(List(d))
    PROVE  /\ d \in DirPath /\ List(d) \in Seq(Nat) /\ List(d)[i] \in Nat
           /\ EntryOf(d, i) \in DOMAIN dpOf.tree /\ EntryOf(d, i) \in DirPath /\ Len(EntryOf(d, i)) = Len(d) + 1
           /\ \A q \in DOMAIN dpOf.tree :
                /\ q \in DirPath
                /\ Under(q, EntryOf(d, i)) <=> Inner(q, d) /\ q[Len(d) + 1] = List(d)[i]
<1>1. dpOf \in DpWorlds /\ List(d) = Names(dpOf.tree, d) /\ d \in DirPath
  BY PathsOfTree DEF WalkShape, List
<1>2. List(d) \in Seq(Nat) /\ EntryOf(d, i) \in DOMAIN dpOf.tree
  BY <1>1, NamesAre DEF EntryOf
<1>3. List(d)[i] \in Nat
  BY <1>2
<1>4. EntryOf(d, i) \in DirPath /\ Len(EntryOf(d, i)) = Len(d) + 1
  BY <1>1, <1>3, ChildOf DEF EntryOf
<1>5. ASSUME NEW q \in DOMAIN dpOf.tree
      PROVE  q \in DirPath /\ (Under(q, EntryOf(d, i)) <=> Inner(q, d) /\ q[Len(d) + 1] = List(d)[i])
  <2>1. q \in DirPath
    BY <1>1, PathsOfTree
  <2>2. QED
    BY <1>1, <1>3, <2>1, UnderChild DEF Inner, EntryOf
<1>6. QED
  BY <1>1, <1>2, <1>3, <1>4, <1>5
LEMMA AllAhead == ASSUME WalkShape, NEW d \in Dirs(dpOf), NEW at \in {0, 1} PROVE OnlyFrom(d, at)
<1>1. dpOf \in DpWorlds /\ List(d) = Names(dpOf.tree, d) /\ Len(List(d)) \in Nat
  BY NamesAre DEF WalkShape, List
<1>2. \A i \in 1..Len(List(d)) : i >= at
  BY <1>1
<1>3. QED
  BY <1>1, <1>2, NamesAre DEF OnlyFrom, Inner
LEMMA WalkedOver ==
    ASSUME WalkShape, NEW d \in Dirs(dpOf), NEW i \in 1..Len(List(d)), OnlyFrom(d, i), ShowsNone(EntryOf(d, i))
    PROVE  OnlyFrom(d, i + 1)
<1>1. SUFFICES ASSUME NEW q \in DOMAIN dpOf.tree, Inner(q, d), MatchesDown(dpOf, q), Seen(dpOf, q)
               PROVE  \E j \in 1..Len(List(d)) : j >= i + 1 /\ List(d)[j] = q[Len(d) + 1]
  BY DEF OnlyFrom
<1>2. PICK j \in 1..Len(List(d)) : j >= i /\ List(d)[j] = q[Len(d) + 1]
  BY <1>1 DEF OnlyFrom
<1>3. CASE j = i
  <2>1. q \in Below(dpOf.tree, EntryOf(d, i))
    BY <1>1, <1>2, <1>3, EntryBelow DEF Below
  <2>2. QED
    BY <1>1, <2>1 DEF ShowsNone
<1>4. CASE j # i
  BY <1>2, <1>4
<1>5. QED
  BY <1>3, <1>4
LEMMA HoldsBelow ==
    ASSUME WalkShape, NEW d \in Dirs(dpOf), NEW i \in 1..Len(List(d)), Stays(dpOf, EntryOf(d, i))
    PROVE  HoldsOne(d)
BY EntryBelow DEF HoldsOne, Stays, Below

(* The directory that is left, as an entry of the one above. *)
Upper == dpStack[Len(dpStack) - 1]
LEMMA LeaveFacts ==
    ASSUME WalkShape, KeepTells, LeaveDir, Len(dpStack) > 1
    PROVE  /\ Len(dpStack) - 1 \in Frames /\ Len(dpStack) \in Frames
           /\ Upper \in Frame /\ Upper.dir \in Dirs(dpOf) /\ Upper.at \in 1..Len(List(Upper.dir))
           /\ Deepest \in Frame /\ Deepest.dir = EntryOf(Upper.dir, Upper.at)
           /\ Seen(dpOf, Deepest.dir)
           /\ Staying(Deepest.dir, Deepest.keep) => Stays(dpOf, Deepest.dir)
           /\ ~dpCtx /\ ~Staying(Deepest.dir, Deepest.keep) => ShowsNone(Deepest.dir)
<1> DEFINE n == Len(dpStack)
<1>1. n \in Nat /\ n - 1 \in Frames /\ n \in Frames /\ n - 1 \in 1..(n - 1)
  <2>1. dpStack \in Seq(Frame)
    BY DEF WalkShape
  <2>2. \A m \in Nat : m > 1 => m - 1 \in 1..m /\ m \in 1..m /\ m - 1 \in 1..(m - 1)
    OBVIOUS
  <2>3. QED
    BY <2>1, <2>2 DEF Frames
<1>2. (n - 1) + 1 = n
  BY <1>1
<1>3. Upper \in Frame /\ Deepest \in Frame /\ Upper.dir \in Dirs(dpOf) /\ Deepest.dir \in Dirs(dpOf) /\ AllPass(Deepest.dir)
  BY <1>1 DEF WalkShape, Upper, Deepest, Frames
<1>4. Upper.at \in 1..Len(List(Upper.dir)) /\ Deepest.dir = EntryOf(Upper.dir, Upper.at)
  BY <1>1, <1>2 DEF WalkShape, Upper, Deepest, EntryOf
<1>5. Deepest.dir \in DOMAIN dpOf.tree /\ Deepest.dir \in DirPath /\ Len(Deepest.dir) \in Nat
  BY <1>3, <1>4, EntryBelow DEF DirPath
<1>6. Told(Deepest)
  BY <1>1 DEF KeepTells, Deepest
<1>7. Include(dpOf.filter, Deepest.dir, FALSE) => MatchesDown(dpOf, Deepest.dir)
  BY <1>3, <1>5, PassesMatches
<1>8. Deepest.dir \in Below(dpOf.tree, Deepest.dir)
  BY <1>5, UnderItself DEF Below
<1>9. ASSUME Staying(Deepest.dir, Deepest.keep) PROVE Stays(dpOf, Deepest.dir)
  <2>1. CASE Deepest.keep
    BY <1>6, <2>1 DEF Told, HoldsOne, Inner, Stays, Below
  <2>2. CASE Include(dpOf.filter, Deepest.dir, FALSE)
    BY <1>7, <1>8, <2>2 DEF Stays
  <2>3. QED
    BY <1>9, <2>1, <2>2 DEF Staying
<1>10. ASSUME ~dpCtx, ~Staying(Deepest.dir, Deepest.keep), NEW q \in Below(dpOf.tree, Deepest.dir),
              MatchesDown(dpOf, q), Seen(dpOf, q) PROVE FALSE
  <2>1. q \in DOMAIN dpOf.tree /\ Under(q, Deepest.dir) /\ q \in DirPath /\ Len(q) \in Nat
    BY <1>3, <1>4, <1>10, EntryBelow DEF Below, DirPath
  <2>2. CASE Deepest.at = 0 /\ Deepest.dir \in dpOf.unreadable
    <3>1. q = Deepest.dir
      BY <1>5, <1>10, <2>1, <2>2, SeenIs
    <3>2. QED
      BY <1>10, <3>1 DEF MatchesDown, Staying
  <2>3. CASE Deepest.at > Len(List(Deepest.dir))
    <3>1. OnlyFrom(Deepest.dir, Deepest.at)
      BY <1>6, <1>10 DEF Told, Staying
    <3>2. CASE Len(q) = Len(Deepest.dir)
      <4>1. q = Deepest.dir
        BY <1>5, <2>1, <3>2, SamePath
      <4>2. QED
        BY <1>10, <4>1 DEF MatchesDown, Staying
    <3>3. CASE Len(q) # Len(Deepest.dir)
      <4>1. Inner(q, Deepest.dir)
        BY <1>5, <2>1, <3>3, UnderPoint DEF Inner
      <4>2. PICK i \in 1..Len(List(Deepest.dir)) : i >= Deepest.at
        BY <1>10, <2>1, <3>1, <4>1 DEF OnlyFrom
      <4>3. Len(List(Deepest.dir)) \in Nat /\ Deepest.at \in Nat
        <5>1. List(Deepest.dir) \in Seq(Nat)
          BY <1>3, NamesAre DEF WalkShape, List
        <5>2. QED
          BY <1>3, <5>1 DEF Frame
      <4>4. QED
        BY <2>3, <4>2, <4>3
    <3>4. QED
      BY <3>2, <3>3
  <2>4. QED
    BY <1>10, <2>2, <2>3 DEF LeaveDir, List
<1>11. ~dpCtx /\ ~Staying(Deepest.dir, Deepest.keep) => ShowsNone(Deepest.dir)
  BY <1>10 DEF ShowsNone
<1>12. Seen(dpOf, Deepest.dir)
  BY <1>6 DEF Told, Sighted
<1>13. QED
  BY <1>1, <1>3, <1>4, <1>9, <1>11, <1>12

(* What the frames say after each step. *)
LEMMA KeepOf ==
    ASSUME UNCHANGED <<dpOf, dpNames>>,
           \A k \in 1..Len(dpStack') :
             /\ Sighted(dpStack'[k])
             /\ dpStack'[k].keep => HoldsOne(dpStack'[k].dir)
             /\ ~dpCtx' /\ ~dpStack'[k].keep => OnlyFrom(dpStack'[k].dir, dpStack'[k].at)
    PROVE  KeepTells'
<1>1. dpOf' = dpOf /\ dpNames' = dpNames
  OBVIOUS
<1>2. QED
  BY <1>1 DEF KeepTells, Told, Sighted, Frames, HoldsOne, OnlyFrom, List
StepsOfWalk == ReadDir \/ VisitUnstat \/ VisitNoMatch \/ VisitFile \/ VisitDir \/ LeaveDir
LEMMA StepFrame ==
    ASSUME DpNext
    PROVE  /\ UNCHANGED dpGiven
           /\ dpCtx => dpCtx'
           /\ StepsOfWalk \/ UNCHANGED dpStack \/ dpStack' = <<Root>>
           /\ StepsOfWalk => dpCtx' = dpCtx
<1>1. DpCancel => UNCHANGED <<dpGiven, dpStack>> /\ dpCtx'
  BY DEF DpCancel
<1>2. DpCheck => UNCHANGED <<dpGiven, dpCtx>> /\ (UNCHANGED dpStack \/ dpStack' = <<Root>>)
  BY DEF DpCheck, Root
<1>3. StepsOfWalk => UNCHANGED <<dpGiven, dpCtx>>
  BY DEF StepsOfWalk, ReadDir, VisitUnstat, VisitNoMatch, VisitFile, VisitDir, LeaveDir
<1>4. WalkEnds \/ WorkerTakes \/ WorkerSubmits \/ DpClose \/ DpExecute \/ DpHang \/ DpDone => UNCHANGED <<dpGiven, dpCtx, dpStack>>
  BY DEF WalkEnds, WorkerTakes, WorkerSubmits, DpClose, DpExecute, DpHang, DpDone
<1>5. DpCancel \/ DpCheck \/ StepsOfWalk \/ (WalkEnds \/ WorkerTakes \/ WorkerSubmits \/ DpClose \/ DpExecute \/ DpHang \/ DpDone)
  BY DEF DpNext, DpStep, StepsOfWalk
<1>6. QED
  BY <1>1, <1>2, <1>3, <1>4, <1>5
LEMMA KeepNext ==
    ASSUME PrunerInv, DpNext
    PROVE  KeepTells'
<1>0. /\ WalkShape /\ KeepTells /\ dpStack \in Seq(Frame) /\ Len(dpStack) \in Nat
      /\ dpOf' = dpOf /\ dpNames' = dpNames /\ (dpCtx => dpCtx')
  <2>1. WalkShape /\ KeepTells
    BY DEF PrunerInv
  <2>2. dpStack \in Seq(Frame)
    BY <2>1 DEF WalkShape
  <2>3. Len(dpStack) \in Nat
    BY <2>2
  <2>4. QED
    BY <2>1, <2>2, <2>3, StepFrame DEF dpGiven
<1>1. \A k \in Frames :
        /\ Sighted(dpStack[k])
        /\ dpStack[k].keep => HoldsOne(dpStack[k].dir)
        /\ ~dpCtx' /\ ~dpStack[k].keep => OnlyFrom(dpStack[k].dir, dpStack[k].at)
  BY <1>0 DEF KeepTells, Told
<1>2. CASE UNCHANGED dpStack
  BY <1>0, <1>1, <1>2, KeepOf DEF Frames
<1>3. CASE dpStack' = <<Root>>
  <2>1. Len(dpStack') = 1 /\ dpStack'[1] = Root
    BY <1>3
  <2>2. Root.dir \in Dirs(dpOf) /\ OnlyFrom(Root.dir, Root.at) /\ Sighted(Root)
    <3>1. Seen(dpOf, Root.dir)
      BY <1>0, RootFrame, SeenRoot DEF WalkShape
    <3>2. QED
      BY <1>0, <3>1, RootFrame, AllAhead DEF Dirs, Sighted
  <2>3. \A k \in 1..Len(dpStack') : dpStack'[k] = Root
    BY <2>1
  <2>4. QED
    BY <1>0, <2>2, <2>3, RootFrame, KeepOf
<1>4. CASE ReadDir
  <2>1. /\ Len(dpStack) \in Frames /\ Len(dpStack') = Len(dpStack)
        /\ \A k \in Frames : k # Len(dpStack) => dpStack'[k] = dpStack[k]
        /\ dpStack'[Len(dpStack)].dir = Deepest.dir /\ dpStack'[Len(dpStack)].at = 1
        /\ dpStack'[Len(dpStack)].keep = Deepest.keep
    BY <1>0, <1>4, ReadDirIs
  <2>2. OnlyFrom(Deepest.dir, 1)
    BY <1>0, <2>1, AllAhead DEF WalkShape, Deepest
  <2>21. Seen(dpOf, Deepest.dir) /\ Deepest.dir \notin dpOf.unreadable
    BY <1>1, <1>4, <2>1 DEF ReadDir, Sighted, Deepest
  <2>3. ASSUME NEW k \in 1..Len(dpStack')
        PROVE  /\ Sighted(dpStack'[k])
               /\ dpStack'[k].keep => HoldsOne(dpStack'[k].dir)
               /\ ~dpCtx' /\ ~dpStack'[k].keep => OnlyFrom(dpStack'[k].dir, dpStack'[k].at)
    <3>1. k \in Frames
      BY <2>1 DEF Frames
    <3>2. CASE k = Len(dpStack)
      BY <1>1, <2>1, <2>2, <2>21, <3>1, <3>2 DEF Deepest, Sighted
    <3>3. QED
      BY <1>1, <2>1, <3>1, <3>2
  <2>4. QED
    BY <1>0, <2>3, KeepOf
<1>5. ASSUME NEW b \in BOOLEAN, AtAnEntry, dpStack' = NextEntry(b),
             b => HoldsOne(Deepest.dir), ~b => ShowsNone(AtEntry)
      PROVE  KeepTells'
  <2>1. /\ Len(dpStack) \in Frames /\ Deepest = dpStack[Len(dpStack)] /\ Deepest \in Frame
        /\ Deepest.dir \in Dirs(dpOf) /\ Deepest.at \in 1..Len(List(Deepest.dir))
        /\ AtEntry = EntryOf(Deepest.dir, Deepest.at)
    BY <1>0, <1>5, EntryFacts DEF EntryOf
  <2>2. dpStack # <<>>
    BY <1>5 DEF AtAnEntry
  <2>3. /\ Len(dpStack') = Len(dpStack)
        /\ \A k \in 1..(Len(dpStack) - 1) : dpStack'[k] = dpStack[k]
        /\ dpStack'[Len(dpStack)] = Advanced(Deepest, b)
    BY <1>0, <1>5, <2>2, NextEntryIs
  <2>4. /\ Advanced(Deepest, b).keep => HoldsOne(Deepest.dir)
        /\ ~dpCtx' /\ ~Advanced(Deepest, b).keep => OnlyFrom(Deepest.dir, Deepest.at + 1)
    <3>1. Advanced(Deepest, b).keep = (Deepest.keep \/ b)
      BY DEF Advanced
    <3>2. CASE b
      BY <1>5, <3>1, <3>2
    <3>3. CASE ~b
      BY <1>0, <1>1, <1>5, <2>1, <3>1, <3>3, WalkedOver
    <3>4. QED
      BY <3>2, <3>3
  <2>5. Advanced(Deepest, b).dir = Deepest.dir /\ Advanced(Deepest, b).at = Deepest.at + 1 /\ Sighted(Advanced(Deepest, b))
    <3>1. Sighted(Deepest) /\ Deepest.at > 0
      <4>1. List(Deepest.dir) \in Seq(Nat)
        BY <1>0, <2>1, EntryBelow
      <4>2. QED
        BY <1>1, <2>1, <4>1
    <3>2. QED
      BY <3>1 DEF Advanced, Sighted
  <2>6. ASSUME NEW k \in 1..Len(dpStack')
        PROVE  /\ Sighted(dpStack'[k])
               /\ dpStack'[k].keep => HoldsOne(dpStack'[k].dir)
               /\ ~dpCtx' /\ ~dpStack'[k].keep => OnlyFrom(dpStack'[k].dir, dpStack'[k].at)
    <3>1. k \in Frames /\ (k = Len(dpStack) \/ k \in 1..(Len(dpStack) - 1))
      BY <1>0, <2>3 DEF Frames
    <3>2. CASE k = Len(dpStack)
      BY <2>3, <2>4, <2>5, <3>2
    <3>3. CASE k \in 1..(Len(dpStack) - 1)
      BY <1>1, <2>3, <3>1, <3>3
    <3>4. QED
      BY <3>1, <3>2, <3>3
  <2>7. QED
    BY <1>0, <2>6, KeepOf
<1>6. CASE VisitNoMatch
  <2>1. Visiting /\ ~Include(dpOf.filter, AtEntry, IsDir(dpOf.tree, AtEntry)) /\ dpStack' = NextEntry(FALSE)
    BY <1>6 DEF VisitNoMatch
  <2>2. AtEntry \in DOMAIN dpOf.tree /\ dpOf \in DpWorlds
    BY <1>0, <2>1, EntryFacts DEF WalkShape, Visiting
  <2>3. ShowsNone(AtEntry)
    BY <2>1, <2>2, Rejected, ShowsNoneBut
  <2>4. QED
    BY <1>5, <2>1, <2>3 DEF Visiting
<1>61. CASE VisitUnstat
  <2>1. AtAnEntry /\ AtEntry \in dpOf.unstat /\ dpStack' = NextEntry(FALSE)
    BY <1>61 DEF VisitUnstat
  <2>2. AtEntry \in DirPath /\ dpOf \in DpWorlds
    BY <1>0, <2>1, EntryFacts DEF WalkShape
  <2>3. ShowsNone(AtEntry)
    BY <2>1, <2>2, UnseenUnstat
  <2>4. QED
    BY <1>5, <2>1, <2>3
<1>7. CASE VisitFile
  <2>1. Visiting /\ Include(dpOf.filter, AtEntry, FALSE) /\ dpStack' = NextEntry(TRUE)
    BY <1>7 DEF VisitFile
  <2>2. /\ Deepest.dir \in DirPath /\ AllPass(Deepest.dir) /\ AtEntry \in DOMAIN dpOf.tree /\ AtEntry \in DirPath
        /\ Deepest.dir \in Dirs(dpOf) /\ Deepest.at \in 1..Len(List(Deepest.dir)) /\ List(Deepest.dir) \in Seq(Nat)
        /\ AtEntry = EntryOf(Deepest.dir, Deepest.at)
    BY <1>0, <2>1, EntryFacts DEF EntryOf, Visiting
  <2>3. List(Deepest.dir)[Deepest.at] \in Nat
    BY <2>2
  <2>4. MatchesDown(dpOf, AtEntry)
    BY <2>1, <2>2, <2>3, PassesMatches DEF EntryOf
  <2>5. Stays(dpOf, AtEntry)
    BY <2>2, <2>4, UnderItself DEF Stays, Below
  <2>6. HoldsOne(Deepest.dir)
    BY <1>0, <2>2, <2>5, HoldsBelow
  <2>7. QED
    BY <1>5, <2>1, <2>6 DEF Visiting
<1>8. CASE VisitDir
  <2> DEFINE fr == [dir |-> AtEntry, at |-> 0, keep |-> FALSE]
  <2>1. Visiting /\ IsDir(dpOf.tree, AtEntry) /\ dpStack' = Append(dpStack, fr)
    BY <1>8 DEF VisitDir
  <2>2. AtEntry \in Dirs(dpOf) /\ AtEntry \in DirPath
    BY <1>0, <2>1, EntryFacts DEF Dirs, Visiting
  <2>21. Seen(dpOf, AtEntry)
    <3>1. /\ Len(dpStack) \in Frames /\ Deepest = dpStack[Len(dpStack)] /\ Deepest.dir \in DirPath
          /\ Deepest.at \in 1..Len(List(Deepest.dir)) /\ List(Deepest.dir) \in Seq(Nat)
          /\ AtEntry = Append(Deepest.dir, List(Deepest.dir)[Deepest.at])
      BY <1>0, <2>1, EntryFacts DEF Visiting
    <3>2. Deepest.at > 0 /\ List(Deepest.dir)[Deepest.at] \in Nat
      BY <3>1
    <3>3. Seen(dpOf, Deepest.dir) /\ Deepest.dir \notin dpOf.unreadable
      BY <1>1, <3>1, <3>2 DEF Sighted
    <3>4. AtEntry \notin dpOf.unstat
      BY <2>1 DEF Visiting
    <3>5. QED
      BY <3>1, <3>2, <3>3, <3>4, SeenChild
  <2>3. fr \in Frame /\ fr.dir = AtEntry /\ fr.at = 0 /\ ~fr.keep /\ Sighted(fr)
    BY <2>2, <2>21 DEF Frame, Sighted
  <2>4. OnlyFrom(AtEntry, 0)
    BY <1>0, <2>2, AllAhead
  <2> HIDE DEF fr
  <2>5. /\ Len(dpStack') = Len(dpStack) + 1 /\ dpStack'[Len(dpStack) + 1] = fr
        /\ \A k \in Frames : dpStack'[k] = dpStack[k]
    BY <1>0, <2>1, <2>3 DEF Frames
  <2>6. \A k \in 1..Len(dpStack') : k \in Frames \/ k = Len(dpStack) + 1
    BY <1>0, <2>5 DEF Frames
  <2>7. ASSUME NEW k \in 1..Len(dpStack')
        PROVE  /\ Sighted(dpStack'[k])
               /\ dpStack'[k].keep => HoldsOne(dpStack'[k].dir)
               /\ ~dpCtx' /\ ~dpStack'[k].keep => OnlyFrom(dpStack'[k].dir, dpStack'[k].at)
    <3>1. CASE k \in Frames
      BY <1>1, <2>5, <3>1
    <3>2. CASE k = Len(dpStack) + 1
      BY <2>3, <2>4, <2>5, <3>2
    <3>3. QED
      BY <2>6, <3>1, <3>2
  <2>8. QED
    BY <1>0, <2>7, KeepOf
<1>9. CASE LeaveDir /\ Len(dpStack) > 1
  <2>0. dpStack' = Popped(Staying(Deepest.dir, Deepest.keep))
    <3>1. Len(dpStack) # 1
      <4>1. ~(1 > 1)
        OBVIOUS
      <4>2. QED
        BY <1>9, <4>1, Zenon
    <3>2. LeaveDir
      BY <1>9
    <3>3. QED
      BY <3>1, <3>2 DEF LeaveDir, Popped
  <2> DEFINE n == Len(dpStack) - 1  stay == Staying(Deepest.dir, Deepest.keep)
  <2>1. /\ n \in Frames /\ Upper = dpStack[n] /\ Upper \in Frame /\ Upper.dir \in Dirs(dpOf)
        /\ Upper.at \in 1..Len(List(Upper.dir)) /\ Deepest.dir = EntryOf(Upper.dir, Upper.at)
        /\ stay => Stays(dpOf, Deepest.dir)
        /\ ~dpCtx /\ ~stay => ShowsNone(Deepest.dir)
    BY <1>0, <1>9, LeaveFacts DEF Upper
  <2>2. stay \in BOOLEAN
    <3>1. Deepest \in Frame
      BY <1>0, <1>9, LeaveFacts
    <3>2. QED
      BY <3>1 DEF Staying, Include, Frame, Matches
  <2>3. dpStack' = Popped(stay)
    BY <2>0
  <2> HIDE DEF stay
  <2>4. /\ Len(dpStack') = n
        /\ \A k \in 1..(n - 1) : dpStack'[k] = dpStack[k]
        /\ dpStack'[n] = Advanced(Upper, stay)
    <3>1. Len(dpStack) - 2 = n - 1
      BY <1>0
    <3>2. QED
      BY <1>0, <1>9, <2>1, <2>2, <2>3, <3>1, PoppedIs
  <2>5. Advanced(Upper, stay).dir = Upper.dir /\ Advanced(Upper, stay).at = Upper.at + 1 /\ Advanced(Upper, stay).keep = (Upper.keep \/ stay)
    BY DEF Advanced
  <2>51. Sighted(Advanced(Upper, stay))
    <3>1. List(Upper.dir) \in Seq(Nat)
      BY <1>0, <2>1, EntryBelow
    <3>2. Upper.at > 0 /\ Sighted(Upper)
      BY <1>1, <2>1, <3>1
    <3>3. QED
      BY <2>5, <3>2 DEF Sighted
  <2>6. /\ Advanced(Upper, stay).keep => HoldsOne(Upper.dir)
        /\ ~dpCtx' /\ ~Advanced(Upper, stay).keep => OnlyFrom(Upper.dir, Upper.at + 1)
    <3>1. CASE stay
      BY <1>0, <2>1, <2>5, <3>1, HoldsBelow
    <3>2. CASE ~stay
      BY <1>0, <1>1, <2>1, <2>5, <3>2, WalkedOver
    <3>3. QED
      BY <3>1, <3>2
  <2>7. ASSUME NEW k \in 1..Len(dpStack')
        PROVE  /\ Sighted(dpStack'[k])
               /\ dpStack'[k].keep => HoldsOne(dpStack'[k].dir)
               /\ ~dpCtx' /\ ~dpStack'[k].keep => OnlyFrom(dpStack'[k].dir, dpStack'[k].at)
    <3>1. k \in Frames /\ (k = n \/ k \in 1..(n - 1))
      BY <1>0, <2>4 DEF Frames
    <3>2. CASE k = n
      BY <2>4, <2>5, <2>51, <2>6, <3>2
    <3>3. CASE k \in 1..(n - 1)
      BY <1>1, <2>4, <3>1, <3>3
    <3>4. QED
      BY <3>1, <3>2, <3>3
  <2>8. QED
    BY <1>0, <2>7, KeepOf
<1>10. CASE dpStack' = <<>>
  <2>1. 1..Len(dpStack') = {}
    BY <1>10
  <2>2. QED
    BY <1>0, <2>1, KeepOf
<1>11. CASE LeaveDir
  <2>1. Len(dpStack) = 1 => dpStack' = <<>>
    BY <1>11 DEF LeaveDir
  <2>2. Len(dpStack) # 0
    BY <1>0, <1>11, EmptySeq DEF LeaveDir
  <2>3. \A m \in Nat : m # 0 /\ m # 1 => m > 1
    OBVIOUS
  <2>4. QED
    BY <1>0, <1>9, <1>10, <1>11, <2>1, <2>2, <2>3, Zenon
<1>12. QED
  BY <1>2, <1>3, <1>4, <1>6, <1>61, <1>7, <1>8, <1>11, StepFrame DEF StepsOfWalk

-----------------------------------------------------------------------------
(* The removals after each step.                                           *)
NewJob(p, all) == [path |-> p, all |-> all]
LEMMA EnqueueIs ==
    ASSUME dpJobs \in Seq(Job), NEW p \in DirPath, NEW all \in BOOLEAN, Enqueue(p, all)
    PROVE  /\ dpJobs' \in Seq(Job) /\ Range(dpJobs) \subseteq Range(dpJobs')
           /\ Range(dpJobs') \subseteq Range(dpJobs) \cup {NewJob(p, all)}
           /\ ~dpCtx => NewJob(p, all) \in Range(dpJobs')
<1> DEFINE j == NewJob(p, all)
<1>1. j \in Job
  BY DEF NewJob, Job
<1>2. CASE dpJobs' = Append(dpJobs, j)
  <2> HIDE DEF j
  <2>1. dpJobs' \in Seq(Job) /\ Range(dpJobs') = Range(dpJobs) \cup {j}
    BY <1>1, <1>2, QueuePut
  <2>2. QED
    BY <2>1 DEF j
<1>3. CASE dpCtx /\ UNCHANGED dpJobs
  BY <1>3
<1>4. QED
  BY <1>2, <1>3 DEF Enqueue, NewJob
(* The step that finds a removal. *)
LEMMA StepFinds ==
    ASSUME PrunerInv, StepsOfWalk
    PROVE  \/ dpJobs' = dpJobs
           \/ \E p \in DOMAIN dpOf.tree : \E all \in BOOLEAN : Enqueue(p, all) /\ (dpCtx \/ Fit(p))
<1>0. WalkShape /\ KeepTells
  BY DEF PrunerInv
<1>1. dpOf \in DpWorlds /\ dpStack \in Seq(Frame) /\ {p \in DOMAIN dpOf.tree : ~Stays(dpOf, p)} \subseteq dpReach
      /\ Blind(dpOf) \subseteq dpReach
  BY <1>0 DEF WalkShape
<1>2. CASE ReadDir \/ VisitUnstat \/ VisitFile \/ VisitDir
  BY <1>2 DEF ReadDir, VisitUnstat, VisitFile, VisitDir
<1>3. CASE VisitNoMatch
  <2>1. Visiting /\ ~Include(dpOf.filter, AtEntry, IsDir(dpOf.tree, AtEntry)) /\ Enqueue(AtEntry, IsDir(dpOf.tree, AtEntry))
    BY <1>3 DEF VisitNoMatch
  <2>2. AtEntry \in DOMAIN dpOf.tree
    BY <1>0, <2>1, EntryFacts DEF Visiting
  <2>3. Fit(AtEntry)
    BY <1>1, <2>1, <2>2, Rejected, MeantFits
  <2>4. IsDir(dpOf.tree, AtEntry) \in BOOLEAN
    BY DEF IsDir
  <2>5. QED
    BY <1>1, <2>1, <2>2, <2>3, <2>4
<1>4. CASE LeaveDir
  <2>1. CASE Len(dpStack) = 1
    BY <1>4, <2>1 DEF LeaveDir
  <2>2. CASE Len(dpStack) # 1
    <3>1. Len(dpStack) \in Nat /\ Len(dpStack) # 0
      BY <1>1, <1>4, EmptySeq DEF LeaveDir
    <3>2. \A m \in Nat : m # 0 /\ m # 1 => m > 1
      OBVIOUS
    <3>3. Len(dpStack) > 1
      BY <2>2, <3>1, <3>2, Zenon
    <3>4. IF Staying(Deepest.dir, Deepest.keep) THEN UNCHANGED dpJobs ELSE Enqueue(Deepest.dir, TRUE)
      BY <1>4, <2>2 DEF LeaveDir
    <3>5. /\ Upper.dir \in Dirs(dpOf) /\ Upper.at \in 1..Len(List(Upper.dir)) /\ Deepest.dir = EntryOf(Upper.dir, Upper.at)
          /\ ~dpCtx /\ ~Staying(Deepest.dir, Deepest.keep) => ShowsNone(Deepest.dir)
          /\ Seen(dpOf, Deepest.dir)
      BY <1>0, <1>4, <3>3, LeaveFacts
    <3>6. Deepest.dir \in DOMAIN dpOf.tree
      BY <1>0, <3>5, EntryBelow
    <3>7. ~dpCtx /\ ~Staying(Deepest.dir, Deepest.keep) => Fit(Deepest.dir)
      BY <1>1, <3>5, <3>6, BlindFits
    <3>8. QED
      BY <3>4, <3>6, <3>7
  <2>3. QED
    BY <2>1, <2>2
<1>5. QED
  BY <1>2, <1>3, <1>4 DEF StepsOfWalk
LEMMA JobsNext ==
    ASSUME PrunerInv, DpNext
    PROVE  JobShape' /\ JobsMeant'
<1>0. /\ dpOf' = dpOf /\ dpReach' = dpReach /\ (dpCtx => dpCtx') /\ DOMAIN dpOf.tree \subseteq DirPath
      /\ dpJobs \in Seq(Job) /\ dpBusy \subseteq Job /\ dpPend \subseteq Job /\ dpExec \subseteq Job
      /\ \A j \in dpBusy \cup dpPend \cup dpExec : Fit(j.path)
      /\ ~dpCtx => \A j \in Range(dpJobs) : Fit(j.path)
  <2>1. dpOf' = dpOf /\ dpReach' = dpReach /\ (dpCtx => dpCtx')
    BY StepFrame DEF dpGiven
  <2>2. DOMAIN dpOf.tree \subseteq DirPath
    BY PathsOfTree DEF PrunerInv, WalkShape
  <2>3. QED
    BY <2>1, <2>2 DEF PrunerInv, JobShape, JobsMeant
<1>1. SUFFICES /\ dpJobs' \in Seq(Job) /\ dpBusy' \subseteq Job /\ dpPend' \subseteq Job /\ dpExec' \subseteq Job
               /\ \A j \in dpBusy' \cup dpPend' \cup dpExec' : Fit(j.path)
               /\ ~dpCtx' => \A j \in Range(dpJobs') : Fit(j.path)
  BY <1>0 DEF JobShape, JobsMeant, Fit
<1>2. CASE StepsOfWalk
  <2>1. UNCHANGED <<dpBusy, dpPend, dpExec>> /\ dpCtx' = dpCtx
    BY <1>2 DEF StepsOfWalk, ReadDir, VisitUnstat, VisitNoMatch, VisitFile, VisitDir, LeaveDir
  <2>2. CASE dpJobs' = dpJobs
    BY <1>0, <2>1, <2>2
  <2>3. CASE \E p \in DOMAIN dpOf.tree : \E all \in BOOLEAN : Enqueue(p, all) /\ (dpCtx \/ Fit(p))
    <3>1. PICK p \in DOMAIN dpOf.tree, all \in BOOLEAN : Enqueue(p, all) /\ (dpCtx \/ Fit(p))
      BY <2>3
    <3>2. /\ dpJobs' \in Seq(Job)
          /\ Range(dpJobs') \subseteq Range(dpJobs) \cup {NewJob(p, all)}
      BY <1>0, <3>1, EnqueueIs
    <3>3. NewJob(p, all).path = p
      BY DEF NewJob
    <3>4. QED
      BY <1>0, <2>1, <3>1, <3>2, <3>3
  <2>4. QED
    BY <1>2, <2>2, <2>3, StepFinds
<1>3. CASE WorkerTakes
  <2>1. dpJobs # <<>> /\ dpJobs' = Tail(dpJobs) /\ UNCHANGED <<dpPend, dpExec, dpCtx>>
        /\ dpBusy' = IF dpCtx THEN dpBusy ELSE dpBusy \cup {Head(dpJobs)}
    BY <1>3 DEF WorkerTakes, TakesJob
  <2>2. /\ Head(dpJobs) \in Job /\ Tail(dpJobs) \in Seq(Job) /\ Head(dpJobs) \in Range(dpJobs)
        /\ Range(Tail(dpJobs)) \subseteq Range(dpJobs)
    BY <1>0, <2>1, QueueGet
  <2>3. QED
    BY <1>0, <2>1, <2>2
<1>4. CASE WorkerSubmits
  BY <1>0, <1>4 DEF WorkerSubmits
<1>5. CASE DpClose
  BY <1>0, <1>5 DEF DpClose
<1>6. CASE DpExecute
  BY <1>0, <1>6 DEF DpExecute
<1>7. CASE DpCancel \/ DpCheck \/ WalkEnds \/ DpHang \/ DpDone
  <2>1. UNCHANGED <<dpJobs, dpBusy, dpPend, dpExec>>
    BY <1>7 DEF DpCancel, DpCheck, WalkEnds, DpHang, DpDone
  <2>2. QED
    BY <1>0, <2>1
<1>8. QED
  BY <1>2, <1>3, <1>4, <1>5, <1>6, <1>7 DEF DpNext, DpStep, StepsOfWalk
LEMMA PhasesNext ==
    ASSUME PrunerInv, DpNext
    PROVE  Phases'
<1>0. Phases
  BY DEF PrunerInv
<1>1. CASE StepsOfWalk
  <2>1. dpPc = "walk" /\ dpPc' = dpPc /\ dpExec' = dpExec
    BY <1>1 DEF StepsOfWalk, ReadDir, VisitUnstat, VisitNoMatch, VisitFile, VisitDir, LeaveDir, Visiting, AtAnEntry
  <2>2. QED
    BY <1>0, <2>1 DEF Phases
<1>2. CASE DpCancel \/ DpCheck \/ WalkEnds \/ DpHang \/ DpDone
  BY <1>0, <1>2 DEF DpCancel, DpCheck, WalkEnds, DpHang, DpDone, Phases
<1>3. CASE WorkerTakes \/ WorkerSubmits
  BY <1>0, <1>3 DEF WorkerTakes, WorkerSubmits, Phases
<1>4. CASE DpClose \/ DpExecute
  BY <1>0, <1>4 DEF DpClose, DpExecute, PoolOver, Phases
<1>5. QED
  BY <1>1, <1>2, <1>3, <1>4 DEF DpNext, DpStep, StepsOfWalk

-----------------------------------------------------------------------------
(* What is meant to go is found: by each step of the walk,                 *)
FoundAfter(p) ==
    \/ \E j \in Range(dpJobs') \cup dpBusy' \cup dpPend' \cup dpExec' : Covers(j, p)
    \/ \E k \in 1..Len(dpStack') : AheadIn(p, dpStack', k)
LEMMA BelowEntry ==
    ASSUME WalkShape, NEW d \in Dirs(dpOf), NEW i \in 1..Len(List(d)), NEW p \in DOMAIN dpOf.tree,
           Inner(p, d), List(d)[i] = p[Len(d) + 1], p # EntryOf(d, i)
    PROVE  IsDir(dpOf.tree, EntryOf(d, i)) /\ Inner(p, EntryOf(d, i)) /\ Len(p) > Len(d) + 1
<1> DEFINE e == EntryOf(d, i)
<1>1. e \in DOMAIN dpOf.tree /\ e \in DirPath /\ Len(e) = Len(d) + 1 /\ p \in DirPath /\ Under(p, e) /\ d \in DirPath
  BY EntryBelow
<1>2. Len(e) \in Nat /\ Len(p) \in Nat /\ Len(d) \in Nat
  BY <1>1 DEF DirPath
<1> HIDE DEF e
<1>3. Len(e) <= Len(p) /\ Len(e) # Len(p)
  BY <1>1, UnderPoint, SamePath DEF e
<1>4. Inner(p, e) /\ Len(p) > Len(d) + 1
  BY <1>1, <1>2, <1>3 DEF Inner
<1>5. e \in Dirs(dpOf)
  BY <1>1, <1>4, Inside DEF WalkShape, Inner
<1>6. e # <<>>
  BY <1>1, DpAssumption DEF WalkShape
<1>7. IsDir(dpOf.tree, e)
  BY <1>5, <1>6 DEF Dirs
<1>8. QED
  BY <1>4, <1>7 DEF e
LEMMA SameAhead ==
    ASSUME NEW p, NEW k \in Frames, NEW m \in 1..Len(dpStack'), AheadIn(p, dpStack, k),
           dpStack'[m] = dpStack[k], m = Len(dpStack') \/ k # Len(dpStack)
    PROVE  AheadIn(p, dpStack', m)
BY DEF AheadIn
LEMMA FoundReading ==
    ASSUME PrunerInv, ReadDir, NEW p, Found(p)
    PROVE  FoundAfter(p)
<1>0. WalkShape /\ dpStack \in Seq(Frame) /\ UNCHANGED <<dpJobs, dpBusy, dpPend, dpExec>>
  BY DEF PrunerInv, WalkShape, ReadDir
<1>1. CASE \E j \in InFlight : Covers(j, p)
  BY <1>0, <1>1 DEF FoundAfter, InFlight
<1>2. CASE \E k \in Frames : AheadIn(p, dpStack, k)
  <2>1. PICK k \in Frames : AheadIn(p, dpStack, k)
    BY <1>2
  <2>2. /\ Len(dpStack) \in Frames /\ Len(dpStack') = Len(dpStack)
        /\ \A l \in Frames : l # Len(dpStack) => dpStack'[l] = dpStack[l]
        /\ dpStack'[Len(dpStack)].dir = Deepest.dir /\ dpStack'[Len(dpStack)].at = 1
    BY <1>0, ReadDirIs
  <2>3. k \in 1..Len(dpStack')
    BY <2>2 DEF Frames
  <2>4. CASE k # Len(dpStack)
    BY <2>1, <2>2, <2>3, <2>4, SameAhead DEF FoundAfter
  <2>5. CASE k = Len(dpStack)
    <3>1. dpStack[k].dir = Deepest.dir /\ dpStack'[k].dir = Deepest.dir /\ dpStack'[k].at = 1 /\ k = Len(dpStack')
      BY <2>2, <2>5 DEF Deepest
    <3>2. List(Deepest.dir) \in Seq(Nat)
      BY <1>0, <2>2, NamesAre DEF WalkShape, List, Deepest
    <3>3. \A i \in 1..Len(List(Deepest.dir)) : i > 1 \/ i = 1
      BY <3>2
    <3>4. AheadIn(p, dpStack', k)
      BY <2>1, <3>1, <3>3 DEF AheadIn
    <3>5. QED
      BY <2>3, <3>4 DEF FoundAfter
  <2>6. QED
    BY <2>4, <2>5
<1>3. QED
  BY <1>1, <1>2 DEF Found
LEMMA FoundVisiting ==
    ASSUME PrunerInv, Visiting, NEW b \in BOOLEAN, dpStack' = NextEntry(b),
           UNCHANGED <<dpBusy, dpPend, dpExec>>, Range(dpJobs) \subseteq Range(dpJobs'),
           NEW p \in DOMAIN dpOf.tree, Found(p),
           Under(p, AtEntry) => \E j \in Range(dpJobs') : Covers(j, p)
    PROVE  FoundAfter(p)
<1>0. WalkShape /\ dpStack \in Seq(Frame)
  BY DEF PrunerInv, WalkShape
<1>1. CASE \E j \in InFlight : Covers(j, p)
  BY <1>0, <1>1 DEF FoundAfter, InFlight
<1>2. CASE \E k \in Frames : AheadIn(p, dpStack, k)
  <2>1. PICK k \in Frames : AheadIn(p, dpStack, k)
    BY <1>2
  <2>2. /\ Len(dpStack) \in Frames /\ Deepest = dpStack[Len(dpStack)] /\ Deepest \in Frame
        /\ Deepest.dir \in Dirs(dpOf) /\ Deepest.at \in 1..Len(List(Deepest.dir)) /\ List(Deepest.dir) \in Seq(Nat)
        /\ \A q \in DOMAIN dpOf.tree :
             Under(q, AtEntry) <=> Inner(q, Deepest.dir) /\ q[Len(Deepest.dir) + 1] = List(Deepest.dir)[Deepest.at]
    BY <1>0, EntryFacts DEF Visiting
  <2>3. /\ Len(dpStack') = Len(dpStack)
        /\ \A l \in 1..(Len(dpStack) - 1) : dpStack'[l] = dpStack[l]
        /\ dpStack'[Len(dpStack)] = Advanced(Deepest, b)
    BY <1>0, NextEntryIs DEF Visiting, AtAnEntry
  <2>4. k \in 1..Len(dpStack') /\ (k = Len(dpStack) \/ k \in 1..(Len(dpStack) - 1))
    BY <1>0, <2>3 DEF Frames
  <2>5. CASE k # Len(dpStack)
    BY <2>1, <2>3, <2>4, <2>5, SameAhead DEF FoundAfter
  <2>6. CASE k = Len(dpStack)
    <3>1. dpStack[k] = Deepest /\ dpStack'[k].dir = Deepest.dir /\ dpStack'[k].at = Deepest.at + 1 /\ k = Len(dpStack')
      BY <2>2, <2>3, <2>6 DEF Advanced
    <3>2. PICK i \in 1..Len(List(Deepest.dir)) :
            /\ Inner(p, Deepest.dir) /\ List(Deepest.dir)[i] = p[Len(Deepest.dir) + 1] /\ i >= Deepest.at
      BY <2>1, <2>2, <3>1 DEF AheadIn, Frame
    <3>3. CASE i = Deepest.at
      BY <2>2, <3>2, <3>3 DEF FoundAfter
    <3>4. CASE i # Deepest.at
      <4>1. i > Deepest.at + 1 \/ i = Deepest.at + 1
        BY <2>2, <3>2, <3>4
      <4>2. AheadIn(p, dpStack', k)
        BY <3>1, <3>2, <4>1 DEF AheadIn
      <4>3. QED
        BY <2>4, <4>2 DEF FoundAfter
    <3>5. QED
      BY <3>3, <3>4
  <2>7. QED
    BY <2>5, <2>6
<1>3. QED
  BY <1>1, <1>2 DEF Found
LEMMA FoundRejecting ==
    ASSUME PrunerInv, VisitNoMatch, NEW p \in DOMAIN dpOf.tree, Found(p)
    PROVE  FoundAfter(p)
<1>0. /\ WalkShape /\ Visiting /\ dpStack' = NextEntry(FALSE) /\ UNCHANGED <<dpBusy, dpPend, dpExec>>
      /\ Enqueue(AtEntry, IsDir(dpOf.tree, AtEntry)) /\ dpJobs \in Seq(Job)
  BY DEF PrunerInv, JobShape, VisitNoMatch
<1> DEFINE j == NewJob(AtEntry, IsDir(dpOf.tree, AtEntry))
<1>1. /\ Deepest.dir \in Dirs(dpOf) /\ Deepest.at \in 1..Len(List(Deepest.dir)) /\ AtEntry \in DirPath
      /\ AtEntry = EntryOf(Deepest.dir, Deepest.at)
      /\ \A q \in DOMAIN dpOf.tree :
           Under(q, AtEntry) <=> Inner(q, Deepest.dir) /\ q[Len(Deepest.dir) + 1] = List(Deepest.dir)[Deepest.at]
  BY <1>0, EntryFacts DEF EntryOf, Visiting
<1>2. IsDir(dpOf.tree, AtEntry) \in BOOLEAN /\ ~dpCtx
  BY <1>0 DEF IsDir, Visiting, AtAnEntry
<1>3. Range(dpJobs) \subseteq Range(dpJobs') /\ j \in Range(dpJobs')
  BY <1>0, <1>1, <1>2, EnqueueIs
<1>4. ASSUME Under(p, AtEntry) PROVE Covers(j, p)
  <2>1. p # AtEntry => IsDir(dpOf.tree, AtEntry)
    BY <1>0, <1>1, <1>4, BelowEntry
  <2>2. QED
    BY <1>4, <2>1 DEF Covers, NewJob
<1> HIDE DEF j
<1>5. QED
  BY <1>0, <1>3, <1>4, FoundVisiting
LEMMA FoundKeeping ==
    ASSUME PrunerInv, VisitFile, NEW p \in dpMeant, Found(p)
    PROVE  FoundAfter(p)
<1>0. /\ WalkShape /\ Visiting /\ dpStack' = NextEntry(TRUE) /\ UNCHANGED <<dpJobs, dpBusy, dpPend, dpExec>>
      /\ ~IsDir(dpOf.tree, AtEntry) /\ Include(dpOf.filter, AtEntry, FALSE)
      /\ p \in DOMAIN dpOf.tree /\ ~Stays(dpOf, p)
  BY DEF PrunerInv, WalkShape, VisitFile
<1>1. /\ Deepest.dir \in Dirs(dpOf) /\ Deepest.at \in 1..Len(List(Deepest.dir)) /\ AtEntry \in DirPath /\ Deepest.dir \in DirPath
      /\ AtEntry = EntryOf(Deepest.dir, Deepest.at) /\ AllPass(Deepest.dir) /\ List(Deepest.dir) \in Seq(Nat)
      /\ AtEntry \in DOMAIN dpOf.tree
      /\ \A q \in DOMAIN dpOf.tree :
           Under(q, AtEntry) <=> Inner(q, Deepest.dir) /\ q[Len(Deepest.dir) + 1] = List(Deepest.dir)[Deepest.at]
  BY <1>0, EntryFacts DEF EntryOf, Visiting
<1>2. List(Deepest.dir)[Deepest.at] \in Nat
  BY <1>1
<1>3. MatchesDown(dpOf, AtEntry)
  BY <1>0, <1>1, <1>2, PassesMatches DEF EntryOf
<1>4. Stays(dpOf, AtEntry)
  BY <1>1, <1>3, UnderItself DEF Stays, Below
<1>5. ~Under(p, AtEntry)
  BY <1>0, <1>1, <1>4, BelowEntry
<1>6. QED
  BY <1>0, <1>5, FoundVisiting
LEMMA FoundDescending ==
    ASSUME PrunerInv, VisitDir, NEW p \in DOMAIN dpOf.tree, Found(p)
    PROVE  FoundAfter(p)
<1> DEFINE fr == [dir |-> AtEntry, at |-> 0, keep |-> FALSE]
<1>0. /\ WalkShape /\ Visiting /\ dpStack' = Append(dpStack, fr) /\ UNCHANGED <<dpJobs, dpBusy, dpPend, dpExec>>
      /\ IsDir(dpOf.tree, AtEntry) /\ dpStack \in Seq(Frame)
  BY DEF PrunerInv, WalkShape, VisitDir
<1>1. /\ Len(dpStack) \in Frames /\ Deepest = dpStack[Len(dpStack)] /\ Deepest \in Frame
      /\ Deepest.dir \in Dirs(dpOf) /\ Deepest.at \in 1..Len(List(Deepest.dir)) /\ AtEntry \in DirPath
      /\ AtEntry = EntryOf(Deepest.dir, Deepest.at) /\ AtEntry \in Dirs(dpOf) /\ List(Deepest.dir) \in Seq(Nat)
  BY <1>0, EntryFacts DEF EntryOf, Dirs, Visiting
<1>2. fr \in Frame /\ fr.dir = AtEntry /\ fr.at = 0
  BY <1>1 DEF Frame
<1> HIDE DEF fr
<1>3. /\ Len(dpStack') = Len(dpStack) + 1 /\ dpStack'[Len(dpStack) + 1] = fr
      /\ \A k \in Frames : dpStack'[k] = dpStack[k] /\ k \in 1..Len(dpStack') /\ k # Len(dpStack')
      /\ Len(dpStack) + 1 \in 1..Len(dpStack')
  BY <1>0, <1>2 DEF Frames
<1>4. CASE \E j \in InFlight : Covers(j, p)
  BY <1>0, <1>4 DEF FoundAfter, InFlight
<1>5. CASE \E k \in Frames : AheadIn(p, dpStack, k)
  <2>1. PICK k \in Frames : AheadIn(p, dpStack, k)
    BY <1>5
  <2>2. CASE k # Len(dpStack)
    BY <1>3, <2>1, <2>2, SameAhead DEF FoundAfter
  <2>3. CASE k = Len(dpStack)
    <3>1. dpStack[k] = Deepest /\ dpStack'[k] = Deepest
      BY <1>1, <1>3, <2>3
    <3>2. PICK i \in 1..Len(List(Deepest.dir)) :
            /\ Inner(p, Deepest.dir) /\ List(Deepest.dir)[i] = p[Len(Deepest.dir) + 1]
            /\ i > Deepest.at \/ i = Deepest.at
      BY <2>1, <3>1 DEF AheadIn
    <3>3. CASE i > Deepest.at
      <4>1. AheadIn(p, dpStack', k)
        BY <3>1, <3>2, <3>3 DEF AheadIn
      <4>2. QED
        BY <1>3, <4>1 DEF FoundAfter
    <3>4. CASE i = Deepest.at /\ p = AtEntry
      <4>1. Len(p) = Len(Deepest.dir) + 1
        BY <1>0, <1>1, <3>4, EntryBelow
      <4>2. AheadIn(p, dpStack', k)
        BY <3>1, <3>2, <3>4, <4>1 DEF AheadIn
      <4>3. QED
        BY <1>3, <4>2 DEF FoundAfter
    <3>5. CASE i = Deepest.at /\ p # AtEntry
      <4>1. Inner(p, AtEntry)
        BY <1>0, <1>1, <3>2, <3>5, BelowEntry
      <4>2. \E m \in 1..Len(List(AtEntry)) : List(AtEntry)[m] = p[Len(AtEntry) + 1]
        BY <1>0, <1>1, <4>1, NamesAre DEF WalkShape, List, Inner
      <4>3. \A m \in 1..Len(List(AtEntry)) : m > 0
        <5>1. List(AtEntry) \in Seq(Nat)
          BY <1>0, <1>1, NamesAre DEF WalkShape, List
        <5>2. QED
          BY <5>1
      <4>4. AheadIn(p, dpStack', Len(dpStack) + 1)
        BY <1>2, <1>3, <4>1, <4>2, <4>3 DEF AheadIn
      <4>5. QED
        BY <1>3, <4>4 DEF FoundAfter
    <3>6. QED
      BY <3>2, <3>3, <3>4, <3>5
  <2>4. QED
    BY <2>2, <2>3
<1>6. QED
  BY <1>4, <1>5 DEF Found
LEMMA FoundLeaving ==
    ASSUME PrunerInv, LeaveDir, ~dpCtx, dpErrs' = {}, NEW p \in dpMeant, Found(p)
    PROVE  FoundAfter(p)
<1>0. /\ WalkShape /\ KeepTells /\ dpStack \in Seq(Frame) /\ dpStack # <<>> /\ UNCHANGED <<dpBusy, dpPend, dpExec>>
      /\ p \in DOMAIN dpOf.tree /\ ~Stays(dpOf, p) /\ dpJobs \in Seq(Job) /\ dpOf \in DpWorlds
  BY DEF PrunerInv, WalkShape, LeaveDir, JobShape
<1>1. Len(dpStack) \in Frames /\ Deepest = dpStack[Len(dpStack)] /\ Len(dpStack) \in Nat /\ Len(dpStack) # 0
  <2>1. Len(dpStack) \in Nat \ {0}
    BY <1>0, EmptySeq
  <2>2. QED
    BY <2>1 DEF Frames, Deepest
<1>2. Deepest \in Frame /\ Deepest.dir \in Dirs(dpOf)
  BY <1>0, <1>1 DEF WalkShape, Frames
<1>3. List(Deepest.dir) \in Seq(Nat)
  BY <1>0, <1>2, NamesAre DEF WalkShape, List
<1>4. Deepest.at > Len(List(Deepest.dir))
  BY DEF LeaveDir, List
<1>5. ~AheadIn(p, dpStack, Len(dpStack))
  <2>1. \A i \in 1..Len(List(Deepest.dir)) : ~(i > Deepest.at) /\ i # Deepest.at
    BY <1>2, <1>3, <1>4 DEF Frame
  <2>2. QED
    BY <1>1, <2>1 DEF AheadIn
<1>6. CASE Len(dpStack) = 1
  <2>1. dpJobs' = dpJobs
    BY <1>6 DEF LeaveDir
  <2>2. \A k \in Frames : k = Len(dpStack)
    BY <1>6 DEF Frames
  <2>3. \E j \in InFlight : Covers(j, p)
    BY <1>5, <2>2 DEF Found
  <2>4. QED
    BY <1>0, <2>1, <2>3 DEF FoundAfter, InFlight
<1>7. CASE Len(dpStack) # 1
  <2>0. Len(dpStack) > 1
    <3>1. \A m \in Nat : m # 0 /\ m # 1 => m > 1
      OBVIOUS
    <3>2. QED
      BY <1>1, <1>7, <3>1, Zenon
  <2>1. dpStack' = Popped(Staying(Deepest.dir, Deepest.keep))
        /\ IF Staying(Deepest.dir, Deepest.keep) THEN UNCHANGED dpJobs ELSE Enqueue(Deepest.dir, TRUE)
    BY <1>7 DEF LeaveDir, Popped
  <2> DEFINE n == Len(dpStack) - 1  stay == Staying(Deepest.dir, Deepest.keep)
  <2>2. /\ n \in Frames /\ Upper = dpStack[n] /\ Upper \in Frame /\ Upper.dir \in Dirs(dpOf)
        /\ Upper.at \in 1..Len(List(Upper.dir)) /\ Deepest.dir = EntryOf(Upper.dir, Upper.at)
        /\ stay => Stays(dpOf, Deepest.dir)
    BY <1>0, <2>0, LeaveFacts DEF Upper
  <2>3. stay \in BOOLEAN
    BY <1>2 DEF Staying, Include, Frame, Matches
  <2>4. /\ Deepest.dir \in DOMAIN dpOf.tree /\ Deepest.dir \in DirPath /\ Len(Deepest.dir) = Len(Upper.dir) + 1
        /\ \A q \in DOMAIN dpOf.tree :
             /\ q \in DirPath
             /\ Under(q, Deepest.dir) <=> Inner(q, Upper.dir) /\ q[Len(Upper.dir) + 1] = List(Upper.dir)[Upper.at]
    <3> DEFINE d == Upper.dir  i == Upper.at  e == EntryOf(d, i)
    <3>1. e = Deepest.dir /\ d \in Dirs(dpOf) /\ i \in 1..Len(List(d)) /\ WalkShape
      BY <1>0, <2>2
    <3>2. /\ e \in DOMAIN dpOf.tree /\ e \in DirPath /\ Len(e) = Len(d) + 1
          /\ \A q \in DOMAIN dpOf.tree : q \in DirPath /\ (Under(q, e) <=> Inner(q, d) /\ q[Len(d) + 1] = List(d)[i])
      <4> HIDE DEF d, i
      <4>1. QED
        BY <3>1, EntryBelow DEF e
    <3> HIDE DEF e
    <3>3. QED
      BY <3>1, <3>2
  <2>5. List(Upper.dir) \in Seq(Nat)
    BY <1>0, <2>2, NamesAre DEF WalkShape, List
  <2> HIDE DEF stay
  <2>6. /\ Len(dpStack') = n
        /\ \A k \in 1..(n - 1) : dpStack'[k] = dpStack[k]
        /\ dpStack'[n] = Advanced(Upper, stay)
    <3>1. Len(dpStack) - 2 = n - 1
      BY <1>1
    <3>2. dpStack' = Popped(stay)
      BY <2>1 DEF stay
    <3>3. QED
      BY <1>0, <2>0, <2>2, <2>3, <3>1, <3>2, PoppedIs
  <2>7. Range(dpJobs) \subseteq Range(dpJobs') /\ (~stay => NewJob(Deepest.dir, TRUE) \in Range(dpJobs'))
    <3>1. CASE stay
      BY <2>1, <3>1 DEF stay
    <3>2. CASE ~stay
      <4>1. Enqueue(Deepest.dir, TRUE)
        BY <2>1, <3>2 DEF stay
      <4>2. QED
        BY <1>0, <2>4, <4>1, EnqueueIs
    <3>3. QED
      BY <3>1, <3>2
  <2>8. CASE \E j \in InFlight : Covers(j, p)
    BY <1>0, <2>7, <2>8 DEF FoundAfter, InFlight
  <2>9. CASE \E k \in Frames : AheadIn(p, dpStack, k)
    <3>1. PICK k \in Frames : AheadIn(p, dpStack, k)
      BY <2>9
    <3>2. k \in 1..n /\ (k = n \/ k \in 1..(n - 1))
      <4>1. k # Len(dpStack)
        BY <1>5, <3>1
      <4>2. QED
        BY <1>1, <3>1, <4>1 DEF Frames
    <3>3. CASE k # n
      <4>1. k \in 1..Len(dpStack') /\ dpStack'[k] = dpStack[k] /\ k # Len(dpStack)
        BY <1>5, <2>6, <3>1, <3>2, <3>3
      <4>2. QED
        BY <3>1, <4>1, SameAhead DEF FoundAfter
    <3>4. CASE k = n
      <4>1. dpStack[k] = Upper /\ dpStack'[k].dir = Upper.dir /\ dpStack'[k].at = Upper.at + 1 /\ k = Len(dpStack') /\ k # Len(dpStack)
        BY <1>5, <2>2, <2>6, <3>1, <3>4 DEF Advanced
      <4>2. PICK i \in 1..Len(List(Upper.dir)) :
              /\ Inner(p, Upper.dir) /\ List(Upper.dir)[i] = p[Len(Upper.dir) + 1]
              /\ i > Upper.at \/ (i = Upper.at /\ Len(p) = Len(Upper.dir) + 1)
        BY <3>1, <4>1 DEF AheadIn
      <4>3. CASE i > Upper.at
        <5>1. i > Upper.at + 1 \/ i = Upper.at + 1
          BY <2>2, <4>3 DEF Frame
        <5>2. AheadIn(p, dpStack', k)
          BY <4>1, <4>2, <5>1 DEF AheadIn
        <5>3. QED
          BY <2>6, <3>2, <5>2 DEF FoundAfter
      <4>4. CASE i = Upper.at /\ Len(p) = Len(Upper.dir) + 1
        <5>1. Under(p, Deepest.dir) /\ p \in DirPath
          BY <1>0, <2>4, <4>2, <4>4
        <5>2. p = Deepest.dir
          BY <2>4, <4>4, <5>1, SamePath
        <5>3. ~stay
          BY <1>0, <2>2, <5>2
        <5>4. Covers(NewJob(Deepest.dir, TRUE), p)
          BY <5>2 DEF Covers, NewJob
        <5>5. QED
          BY <2>7, <5>3, <5>4 DEF FoundAfter
      <4>5. QED
        BY <4>2, <4>3, <4>4
    <3>5. QED
      BY <3>3, <3>4
  <2>10. QED
    BY <2>8, <2>9 DEF Found
<1>8. QED
  BY <1>6, <1>7

(* and by every other step. *)
LEMMA FoundMoving ==
    ASSUME PrunerInv, WorkerTakes \/ WorkerSubmits \/ WalkEnds \/ DpClose \/ DpExecute \/ DpDone,
           ~dpCtx, NEW p \in dpMeant, p \in dpLeft', Found(p)
    PROVE  FoundAfter(p)
<1>0. /\ dpJobs \in Seq(Job) /\ dpStack \in Seq(Frame) /\ Phases /\ p \in DirPath
      /\ dpJobs = <<>> => Range(dpJobs) = {}
  BY PathsOfTree, QueueNone DEF PrunerInv, JobShape, WalkShape
<1>1. dpStack' = dpStack
  BY DEF WorkerTakes, WorkerSubmits, WalkEnds, DpClose, DpExecute, DpDone
<1>2. CASE \E k \in Frames : AheadIn(p, dpStack, k)
  BY <1>1, <1>2 DEF FoundAfter, Frames
<1>3. ASSUME NEW j \in InFlight, Covers(j, p) PROVE FoundAfter(p)
  <2>1. CASE WorkerTakes
    <3>1. dpJobs # <<>> /\ dpJobs' = Tail(dpJobs) /\ dpBusy' = dpBusy \cup {Head(dpJobs)} /\ UNCHANGED <<dpPend, dpExec>>
      BY <2>1 DEF WorkerTakes, TakesJob
    <3>2. Range(dpJobs) \subseteq Range(Tail(dpJobs)) \cup {Head(dpJobs)}
      BY <1>0, <3>1, QueueGet
    <3>3. j \in Range(dpJobs') \cup dpBusy' \cup dpPend' \cup dpExec'
      BY <1>3, <3>1, <3>2 DEF InFlight
    <3>4. QED
      BY <1>3, <3>3 DEF FoundAfter
  <2>2. CASE WorkerSubmits
    <3>1. j \in Range(dpJobs') \cup dpBusy' \cup dpPend' \cup dpExec'
      BY <1>3, <2>2 DEF WorkerSubmits, InFlight
    <3>2. QED
      BY <1>3, <3>1 DEF FoundAfter
  <2>3. CASE WalkEnds \/ DpDone
    <3>1. UNCHANGED <<dpJobs, dpBusy, dpPend, dpExec>>
      BY <2>3 DEF WalkEnds, DpDone
    <3>2. QED
      BY <1>3, <3>1 DEF FoundAfter, InFlight
  <2>4. CASE DpClose
    <3>1. dpPc = "pool" /\ dpJobs = <<>> /\ dpBusy = {} /\ dpExec' = dpPend
      BY <2>4 DEF DpClose, PoolOver
    <3>2. dpExec = {}
      BY <1>0, <3>1 DEF Phases
    <3>3. j \in dpExec'
      BY <1>0, <1>3, <3>1, <3>2 DEF InFlight
    <3>4. QED
      BY <1>3, <3>3 DEF FoundAfter
  <2>5. CASE DpExecute
    <3>1. PICK o \in dpExec :
            /\ dpExec' = dpExec \ {o} /\ dpLeft' = dpLeft \ (IF o.all THEN {q \in dpLeft : Under(q, o.path)} ELSE {o.path})
      BY <2>5 DEF DpExecute
    <3>2. UNCHANGED <<dpJobs, dpBusy, dpPend>>
      BY <2>5 DEF DpExecute
    <3>3. ~Covers(o, p)
      <4>1. CASE o.all
        BY <1>0, <3>1, <4>1, UnderItself DEF Covers
      <4>2. CASE ~o.all
        BY <3>1, <4>2 DEF Covers
      <4>3. QED
        BY <4>1, <4>2
    <3>4. j # o
      BY <1>3, <3>3
    <3>5. j \in Range(dpJobs') \cup dpBusy' \cup dpPend' \cup dpExec'
      BY <1>3, <3>1, <3>2, <3>4 DEF InFlight
    <3>6. QED
      BY <1>3, <3>5 DEF FoundAfter
  <2>6. QED
    BY <2>1, <2>2, <2>3, <2>4, <2>5
<1>4. QED
  BY <1>2, <1>3 DEF Found
LEMMA FoundAtStart ==
    ASSUME PrunerInv, dpStack' = <<Root>>, NEW p \in DOMAIN dpOf.tree
    PROVE  FoundAfter(p)
<1>0. WalkShape /\ dpOf \in DpWorlds /\ p \in DirPath /\ p # <<>>
  BY PathsOfTree, DpAssumption DEF PrunerInv, WalkShape
<1>1. Len(dpStack') = 1 /\ dpStack'[1] = Root
  OBVIOUS
<1>2. <<>> \in Dirs(dpOf) /\ List(<<>>) = Names(dpOf.tree, <<>>) /\ Len(<<>>) = 0
  BY <1>0 DEF WalkShape, List, Dirs
<1>3. Inner(p, <<>>)
  <2>1. Len(p) \in Nat \ {0}
    BY <1>0, EmptySeq DEF DirPath
  <2>2. QED
    BY <1>0, <1>2, <2>1, UnderItself DEF Inner
<1>4. \E i \in 1..Len(List(<<>>)) : List(<<>>)[i] = p[Len(<<>>) + 1]
  BY <1>0, <1>2, <1>3, NamesAre DEF Inner
<1>5. \A i \in 1..Len(List(<<>>)) : i > 0
  <2>1. List(<<>>) \in Seq(Nat)
    BY <1>0, <1>2, NamesAre
  <2>2. QED
    BY <2>1
<1>6. AheadIn(p, dpStack', 1)
  BY <1>1, <1>3, <1>4, <1>5, RootFrame DEF AheadIn
<1>7. QED
  BY <1>1, <1>6 DEF FoundAfter
LEMMA FoundNext ==
    ASSUME PrunerInv, DpNext
    PROVE  AllFound'
<1>0. /\ WalkShape /\ dpOf' = dpOf /\ dpNames' = dpNames /\ dpMeant' = dpMeant /\ (dpCtx => dpCtx') /\ AllFound
      /\ dpMeant \subseteq DOMAIN dpOf.tree /\ dpCtx \in BOOLEAN
  BY StepFrame DEF PrunerInv, WalkShape, dpGiven
<1>1. SUFFICES ASSUME ~dpCtx', dpErrs' = {}, dpPc' # "check", NEW p \in dpMeant, p \in dpLeft'
               PROVE  FoundAfter(p)
  <2>1. (\A p \in dpMeant \cap dpLeft' : FoundAfter(p)) => (\A p \in dpMeant \cap dpLeft : Found(p))'
    BY <1>0 DEF FoundAfter, Found, InFlight, Frames, AheadIn, List
  <2>2. QED
    BY <1>0, <2>1 DEF AllFound
<1>2. ~dpCtx /\ p \in DOMAIN dpOf.tree
  BY <1>0, <1>1
<1>3. CASE DpCancel
  BY <1>1, <1>3 DEF DpCancel
<1>4. CASE DpCheck
  <2>1. dpStack' = <<Root>>
    BY <1>1, <1>4 DEF DpCheck, Root
  <2>2. QED
    BY <1>2, <2>1, FoundAtStart
<1>5. CASE ~DpCancel /\ ~DpCheck
  <2>1. DpStep /\ ~DpCheck
    BY <1>5 DEF DpNext
  <2>2. StepsOfWalk \/ WorkerTakes \/ WorkerSubmits \/ WalkEnds \/ DpClose \/ DpExecute \/ DpDone
    BY <1>2, <2>1 DEF DpStep, StepsOfWalk, DpHang
  <2>3. dpPc # "check" /\ dpErrs = {}
    <3>1. CASE StepsOfWalk
      BY <1>1, <3>1 DEF StepsOfWalk, ReadDir, VisitUnstat, VisitNoMatch, VisitFile, VisitDir, LeaveDir, Visiting, AtAnEntry
    <3>2. CASE WorkerTakes \/ WorkerSubmits \/ WalkEnds \/ DpClose \/ DpExecute \/ DpDone
      <4>1. dpErrs' = dpErrs
        BY <3>2 DEF WorkerTakes, WorkerSubmits, WalkEnds, DpClose, DpExecute, DpDone
      <4>2. WorkerTakes \/ WorkerSubmits => dpPc' = dpPc
        BY DEF WorkerTakes, WorkerSubmits
      <4>3. WalkEnds \/ DpClose \/ DpExecute \/ DpDone => dpPc # "check"
        BY DEF WalkEnds, DpClose, DpExecute, DpDone
      <4>4. QED
        BY <1>1, <3>2, <4>1, <4>2, <4>3
    <3>3. QED
      BY <2>2, <3>1, <3>2
  <2>4. p \in dpLeft
    <3>1. DpExecute \/ dpLeft' = dpLeft
      BY <2>2 DEF StepsOfWalk, ReadDir, VisitUnstat, VisitNoMatch, VisitFile, VisitDir, LeaveDir, WorkerTakes, WorkerSubmits, WalkEnds, DpClose, DpDone
    <3>2. DpExecute => dpLeft' \subseteq dpLeft
      BY DEF DpExecute
    <3>3. QED
      BY <1>1, <3>1, <3>2
  <2>5. Found(p)
    BY <1>0, <1>2, <2>3, <2>4 DEF AllFound
  <2>51. ~VisitUnstat
    BY <1>1 DEF VisitUnstat
  <2>6. QED
    BY <1>1, <1>2, <2>2, <2>5, <2>51, FoundReading, FoundRejecting, FoundKeeping, FoundDescending, FoundLeaving, FoundMoving DEF StepsOfWalk
<1>6. QED
  BY <1>3, <1>4, <1>5

-----------------------------------------------------------------------------
LEMMA PrunerStarts == DpInit => PrunerInv
<1> SUFFICES ASSUME DpInit PROVE PrunerInv
  OBVIOUS
<1>1. dpStack = <<>> /\ dpPc = "check" /\ dpJobs = <<>> /\ dpBusy = {} /\ dpPend = {} /\ dpExec = {}
  BY DEF DpInit
<1>2. Frames = {}
  BY <1>1 DEF Frames
<1>3. KeepTells /\ AllFound /\ Phases
  BY <1>1, <1>2 DEF KeepTells, AllFound, Phases
<1>4. JobShape /\ JobsMeant
  BY <1>1, QueueNone DEF JobShape, JobsMeant
<1>5. QED
  BY <1>3, <1>4, ShapeInit DEF PrunerInv
LEMMA PrunerKept ==
    ASSUME PrunerInv, [DpNext]_dpVars
    PROVE  PrunerInv'
<1>2. CASE DpNext
  BY <1>2, ShapeNext, KeepNext, JobsNext, FoundNext, PhasesNext DEF PrunerInv
<1>3. CASE UNCHANGED dpVars
  <2>1. /\ dpOf' = dpOf /\ dpNames' = dpNames /\ dpMeant' = dpMeant /\ dpReach' = dpReach /\ dpCtx' = dpCtx /\ dpPc' = dpPc /\ dpStack' = dpStack
        /\ dpJobs' = dpJobs /\ dpBusy' = dpBusy /\ dpPend' = dpPend /\ dpExec' = dpExec /\ dpLeft' = dpLeft /\ dpErrs' = dpErrs
    BY <1>3 DEF dpVars, dpGiven
  <2>2. WalkShape' = WalkShape /\ Phases' = Phases /\ JobShape' = JobShape /\ JobsMeant' = JobsMeant
    BY <2>1 DEF WalkShape, Phases, JobShape, JobsMeant, Fit, Frames, AllPass, List
  <2>3. KeepTells' = KeepTells
    BY <2>1 DEF KeepTells, Told, Sighted, Frames, HoldsOne, OnlyFrom, List
  <2>4. AllFound' = AllFound
    BY <2>1 DEF AllFound, Found, InFlight, Frames, AheadIn, List
  <2>5. QED
    BY <2>2, <2>3, <2>4 DEF PrunerInv
<1>4. QED
  BY <1>2, <1>3

(* Each step of the pruner is one of the promise, or none. *)
Outcome ==
    CASE dpPc # "done" -> "running"
      [] dpPc = "done" /\ dpErrs # {} -> "failed"
      [] dpPc = "done" /\ dpErrs = {} -> IF dpCtx THEN "cut" ELSE "ok"
LEMMA OutcomeIs ==
    /\ dpPc # "done" => Outcome = "running"
    /\ dpPc = "done" /\ dpErrs # {} => Outcome = "failed"
    /\ dpPc = "done" /\ dpErrs = {} /\ dpCtx => Outcome = "cut"
    /\ dpPc = "done" /\ dpErrs = {} /\ ~dpCtx => Outcome = "ok"
BY DEF Outcome
LEMMA RemovesMeant ==
    ASSUME PrunerInv, DpExecute
    PROVE  dpLeft' \subseteq dpLeft /\ dpLeft \ dpLeft' \subseteq dpReach
<1>1. PICK o \in dpExec :
        \/ dpLeft' = dpLeft \ (IF o.all THEN {q \in dpLeft : Under(q, o.path)} ELSE {o.path})
        \/ dpLeft' = dpLeft
  BY DEF DpExecute
<1>2. /\ Fit(o.path) /\ dpOf \in DpWorlds /\ dpLeft \subseteq DOMAIN dpOf.tree
  BY DEF PrunerInv, JobsMeant, WalkShape
<1>3. ASSUME NEW q \in dpLeft, q \notin dpLeft' PROVE q \in dpReach
  <2>1. q = o.path \/ Under(q, o.path)
    BY <1>1, <1>3
  <2>2. q \in DOMAIN dpOf.tree /\ q \in DirPath
    BY <1>2, PathsOfTree
  <2>3. q \in Below(dpOf.tree, o.path)
    BY <2>1, <2>2, UnderItself DEF Below
  <2>4. QED
    BY <1>2, <2>3 DEF Fit
<1>4. dpLeft' \subseteq dpLeft
  BY <1>1
<1>5. QED
  BY <1>3, <1>4
LEMMA NothingLeft ==
    ASSUME PrunerInv, DpDone, dpErrs = {}, ~dpCtx
    PROVE  dpLeft \cap dpMeant = {}
<1>1. dpPc = "close" /\ dpExec = {} /\ Phases /\ AllFound
  BY DEF PrunerInv, DpDone
<1>2. dpStack = <<>> /\ dpJobs = <<>> /\ dpBusy = {} /\ dpPend = {}
  BY <1>1 DEF Phases
<1>3. InFlight = {} /\ Frames = {}
  BY <1>1, <1>2, QueueNone DEF InFlight, Frames
<1>4. \A p \in dpMeant \cap dpLeft : FALSE
  BY <1>1, <1>3 DEF AllFound, Found
<1>5. QED
  BY <1>4

(* For every tree, filter, set of what cannot be read or looked at, size   *)
(* of the channel and number of workers: whatever is read, cancelled,      *)
(* dropped or stuck in between, nothing that stays is removed but where    *)
(* the walk can see nothing of it (Blind), and a run that reports no error *)
(* and that nobody cancelled has removed all that is not to stay (Prune,   *)
(* walkDir).  A cancelled run may end with entries left and no error.      *)
THEOREM PrunesAsPromised == DpSpec => PrunesAsMeant
<1>1. UNCHANGED <<dpMeant, dpReach, dpLeft, Outcome>> => UNCHANGED PrunerPromise!pruningVars
  BY DEF PrunerPromise!pruningVars, Outcome
<1>2. DpInit => PrunerPromise!PruningInit
  BY DEF DpInit, PrunerPromise!PruningInit
<1>3. PrunerInv /\ [DpNext]_dpVars => [PrunerPromise!PruningNext]_PrunerPromise!pruningVars
  <2> SUFFICES ASSUME PrunerInv, [DpNext]_dpVars
               PROVE  PrunerPromise!PruningNext \/ UNCHANGED <<dpMeant, dpReach, dpLeft, Outcome>>
    BY <1>1
  <2>1. CASE UNCHANGED dpVars
    BY <2>1 DEF dpVars, dpGiven, Outcome
  <2>2. CASE DpExecute
    <3>1. dpLeft' \subseteq dpLeft /\ dpLeft \ dpLeft' \subseteq dpReach
      BY <2>2, RemovesMeant
    <3>2. dpPc = "close" /\ dpPc' = dpPc /\ dpMeant' = dpMeant /\ dpReach' = dpReach
      BY <2>2 DEF DpExecute, dpGiven
    <3>3. PrunerPromise!RemoveSome
      BY <3>1, <3>2 DEF PrunerPromise!RemoveSome
    <3>4. QED
      BY <3>3 DEF PrunerPromise!PruningNext
  <2>3. CASE DpDone
    <3>1. dpPc = "close" /\ dpPc' = "done" /\ dpMeant' = dpMeant /\ dpReach' = dpReach
          /\ dpLeft' = dpLeft /\ dpErrs' = dpErrs /\ dpCtx' = dpCtx
      BY <2>3 DEF DpDone, dpGiven
    <3>2. CASE dpErrs = {} /\ ~dpCtx
      <4>1. dpLeft \cap dpMeant = {}
        BY <2>3, <3>2, NothingLeft
      <4>2. PrunerPromise!EndWell
        BY <3>1, <3>2, <4>1 DEF PrunerPromise!EndWell
      <4>3. QED
        BY <4>2 DEF PrunerPromise!PruningNext
    <3>3. CASE dpErrs # {}
      <4>1. PrunerPromise!EndBadly
        BY <3>1, <3>3 DEF PrunerPromise!EndBadly
      <4>2. QED
        BY <4>1 DEF PrunerPromise!PruningNext
    <3>4. CASE dpErrs = {} /\ dpCtx
      <4>1. PrunerPromise!EndCut
        BY <3>1, <3>4 DEF PrunerPromise!EndCut
      <4>2. QED
        BY <4>1 DEF PrunerPromise!PruningNext
    <3>5. QED
      BY <3>2, <3>3, <3>4
  <2>4. CASE DpCheck
    <3>1. dpPc = "check" /\ dpMeant' = dpMeant /\ dpReach' = dpReach /\ dpLeft' = dpLeft
      BY <2>4 DEF DpCheck, dpGiven
    <3>2. CASE dpPc' = "walk"
      BY <3>1, <3>2 DEF Outcome
    <3>3. CASE dpPc' = "done" /\ dpErrs' = {<<>>}
      <4>1. PrunerPromise!EndBadly
        BY <3>1, <3>3 DEF PrunerPromise!EndBadly
      <4>2. QED
        BY <4>1 DEF PrunerPromise!PruningNext
    <3>4. QED
      BY <2>4, <3>2, <3>3 DEF DpCheck
  <2>5. CASE DpCancel \/ StepsOfWalk \/ WalkEnds \/ WorkerTakes \/ WorkerSubmits \/ DpClose \/ DpHang
    <3>1. dpMeant' = dpMeant /\ dpReach' = dpReach /\ dpLeft' = dpLeft
      BY <2>5 DEF DpCancel, StepsOfWalk, ReadDir, VisitUnstat, VisitNoMatch, VisitFile, VisitDir, LeaveDir, WalkEnds,
                  WorkerTakes, WorkerSubmits, DpClose, DpHang, dpGiven
    <3>2. dpPc # "done" /\ dpPc' # "done"
      <4>1. CASE DpCancel
        BY <4>1 DEF DpCancel
      <4>2. CASE StepsOfWalk
        BY <4>2 DEF StepsOfWalk, ReadDir, VisitUnstat, VisitNoMatch, VisitFile, VisitDir, LeaveDir, Visiting, AtAnEntry
      <4>3. CASE WalkEnds \/ DpClose \/ DpHang
        BY <4>3 DEF WalkEnds, DpClose, DpHang
      <4>4. CASE WorkerTakes \/ WorkerSubmits
        <5>1. dpPc' = dpPc
          BY <4>4 DEF WorkerTakes, WorkerSubmits
        <5>2. dpPc # "done"
          BY <4>4 DEF WorkerTakes, WorkerSubmits, PrunerInv, Phases
        <5>3. QED
          BY <5>1, <5>2
      <4>5. QED
        BY <2>5, <4>1, <4>2, <4>3, <4>4
    <3>3. QED
      BY <3>1, <3>2 DEF Outcome
  <2>6. QED
    BY <2>1, <2>2, <2>3, <2>4, <2>5 DEF DpNext, DpStep, StepsOfWalk
<1>4. DpSpec => []PrunerInv
  BY PrunerStarts, PrunerKept, PTL DEF DpSpec
<1>5. QED
  BY <1>2, <1>3, <1>4, PTL DEF DpSpec, PrunesAsMeant, PrunerPromise!PruningSpec

-----------------------------------------------------------------------------
(* The cache: what is in it after an entry is removed or put in front.     *)
LEMMA WithoutOne ==
    ASSUME NEW S, NEW c \in Seq(S), NEW l, NEW p
    PROVE  /\ Without(c, l, p) \in Seq(S) /\ Len(Without(c, l, p)) <= Len(c)
           /\ EntriesOf(c, l, p) # {} => Len(Without(c, l, p)) < Len(c)
<1>1. CASE EntriesOf(c, l, p) = {}
  <2>1. Without(c, l, p) = c
    BY <1>1 DEF Without
  <2>2. QED
    BY <1>1, <2>1
<1>2. CASE EntriesOf(c, l, p) # {}
  <2> DEFINE i == CHOOSE j \in EntriesOf(c, l, p) : TRUE
             a == SubSeq(c, 1, i - 1)
             b == SubSeq(c, i + 1, Len(c))
  <2>1. i \in 1..Len(c)
    BY <1>2 DEF EntriesOf
  <2>2. Len(c) \in Nat /\ \A j \in 1..Len(c) : c[j] \in S
    BY ElementOfSeq
  <2> HIDE DEF i
  <2>3. a \in Seq(S) /\ Len(a) = i - 1
    <3>1. i - 1 \in Int /\ \A j \in 1..(i - 1) : c[j] \in S
      BY <2>1, <2>2
    <3>2. a \in Seq(S) /\ Len(a) = IF 1 <= i - 1 THEN (i - 1) - 1 + 1 ELSE 0
      BY <3>1, SubSeqProperties
    <3>3. QED
      BY <2>1, <2>2, <3>2
  <2>4. b \in Seq(S) /\ Len(b) = Len(c) - i
    <3>1. i + 1 \in Int /\ \A j \in (i + 1)..Len(c) : c[j] \in S
      BY <2>1, <2>2
    <3>2. b \in Seq(S) /\ Len(b) = IF i + 1 <= Len(c) THEN Len(c) - (i + 1) + 1 ELSE 0
      BY <2>2, <3>1, SubSeqProperties
    <3>3. QED
      BY <2>1, <2>2, <3>2
  <2>5. Without(c, l, p) = a \o b
    BY <1>2 DEF Without, RemoveAt, i
  <2>6. a \o b \in Seq(S) /\ Len(a \o b) = Len(a) + Len(b)
    BY <2>3, <2>4, ConcatProperties
  <2> HIDE DEF a, b
  <2>7. QED
    BY <2>1, <2>2, <2>3, <2>4, <2>5, <2>6
<1>3. QED
  BY <1>1, <1>2

LEMMA PutKeeps ==
    ASSUME NEW S, NEW c \in Seq(S), NEW cap \in Nat \ {0}, Len(c) <= cap,
           NEW l, NEW p, NEW h, Entry(l, p, h) \in S
    PROVE  Put(c, cap, l, p, h) \in Seq(S) /\ Len(Put(c, cap, l, p, h)) <= cap
<1> DEFINE w == Without(c, l, p)
           r == IF Len(w) = Len(c) /\ Len(c) >= cap THEN Front(c) ELSE w
           f == <<Entry(l, p, h)>>
<1>1. w \in Seq(S) /\ Len(w) <= Len(c)
  BY WithoutOne
<1>2. Len(c) \in Nat /\ Len(w) \in Nat /\ \A j \in 1..Len(c) : c[j] \in S
  BY <1>1, ElementOfSeq
<1>3. f \in Seq(S) /\ Len(f) = 1
  OBVIOUS
<1> HIDE DEF w, f
<1>4. r \in Seq(S) /\ Len(r) <= cap - 1
  <2>1. CASE Len(w) = Len(c) /\ Len(c) >= cap
    <3>1. Len(c) - 1 \in Int /\ \A j \in 1..(Len(c) - 1) : c[j] \in S
      BY <1>2
    <3>2. /\ Front(c) \in Seq(S)
          /\ Len(Front(c)) = IF 1 <= Len(c) - 1 THEN (Len(c) - 1) - 1 + 1 ELSE 0
      BY <3>1, SubSeqProperties DEF Front
    <3>3. r = Front(c)
      BY <2>1
    <3>4. QED
      BY <1>2, <2>1, <3>2, <3>3
  <2>2. CASE ~(Len(w) = Len(c) /\ Len(c) >= cap)
    <3>1. r = w
      BY <2>2
    <3>2. QED
      BY <1>1, <1>2, <2>2, <3>1
  <2>3. QED
    BY <2>1, <2>2
<1>5. Put(c, cap, l, p, h) = f \o r
  BY DEF Put, w, f
<1> HIDE DEF r
<1>6. f \o r \in Seq(S) /\ Len(f \o r) = Len(f) + Len(r)
  BY <1>3, <1>4, ConcatProperties
<1>7. Len(r) \in Nat
  BY <1>4, LenProperties
<1>8. QED
  BY <1>3, <1>4, <1>5, <1>6, <1>7

-----------------------------------------------------------------------------
(* The owner of a file and what shows at its path.                         *)
LEMMA MaxAmong ==
    ASSUME NEW n \in Nat, NEW S \in SUBSET (1..n), S # {}
    PROVE  Max(S) \in S /\ \A i \in S : Max(S) >= i
<1> DEFINE T == {n - i : i \in S}
<1>1. T \in SUBSET Nat /\ T # {}
  <2>1. \A i \in S : n - i \in Nat
    OBVIOUS
  <2>2. T \subseteq Nat
    BY <2>1
  <2>3. PICK i \in S : TRUE
    OBVIOUS
  <2>4. n - i \in T
    BY <2>3
  <2>5. QED
    BY <2>2, <2>4
<1>2. PICK t \in T : \A u \in T : t <= u
  BY <1>1, FirstOf
<1>3. PICK m \in S : t = n - m
  BY <1>2
<1>4. \A i \in S : m >= i
  <2>1. ASSUME NEW i \in S PROVE m >= i
    <3>1. n - i \in T
      OBVIOUS
    <3>2. t <= n - i
      BY <1>2, <3>1
    <3>3. m \in Int /\ i \in Int
      OBVIOUS
    <3>4. QED
      BY <1>3, <3>2, <3>3
  <2>2. QED
    BY <2>1
<1>5. QED
  BY <1>4 DEF Max

\* Of a stack and a path: the layer that decides, and whether it has the file.
Showing(s, p) == {i \in 1..Len(s) : s[i] \in Registered /\ LayerFile[s[i]][p] # "absent"}
Shows(l, p) == l \in Registered /\ LayerFile[l][p] = "present"
LEMMA OwnerShows ==
    ASSUME NEW s \in Seq(Layers), NEW p, FindOwner(s, p) # NoOwner
    PROVE  /\ FindOwner(s, p) \in Layers /\ Shows(FindOwner(s, p), p)
           /\ Visible(s, p) = {<<FindOwner(s, p), p>>}
<1> DEFINE m == Max(Showing(s, p))
<1>1. Len(s) \in Nat /\ \A i \in 1..Len(s) : s[i] \in Layers
  BY LenProperties, ElementOfSeq
<1>2. Showing(s, p) # {} /\ LayerFile[s[m]][p] = "present" /\ FindOwner(s, p) = s[m]
  BY DEF FindOwner, Showing
<1>3. m \in Showing(s, p)
  <2>1. Showing(s, p) \in SUBSET (1..Len(s))
    BY DEF Showing
  <2>2. QED
    BY <1>1, <1>2, <2>1, MaxAmong
<1>4. Visible(s, p) = {<<s[m], p>>}
  BY <1>2 DEF Visible, Showing
<1>5. m \in 1..Len(s) /\ s[m] \in Registered
  BY <1>3 DEF Showing
<1> HIDE DEF m
<1>6. QED
  BY <1>1, <1>2, <1>4, <1>5 DEF Shows
LEMMA TopShows ==
    ASSUME NEW s \in Seq(Layers) \ {<<>>}, NEW p, Shows(s[Len(s)], p), s[Len(s)] # NoOwner
    PROVE  FindOwner(s, p) = s[Len(s)] /\ Visible(s, p) = {<<s[Len(s)], p>>}
<1>1. Len(s) \in Nat /\ Len(s) > 0 /\ Len(s) \in 1..Len(s)
  BY LenProperties, EmptySeq
<1>2. Len(s) \in Showing(s, p) /\ Showing(s, p) \in SUBSET (1..Len(s))
  BY <1>1 DEF Showing, Shows
<1>3. Max(Showing(s, p)) \in Showing(s, p) /\ Max(Showing(s, p)) >= Len(s)
  BY <1>1, <1>2, MaxAmong
<1>4. Max(Showing(s, p)) = Len(s)
  BY <1>1, <1>2, <1>3
<1>5. FindOwner(s, p) = s[Len(s)]
  BY <1>2, <1>4 DEF FindOwner, Showing, Shows
<1>6. QED
  BY <1>5, OwnerShows

-----------------------------------------------------------------------------
(* The invariant of the engine, of which its properties follow.            *)
Leading == {"owner", "second", "hash", "hashjoin", "store", "land"}
EventPcs == {"idle", "sending", "queued", "dropped", "skipped", "done"} \cup Waiting
AtWork == {e \in Events : evPc[e] \in Waiting}
HashKey(e) == <<evOwner[e], Path(e)>>
Shown(e) == Visible(evOf[e].stack, Path(e))

\* An entry of the cache tells what shows through the stacks with its layer on top; when the
\* layer itself has the file, it is the hash of that.
RightEntries ==
    {x \in [layer : Layers, path : Paths, hash : Layers \X Paths] :
        /\ \A e \in Events : Top(e) = x.layer /\ Path(e) = x.path => x.hash \in Shown(e)
        /\ Shows(x.layer, x.path) => x.hash = <<x.layer, x.path>>}
EvInv == evOf \in EventWorlds /\ evPc \in [Events -> EventPcs] /\ DOMAIN evOwner = Events /\ DOMAIN evRes = Events
WorkInv == IsFiniteSet(AtWork) /\ Cardinality(AtWork) <= Workers
ChanInv ==
    /\ engRunning \in BOOLEAN /\ engClosed \in BOOLEAN /\ engPanic \in BOOLEAN
    /\ engDispatch \in {"off", "loop", "sem", "end"}
    /\ engChan \in Seq(Events) /\ Len(engChan) <= EventBuf
    /\ engDispatch = "end" => engClosed /\ engChan = <<>>
    /\ engDispatch = "sem" => \E e \in Events : engHead = <<e>>
    /\ \A e \in Events : evPc[e] = "queued" =>
          e \in Range(engChan) \/ (engDispatch = "sem" /\ engHead = <<e>>)
    /\ engStop = "done" => engDispatch = "end" /\ \A e \in Events : evPc[e] \notin Waiting
FlightInv ==
    /\ \A e \in Events : evPc[e] \in Leading => FlightKey(e) \in DOMAIN flights /\ flights[FlightKey(e)] = e
    /\ \A e \in Events : evPc[e] = "join" => FlightKey(e) \in DOMAIN flights
    /\ \A k \in DOMAIN flights :
          flights[k] \in Events /\ evPc[flights[k]] \in Leading /\ FlightKey(flights[k]) = k
HashingInv ==
    /\ \A e \in Events : evPc[e] = "hash" => HashKey(e) \in DOMAIN hashing /\ hashing[HashKey(e)] = e
    /\ \A e \in Events : evPc[e] = "hashjoin" => HashKey(e) \in DOMAIN hashing
    /\ \A k \in DOMAIN hashing :
          hashing[k] \in Events /\ evPc[hashing[k]] = "hash" /\ HashKey(hashing[k]) = k
OwnerInv ==
    \A e \in Events : evPc[e] \in {"second", "hash", "hashjoin", "store"} =>
        evOwner[e] = FindOwner(evOf[e].stack, Path(e)) /\ evOwner[e] # NoOwner
ResultInv ==
    \A e \in Events :
        /\ evPc[e] = "store" => evRes[e].hash = HashKey(e)
        /\ evPc[e] = "land" /\ evRes[e].kind # "error" => evRes[e].hash \in Shown(e)
        /\ evPc[e] \in {"builder", "leaf"} => evRes[e].hash \in Shown(e)
CacheInv == lru \in Seq(RightEntries) /\ Len(lru) <= ShardCap
TreeInv ==
    /\ builders \in [Vertices -> Nat] /\ gens \in [Vertices -> Nat] /\ sealing \in [Vertices -> Nat]
    /\ \A k \in DOMAIN leaves : k \in Vertices \X (Nat \ {0})
    /\ BuilderReachable
EngInv ==
    /\ EvInv /\ WorkInv /\ ChanInv /\ FlightInv /\ HashingInv /\ OwnerInv /\ ResultInv /\ CacheInv /\ TreeInv

-----------------------------------------------------------------------------
(* What each step does to where the events are.                            *)
LEMMA EvMoved ==
    ASSUME evPc \in [Events -> EventPcs], NEW e \in Events, NEW from, NEW to \in EventPcs, EvAt(e, from, to)
    PROVE  /\ evPc' \in [Events -> EventPcs] /\ evPc[e] = from /\ evPc'[e] = to
           /\ \A q \in Events : q # e => evPc'[q] = evPc[q]
BY DEF EvAt
LEMMA WorkerFrame == ASSUME NEW e \in Events, WorkerStep(e) PROVE UNCHANGED pipeVars /\ evOf' = evOf
BY DEF WorkerStep, LookupTop, ResolveOwner, LookupOwner, HashFile, StoreHash, Land, GetBuilder, AddLeaf, pipeVars

\* A worker's step moves events that are with workers, on or out.
OnOrOut == Waiting \cup {"done"}
LEMMA MoveShape ==
    ASSUME EvInv, NEW e \in Events, NEW from \in Waiting, NEW to \in OnOrOut, EvAt(e, from, to)
    PROVE  /\ evPc' \in [Events -> EventPcs]
           /\ \A q \in Events : evPc'[q] # evPc[q] => evPc[q] \in Waiting /\ evPc'[q] \in OnOrOut
<1>1. to \in EventPcs
  BY DEF OnOrOut, EventPcs
<1>2. QED
  BY <1>1, EvMoved DEF EvInv
LEMMA WorkerShape ==
    ASSUME EvInv, NEW e \in Events, WorkerStep(e)
    PROVE  /\ EvInv'
           /\ \A q \in Events : evPc'[q] # evPc[q] => evPc[q] \in Waiting /\ evPc'[q] \in OnOrOut
<1> DEFINE Goal == /\ evPc' \in [Events -> EventPcs]
                   /\ \A q \in Events : evPc'[q] # evPc[q] => evPc[q] \in Waiting /\ evPc'[q] \in OnOrOut
<1>1. ASSUME LookupTop(e) PROVE Goal /\ DOMAIN evOwner' = Events /\ DOMAIN evRes' = Events
  <2>1. \E to \in {"builder", "join", "owner"} : EvAt(e, "top", to)
    BY <1>1, Zenon DEF LookupTop
  <2>2. PICK to \in {"builder", "join", "owner"} : EvAt(e, "top", to)
    BY <2>1
  <2>3. "top" \in Waiting /\ to \in OnOrOut
    BY <2>2 DEF Waiting, OnOrOut
  <2>4. Goal
    BY <2>2, <2>3, MoveShape
  <2>5. DOMAIN evRes' = DOMAIN evRes /\ evOwner' = evOwner
    BY <1>1 DEF LookupTop
  <2>6. QED
    BY <2>4, <2>5 DEF EvInv
<1>2. ASSUME ResolveOwner(e) PROVE Goal /\ DOMAIN evOwner' = Events /\ DOMAIN evRes' = Events
  <2>1. \E to \in {"second", "land"} : EvAt(e, "owner", to)
    BY <1>2, Zenon DEF ResolveOwner
  <2>2. PICK to \in {"second", "land"} : EvAt(e, "owner", to)
    BY <2>1
  <2>3. "owner" \in Waiting /\ to \in OnOrOut
    BY <2>2 DEF Waiting, OnOrOut
  <2>4. Goal
    BY <2>2, <2>3, MoveShape
  <2>5. DOMAIN evRes' = DOMAIN evRes /\ DOMAIN evOwner' = DOMAIN evOwner
    BY <1>2 DEF ResolveOwner
  <2>6. QED
    BY <2>4, <2>5 DEF EvInv
<1>3. ASSUME LookupOwner(e) PROVE Goal /\ DOMAIN evOwner' = Events /\ DOMAIN evRes' = Events
  <2>1. \E to \in {"land", "hashjoin", "hash"} : EvAt(e, "second", to)
    BY <1>3, Zenon DEF LookupOwner
  <2>2. PICK to \in {"land", "hashjoin", "hash"} : EvAt(e, "second", to)
    BY <2>1
  <2>3. "second" \in Waiting /\ to \in OnOrOut
    BY <2>2 DEF Waiting, OnOrOut
  <2>4. Goal
    BY <2>2, <2>3, MoveShape
  <2>5. DOMAIN evRes' = DOMAIN evRes /\ evOwner' = evOwner
    BY <1>3 DEF LookupOwner
  <2>6. QED
    BY <2>4, <2>5 DEF EvInv
<1>4. ASSUME HashFile(e) PROVE Goal /\ DOMAIN evOwner' = Events /\ DOMAIN evRes' = Events
  <2>1. PICK ok \in BOOLEAN :
            evPc' = [q \in Events |-> IF evPc[q] \in {"hash", "hashjoin"} /\ <<evOwner[q], Path(q)>> = <<evOwner[e], Path(e)>>
                                      THEN IF ok THEN "store" ELSE "land" ELSE evPc[q]]
    BY <1>4 DEF HashFile
  <2>2. \A q \in Events : evPc'[q] = evPc[q] \/ (evPc[q] \in {"hash", "hashjoin"} /\ evPc'[q] \in {"store", "land"})
    BY <2>1
  <2>3. evPc' \in [Events -> EventPcs]
    BY <2>1 DEF EvInv, EventPcs, Waiting
  <2>4. Goal
    BY <2>2, <2>3 DEF Waiting, OnOrOut
  <2>5. DOMAIN evRes' = Events /\ evOwner' = evOwner
    BY <1>4 DEF HashFile
  <2>6. QED
    BY <2>4, <2>5 DEF EvInv
<1>5. ASSUME StoreHash(e) PROVE Goal /\ DOMAIN evOwner' = Events /\ DOMAIN evRes' = Events
  <2>1. EvAt(e, "store", "land") /\ "store" \in Waiting /\ "land" \in OnOrOut
    BY <1>5 DEF StoreHash, Waiting, OnOrOut
  <2>2. Goal
    BY <2>1, MoveShape
  <2>3. QED
    BY <1>5, <2>2 DEF EvInv, StoreHash
<1>6. ASSUME Land(e) PROVE Goal /\ DOMAIN evOwner' = Events /\ DOMAIN evRes' = Events
  <2>1. PICK next \in {"done", "builder"} :
            evPc' = [q \in Events |-> IF q \in {r \in Events : r = e \/ (evPc[r] = "join" /\ FlightKey(r) = FlightKey(e))}
                                      THEN next ELSE evPc[q]]
    BY <1>6 DEF Land
  <2>2. \A q \in Events : evPc'[q] = evPc[q] \/ (evPc[q] \in {"land", "join"} /\ evPc'[q] \in {"done", "builder"})
    BY <1>6, <2>1 DEF Land
  <2>3. evPc' \in [Events -> EventPcs]
    BY <2>1 DEF EvInv, EventPcs, Waiting
  <2>4. Goal
    BY <2>2, <2>3 DEF Waiting, OnOrOut
  <2>5. DOMAIN evRes' = Events /\ evOwner' = evOwner
    BY <1>6 DEF Land
  <2>6. QED
    BY <2>4, <2>5 DEF EvInv
<1>7. ASSUME GetBuilder(e) PROVE Goal /\ DOMAIN evOwner' = Events /\ DOMAIN evRes' = Events
  <2>1. EvAt(e, "builder", "leaf") /\ "builder" \in Waiting /\ "leaf" \in OnOrOut
    BY <1>7 DEF GetBuilder, Waiting, OnOrOut
  <2>2. Goal
    BY <2>1, MoveShape
  <2>3. QED
    BY <1>7, <2>2 DEF EvInv, GetBuilder
<1>8. ASSUME AddLeaf(e) PROVE Goal /\ DOMAIN evOwner' = Events /\ DOMAIN evRes' = Events
  <2>1. EvAt(e, "leaf", "done") /\ "leaf" \in Waiting /\ "done" \in OnOrOut
    BY <1>8 DEF AddLeaf, Waiting, OnOrOut
  <2>2. Goal
    BY <2>1, MoveShape
  <2>3. QED
    BY <1>8, <2>2 DEF EvInv, AddLeaf
<1>9. Goal /\ DOMAIN evOwner' = Events /\ DOMAIN evRes' = Events
  BY <1>1, <1>2, <1>3, <1>4, <1>5, <1>6, <1>7, <1>8, Zenon DEF WorkerStep
<1>10. evOf' = evOf
  BY WorkerFrame
<1>11. QED
  BY <1>9, <1>10 DEF EvInv

\* The other steps: submitting, sending, dispatching, stopping and finalizing.
Outside(e) == Submit(e) \/ Send(e)
Managing ==
    Start \/ Stop \/ StopReturns \/ Cancel \/ \E v \in Vertices : FinalizeTake(v) \/ FinalizeSeal(v)
LEMMA StepKinds ==
    ASSUME EngNext
    PROVE  Managing \/ Dispatch \/ StartWorker \/ \E e \in Events : Outside(e) \/ WorkerStep(e)
BY Zenon DEF EngNext, DispatchStep, Managing, Outside
LEMMA ManagingShape == ASSUME Managing PROVE UNCHANGED workVars
BY DEF Managing, Start, Stop, StopReturns, Cancel, FinalizeTake, FinalizeSeal
ResolvedSame == UNCHANGED <<evOf, evOwner, evRes, evBuilder, lru, flights, hashing, treeVars>>
LEMMA OutsideShape ==
    ASSUME EvInv, NEW e \in Events, Outside(e)
    PROVE  /\ ResolvedSame /\ EvInv'
           /\ \A q \in Events : q # e => evPc'[q] = evPc[q]
           /\ evPc[e] \in {"idle", "sending"} /\ evPc'[e] \in {"sending", "queued", "dropped", "skipped"}
<1>1. ASSUME Submit(e)
      PROVE  ResolvedSame /\ \E to \in {"sending", "dropped", "skipped"} : EvAt(e, "idle", to)
  BY <1>1, Zenon DEF Submit, ResolvedSame
<1>2. ASSUME Send(e)
      PROVE  /\ ResolvedSame /\ evPc[e] = "sending"
             /\ (\E to \in {"queued", "dropped"} : EvAt(e, "sending", to)) \/ evPc' = evPc
  BY <1>2, Zenon DEF Send, ResolvedSame
<1>3. /\ ResolvedSame
      /\ (\E to \in {"sending", "queued", "dropped", "skipped"} : EvAt(e, "idle", to) \/ EvAt(e, "sending", to))
         \/ (evPc' = evPc /\ evPc[e] = "sending")
  BY <1>1, <1>2 DEF Outside
<1>4. /\ evPc' \in [Events -> EventPcs]
      /\ \A q \in Events : q # e => evPc'[q] = evPc[q]
      /\ evPc[e] \in {"idle", "sending"} /\ evPc'[e] \in {"sending", "queued", "dropped", "skipped"}
  <2>1. CASE evPc' = evPc /\ evPc[e] = "sending"
    BY <2>1 DEF EvInv
  <2>2. ASSUME NEW to \in {"sending", "queued", "dropped", "skipped"}, NEW from \in {"idle", "sending"}, EvAt(e, from, to)
        PROVE  <1>4!:
    <3>1. to \in EventPcs
      BY DEF EventPcs
    <3>2. QED
      BY <2>2, <3>1, EvMoved DEF EvInv
  <2>3. QED
    BY <1>3, <2>1, <2>2
<1>5. QED
  BY <1>3, <1>4 DEF EvInv, ResolvedSame
LEMMA DispatchShape ==
    ASSUME EvInv, ChanInv, Dispatch
    PROVE  /\ ResolvedSame /\ EvInv'
           /\ \A q \in Events : evPc'[q] # evPc[q] => evPc[q] = "queued" /\ evPc'[q] = "dropped"
<1>1. ResolvedSame
  BY DEF Dispatch, ResolvedSame
<1>2. evPc' = evPc \/ (engChan # <<>> /\ EvAt(Head(engChan), "queued", "dropped"))
  BY Zenon DEF Dispatch
<1>3. /\ evPc' \in [Events -> EventPcs]
      /\ \A q \in Events : evPc'[q] # evPc[q] => evPc[q] = "queued" /\ evPc'[q] = "dropped"
  <2>1. CASE evPc' = evPc
    BY <2>1 DEF EvInv
  <2>2. CASE engChan # <<>> /\ EvAt(Head(engChan), "queued", "dropped")
    <3>1. Head(engChan) \in Events /\ "dropped" \in EventPcs
      BY <2>2, QueueGet DEF ChanInv, EventPcs
    <3>2. QED
      BY <2>2, <3>1, EvMoved DEF EvInv
  <2>3. QED
    BY <1>2, <2>1, <2>2
<1>4. QED
  BY <1>1, <1>3 DEF EvInv, ResolvedSame
LEMMA StartWorkerShape ==
    ASSUME EvInv, ChanInv, StartWorker
    PROVE  /\ ResolvedSame /\ EvInv'
           /\ \E e \in Events : /\ engHead = <<e>> /\ evPc[e] = "queued" /\ evPc'[e] = "top"
                                /\ \A q \in Events : q # e => evPc'[q] = evPc[q]
<1>1. ResolvedSame /\ engDispatch = "sem" /\ EvAt(engHead[1], "queued", "top")
  BY DEF StartWorker, ResolvedSame
<1>2. PICK e \in Events : engHead = <<e>>
  BY <1>1 DEF ChanInv
<1>3. EvAt(e, "queued", "top") /\ "top" \in EventPcs
  BY <1>1, <1>2 DEF EventPcs, Waiting
<1>4. QED
  BY <1>1, <1>2, <1>3, EvMoved DEF EvInv, ResolvedSame

\* None of them touches what a worker has begun.
Begun == Waiting \ {"top"}
LEMMA OtherShape ==
    ASSUME EvInv, ChanInv, Managing \/ Dispatch \/ StartWorker \/ \E e \in Events : Outside(e)
    PROVE  /\ EvInv' /\ UNCHANGED <<evOf, evOwner, evRes, lru, flights, hashing>>
           /\ \A q \in Events : evPc'[q] # evPc[q] => evPc[q] \notin Begun /\ evPc'[q] \notin Begun
<1>1. CASE Managing
  BY <1>1, ManagingShape DEF workVars, EvInv
<1>2. CASE Dispatch
  BY <1>2, DispatchShape DEF ResolvedSame, Begun, Waiting
<1>3. CASE StartWorker
  <2>1. PICK e \in Events : /\ evPc[e] = "queued" /\ evPc'[e] = "top"
                            /\ \A q \in Events : q # e => evPc'[q] = evPc[q]
    BY <1>3, StartWorkerShape
  <2>2. \A q \in Events : evPc'[q] # evPc[q] => evPc[q] \notin Begun /\ evPc'[q] \notin Begun
    BY <2>1 DEF Begun, Waiting
  <2>3. QED
    BY <1>3, <2>2, StartWorkerShape DEF ResolvedSame
<1>4. ASSUME NEW e \in Events, Outside(e)
      PROVE  /\ EvInv' /\ UNCHANGED <<evOf, evOwner, evRes, lru, flights, hashing>>
             /\ \A q \in Events : evPc'[q] # evPc[q] => evPc[q] \notin Begun /\ evPc'[q] \notin Begun
  <2>1. /\ evPc[e] \in {"idle", "sending"} /\ evPc'[e] \in {"sending", "queued", "dropped", "skipped"}
        /\ \A q \in Events : q # e => evPc'[q] = evPc[q]
    BY <1>4, OutsideShape
  <2>2. \A q \in Events : evPc'[q] # evPc[q] => evPc[q] \notin Begun /\ evPc'[q] \notin Begun
    BY <2>1 DEF Begun, Waiting
  <2>3. QED
    BY <1>4, <2>2, OutsideShape DEF ResolvedSame
<1>5. QED
  BY <1>1, <1>2, <1>3, <1>4
LEMMA NextKinds ==
    ASSUME EngNext
    PROVE  (Managing \/ Dispatch \/ StartWorker \/ \E e \in Events : Outside(e)) \/ \E e \in Events : WorkerStep(e)
BY StepKinds
LEMMA EvKept == ASSUME EvInv, ChanInv, EngNext PROVE EvInv'
BY NextKinds, OtherShape, WorkerShape

-----------------------------------------------------------------------------
(* The workers and the channel.                                            *)
LEMMA FewerAtWork == ASSUME WorkInv, \A q \in Events : evPc'[q] \in Waiting => evPc[q] \in Waiting PROVE WorkInv'
<1>1. AtWork' \in SUBSET AtWork
  BY DEF AtWork
<1>2. IsFiniteSet(AtWork') /\ Cardinality(AtWork') <= Cardinality(AtWork)
  BY <1>1, FS_Subset DEF WorkInv
<1>3. Cardinality(AtWork') \in Int /\ Cardinality(AtWork) \in Int /\ Workers \in Int
  BY <1>2, FS_CardinalityType, EngineAssumption DEF WorkInv
<1> HIDE DEF AtWork
<1>4. QED
  BY <1>2, <1>3 DEF WorkInv
LEMMA WorkKept == ASSUME EvInv, ChanInv, WorkInv, EngNext PROVE WorkInv'
<1>1. CASE StartWorker
  <2>1. PICK e \in Events : /\ evPc[e] = "queued" /\ evPc'[e] = "top"
                            /\ \A q \in Events : q # e => evPc'[q] = evPc[q]
    BY <1>1, StartWorkerShape
  <2>2. AtWork' = AtWork \cup {e} /\ e \notin AtWork
    BY <2>1 DEF AtWork, Waiting
  <2>3. Cardinality(AtWork) < Workers
    BY <1>1 DEF StartWorker, AtWork
  <2>4. IsFiniteSet(AtWork') /\ Cardinality(AtWork') = Cardinality(AtWork) + 1
    BY <2>2, FS_AddElement DEF WorkInv
  <2>5. Cardinality(AtWork) \in Int /\ Workers \in Int
    BY FS_CardinalityType, EngineAssumption DEF WorkInv
  <2> HIDE DEF AtWork
  <2>6. QED
    BY <2>3, <2>4, <2>5 DEF WorkInv
<1>2. CASE Managing
  BY <1>2, ManagingShape, FewerAtWork DEF workVars
<1>3. CASE Dispatch
  <2>1. \A q \in Events : evPc'[q] \in Waiting => evPc[q] \in Waiting
    BY <1>3, DispatchShape DEF Waiting
  <2>2. QED
    BY <2>1, FewerAtWork
<1>4. ASSUME NEW e \in Events, Outside(e) PROVE WorkInv'
  <2>1. \A q \in Events : evPc'[q] \in Waiting => evPc[q] \in Waiting
    BY <1>4, OutsideShape DEF Waiting
  <2>2. QED
    BY <2>1, FewerAtWork
<1>5. ASSUME NEW e \in Events, WorkerStep(e) PROVE WorkInv'
  <2>1. \A q \in Events : evPc'[q] \in Waiting => evPc[q] \in Waiting
    BY <1>5, WorkerShape
  <2>2. QED
    BY <2>1, FewerAtWork
<1>6. QED
  BY <1>1, <1>2, <1>3, <1>4, <1>5, StepKinds
LEMMA ChanKept == ASSUME EvInv, ChanInv, EngNext PROVE ChanInv'
<1>1. CASE Start
  <2>1. /\ engRunning' = TRUE /\ engDispatch = "off" /\ engDispatch' = "loop"
        /\ UNCHANGED <<engChan, engClosed, engHead, engStop, engPanic, evPc>>
    BY <1>1 DEF Start, workVars
  <2>2. QED
    BY <2>1 DEF ChanInv
<1>2. CASE Stop
  <2>1. /\ engRunning' = FALSE /\ engClosed' = TRUE /\ engStop' = "waiting"
        /\ UNCHANGED <<engChan, engDispatch, engHead, engPanic, evPc>>
    BY <1>2 DEF Stop, workVars
  <2>2. QED
    BY <2>1 DEF ChanInv
<1>3. CASE StopReturns
  <2>1. /\ engDispatch = "end" /\ \A e \in Events : evPc[e] \notin Waiting
        /\ UNCHANGED <<engRunning, engChan, engClosed, engDispatch, engHead, engPanic, evPc>>
    BY <1>3 DEF StopReturns, workVars
  <2>2. QED
    BY <2>1 DEF ChanInv
<1>4. CASE Cancel \/ \E v \in Vertices : FinalizeTake(v) \/ FinalizeSeal(v)
  <2>1. UNCHANGED <<engRunning, engChan, engClosed, engDispatch, engHead, engStop, engPanic, evPc>>
    BY <1>4 DEF Cancel, FinalizeTake, FinalizeSeal, pipeVars, workVars
  <2>2. QED
    BY <2>1 DEF ChanInv
<1>5. ASSUME NEW e \in Events, Submit(e) PROVE ChanInv'
  <2>1. UNCHANGED <<engRunning, engChan, engClosed, engDispatch, engHead, engStop, engPanic>>
    BY <1>5 DEF Submit, pipeVars
  <2>2. PICK to \in {"sending", "dropped", "skipped"} : EvAt(e, "idle", to)
    <3>1. \E to \in {"sending", "dropped", "skipped"} : EvAt(e, "idle", to)
      BY <1>5, Zenon DEF Submit
    <3>2. QED
      BY <3>1
  <2>3. to \in EventPcs
    BY <2>2 DEF EventPcs
  <2>4. evPc'[e] = to /\ \A q \in Events : q # e => evPc'[q] = evPc[q]
    BY <2>2, <2>3, EvMoved DEF EvInv
  <2>5. \A q \in Events : /\ evPc'[q] = "queued" => evPc[q] = "queued"
                          /\ evPc'[q] \in Waiting => evPc[q] \in Waiting
    BY <2>2, <2>4 DEF Waiting
  <2>6. QED
    BY <2>1, <2>5 DEF ChanInv
<1>6. ASSUME NEW e \in Events, Send(e) PROVE ChanInv'
  <2>1. /\ UNCHANGED <<engRunning, engClosed, engDispatch, engHead, engStop>>
        /\ evPc[e] = "sending"
    BY <1>6 DEF Send
  <2>2. CASE engClosed /\ engPanic' = TRUE /\ UNCHANGED <<evPc, engChan>>
    BY <2>1, <2>2 DEF ChanInv
  <2>3. CASE /\ ~engClosed /\ Len(engChan) < EventBuf
             /\ engChan' = Append(engChan, e) /\ EvAt(e, "sending", "queued") /\ UNCHANGED engPanic
    <3>1. engChan' \in Seq(Events) /\ Range(engChan') = Range(engChan) \cup {e}
      BY <2>3, QueuePut DEF ChanInv
    <3>2. Len(engChan') <= EventBuf
      <4>1. Len(engChan') = Len(engChan) + 1 /\ Len(engChan) \in Nat /\ EventBuf \in Nat
        BY <2>3, AppendProperties, LenProperties, EngineAssumption DEF ChanInv
      <4>2. QED
        BY <2>3, <4>1
    <3>3. "queued" \in EventPcs
      BY DEF EventPcs
    <3>4. evPc'[e] = "queued" /\ \A q \in Events : q # e => evPc'[q] = evPc[q]
      BY <2>3, <3>3, EvMoved DEF EvInv
    <3>5. engDispatch # "end"
      BY <2>3 DEF ChanInv
    <3>6. \A q \in Events : evPc'[q] = "queued" =>
              q \in Range(engChan') \/ (engDispatch' = "sem" /\ engHead' = <<q>>)
      BY <2>1, <3>1, <3>4 DEF ChanInv
    <3>7. engPanic' = engPanic
      BY <2>3
    <3>8. QED
      BY <2>1, <3>1, <3>2, <3>5, <3>6, <3>7 DEF ChanInv
  <2>4. CASE /\ ~engClosed /\ (Len(engChan) >= EventBuf \/ engCtx)
             /\ EvAt(e, "sending", "dropped") /\ UNCHANGED <<engChan, engPanic>>
    <3>1. "dropped" \in EventPcs
      BY DEF EventPcs
    <3>2. evPc'[e] = "dropped" /\ \A q \in Events : q # e => evPc'[q] = evPc[q]
      BY <2>4, <3>1, EvMoved DEF EvInv
    <3>3. \A q \in Events : /\ evPc'[q] = "queued" => evPc[q] = "queued"
                            /\ evPc'[q] \in Waiting => evPc[q] \in Waiting
      BY <3>2 DEF Waiting
    <3>4. engChan' = engChan /\ engPanic' = engPanic
      BY <2>4
    <3>5. QED
      BY <2>1, <3>3, <3>4 DEF ChanInv
  <2>5. QED
    BY <1>6, <2>2, <2>3, <2>4, Zenon DEF Send
<1>7. CASE Dispatch
  <2>1. /\ engDispatch = "loop" /\ UNCHANGED <<engRunning, engClosed, engStop, engPanic>>
    BY <1>7 DEF Dispatch
  <2>2. \A q \in Events : evPc'[q] # evPc[q] => evPc[q] = "queued" /\ evPc'[q] = "dropped"
    BY <1>7, DispatchShape
  <2>3. CASE engChan = <<>>
    <3>1. engClosed /\ engDispatch' = "end" /\ engChan' = <<>> /\ UNCHANGED <<engHead, evPc>>
      BY <1>7, <2>3 DEF Dispatch
    <3>2. Range(engChan) = {}
      BY <2>3, QueueNone
    <3>3. QED
      BY <2>1, <2>3, <3>1, <3>2 DEF ChanInv
  <2>4. CASE engChan # <<>>
    <3> DEFINE h == Head(engChan)
    <3>1. engChan' = Tail(engChan)
      BY <1>7, <2>4 DEF Dispatch
    <3>2. h \in Events /\ engChan' \in Seq(Events) /\ Range(engChan) = Range(engChan') \cup {h}
      BY <2>4, <3>1, QueueGet DEF ChanInv
    <3>3. Len(engChan') <= EventBuf
      <4>1. Len(engChan') = Len(engChan) - 1 /\ Len(engChan) \in Nat /\ EventBuf \in Nat
        BY <2>4, <3>1, HeadTailProperties, LenProperties, EngineAssumption DEF ChanInv
      <4>2. QED
        BY <4>1 DEF ChanInv
    <3>4. CASE engCtx
      <4>1. EvAt(h, "queued", "dropped") /\ UNCHANGED <<engDispatch, engHead>>
        BY <1>7, <2>4, <3>4 DEF Dispatch
      <4>2. "dropped" \in EventPcs
        BY DEF EventPcs
      <4>3. evPc'[h] = "dropped" /\ \A q \in Events : q # h => evPc'[q] = evPc[q]
        BY <3>2, <4>1, <4>2, EvMoved DEF EvInv
      <4> HIDE DEF h
      <4>4. \A q \in Events : evPc'[q] = "queued" => q \in Range(engChan')
        BY <2>1, <3>2, <4>3 DEF ChanInv
      <4>5. QED
        BY <2>1, <3>2, <3>3, <4>1, <4>4 DEF ChanInv
    <3>5. CASE ~engCtx
      <4>1. engDispatch' = "sem" /\ engHead' = <<h>> /\ UNCHANGED evPc
        BY <1>7, <2>4, <3>5 DEF Dispatch
      <4> HIDE DEF h
      <4>2. \A q \in Events : evPc'[q] = "queued" =>
                q \in Range(engChan') \/ (engDispatch' = "sem" /\ engHead' = <<q>>)
        BY <2>1, <3>2, <4>1 DEF ChanInv
      <4>3. engStop # "done"
        BY <2>1 DEF ChanInv
      <4>4. QED
        BY <2>1, <3>2, <3>3, <4>1, <4>2, <4>3 DEF ChanInv
    <3>6. QED
      BY <3>4, <3>5
  <2>5. QED
    BY <2>3, <2>4
<1>8. CASE StartWorker
  <2>1. /\ engDispatch = "sem" /\ engDispatch' = "loop"
        /\ UNCHANGED <<engRunning, engChan, engClosed, engStop, engPanic>>
    BY <1>8 DEF StartWorker
  <2>2. PICK e \in Events : /\ engHead = <<e>> /\ evPc'[e] = "top"
                            /\ \A q \in Events : q # e => evPc'[q] = evPc[q]
    BY <1>8, StartWorkerShape
  <2>3. \A q \in Events : evPc'[q] = "queued" => q \in Range(engChan')
    BY <2>1, <2>2 DEF ChanInv
  <2>4. QED
    BY <2>1, <2>3 DEF ChanInv
<1>9. ASSUME NEW e \in Events, WorkerStep(e) PROVE ChanInv'
  <2>1. UNCHANGED <<engRunning, engChan, engClosed, engDispatch, engHead, engStop, engPanic>>
    BY <1>9, WorkerFrame DEF pipeVars
  <2>2. \A q \in Events : evPc'[q] # evPc[q] => evPc[q] \in Waiting /\ evPc'[q] \in OnOrOut
    BY <1>9, WorkerShape
  <2>3. \A q \in Events : /\ evPc'[q] = "queued" => evPc[q] = "queued"
                          /\ evPc'[q] \in Waiting => evPc[q] \in Waiting
    BY <2>2 DEF Waiting, OnOrOut
  <2>4. QED
    BY <2>1, <2>3 DEF ChanInv
<1>10. QED
  BY <1>1, <1>2, <1>3, <1>4, <1>5, <1>6, <1>7, <1>8, <1>9, StepKinds DEF Managing, Outside

-----------------------------------------------------------------------------
(* The two groups of coalesced calls.                                      *)
LEMMA FlightFrame ==
    ASSUME FlightInv, evOf' = evOf, flights' = flights,
           \A q \in Events : /\ evPc'[q] \in Leading <=> evPc[q] \in Leading
                             /\ evPc'[q] = "join" <=> evPc[q] = "join"
    PROVE  FlightInv'
<1>1. \A q : FlightKey(q)' = FlightKey(q)
  BY DEF FlightKey, Path
<1>2. QED
  BY <1>1 DEF FlightInv
LEMMA FlightKept == ASSUME EvInv, ChanInv, FlightInv, EngNext PROVE FlightInv'
<1>1. CASE Managing \/ Dispatch \/ StartWorker \/ \E e \in Events : Outside(e)
  <2>1. /\ evOf' = evOf /\ flights' = flights
        /\ \A q \in Events : evPc'[q] # evPc[q] => evPc[q] \notin Begun /\ evPc'[q] \notin Begun
    BY <1>1, OtherShape
  <2>2. \A q \in Events : /\ evPc'[q] \in Leading <=> evPc[q] \in Leading
                          /\ evPc'[q] = "join" <=> evPc[q] = "join"
    BY <2>1 DEF Begun, Waiting, Leading
  <2>3. QED
    BY <2>1, <2>2, FlightFrame
<1>2. ASSUME NEW e \in Events, LookupTop(e) PROVE FlightInv'
  <2>1. evOf' = evOf /\ evPc[e] = "top"
    BY <1>2 DEF LookupTop, EvAt
  <2>2. \A q : FlightKey(q)' = FlightKey(q)
    BY <2>1 DEF FlightKey, Path
  <2> DEFINE k == FlightKey(e)
  <2>3. CASE EvAt(e, "top", "builder") /\ flights' = flights
    <3>1. "builder" \in EventPcs
      BY DEF EventPcs, Waiting
    <3>2. evPc'[e] = "builder" /\ \A q \in Events : q # e => evPc'[q] = evPc[q]
      BY <2>3, <3>1, EvMoved DEF EvInv
    <3>3. \A q \in Events : /\ evPc'[q] \in Leading <=> evPc[q] \in Leading
                            /\ evPc'[q] = "join" <=> evPc[q] = "join"
      BY <2>1, <3>2 DEF Leading
    <3>4. QED
      BY <2>1, <2>3, <3>3, FlightFrame
  <2>4. CASE k \in DOMAIN flights /\ EvAt(e, "top", "join") /\ flights' = flights
    <3>1. "join" \in EventPcs
      BY DEF EventPcs, Waiting
    <3>2. evPc'[e] = "join" /\ \A q \in Events : q # e => evPc'[q] = evPc[q]
      BY <2>4, <3>1, EvMoved DEF EvInv
    <3>3. evPc'[e] \notin Leading /\ evPc[e] \notin Leading
      BY <2>1, <3>2 DEF Leading
    <3>4. QED
      BY <2>2, <2>4, <3>2, <3>3 DEF FlightInv
  <2>5. CASE k \notin DOMAIN flights /\ EvAt(e, "top", "owner") /\ flights' = WithKey(flights, k, e)
    <3>1. "owner" \in EventPcs
      BY DEF EventPcs, Waiting
    <3>2. evPc'[e] = "owner" /\ \A q \in Events : q # e => evPc'[q] = evPc[q]
      BY <2>5, <3>1, EvMoved DEF EvInv
    <3>3. evPc'[e] \in Leading /\ evPc[e] \notin Leading
      BY <2>1, <3>2 DEF Leading
    <3> HIDE DEF k
    <3>4. DOMAIN flights' = DOMAIN flights \cup {k}
      BY <2>5 DEF WithKey
    <3>5. flights'[k] = e /\ \A j \in DOMAIN flights : flights'[j] = flights[j]
      BY <2>5 DEF WithKey
    <3>6. \A q \in Events : evPc'[q] \in Leading => FlightKey(q) \in DOMAIN flights' /\ flights'[FlightKey(q)] = q
      <4>1. ASSUME NEW q \in Events, evPc'[q] \in Leading, q # e
            PROVE  FlightKey(q) \in DOMAIN flights' /\ flights'[FlightKey(q)] = q
        <5>1. FlightKey(q) \in DOMAIN flights /\ flights[FlightKey(q)] = q
          BY <3>2, <4>1 DEF FlightInv
        <5>2. QED
          BY <3>4, <3>5, <5>1
      <4>2. FlightKey(e) \in DOMAIN flights' /\ flights'[FlightKey(e)] = e
        BY <3>4, <3>5 DEF k
      <4>3. QED
        BY <4>1, <4>2
    <3>7. \A q \in Events : evPc'[q] = "join" => FlightKey(q) \in DOMAIN flights'
      BY <3>2, <3>4 DEF FlightInv
    <3>8. ASSUME NEW j \in DOMAIN flights'
          PROVE  flights'[j] \in Events /\ evPc'[flights'[j]] \in Leading /\ FlightKey(flights'[j]) = j
      <4>1. CASE j = k
        BY <3>3, <3>5, <4>1 DEF k
      <4>2. CASE j \in DOMAIN flights
        <5>1. flights[j] \in Events /\ evPc[flights[j]] \in Leading /\ FlightKey(flights[j]) = j
          BY <4>2 DEF FlightInv
        <5>2. flights[j] # e
          BY <3>3, <5>1
        <5>3. QED
          BY <3>2, <3>5, <4>2, <5>1, <5>2
      <4>3. QED
        BY <3>4, <4>1, <4>2
    <3>9. QED
      BY <2>2, <3>6, <3>7, <3>8 DEF FlightInv
  <2>6. QED
    BY <1>2, <2>3, <2>4, <2>5, Zenon DEF LookupTop
<1>3. ASSUME NEW e \in Events, Land(e) PROVE FlightInv'
  <2> DEFINE k == FlightKey(e)
             with == {q \in Events : q = e \/ (evPc[q] = "join" /\ FlightKey(q) = k)}
  <2>1. evOf' = evOf /\ evPc[e] = "land" /\ flights' = Restrict(flights, DOMAIN flights \ {k})
    BY <1>3 DEF Land
  <2>2. \A q : FlightKey(q)' = FlightKey(q)
    BY <2>1 DEF FlightKey, Path
  <2>3. \A q \in Events : evPc'[q] = IF q \in with THEN IF evRes[e].kind = "error" THEN "done" ELSE "builder" ELSE evPc[q]
    BY <1>3 DEF Land
  <2>4. DOMAIN flights' = DOMAIN flights \ {k} /\ \A j \in DOMAIN flights' : flights'[j] = flights[j]
    BY <2>1 DEF Restrict
  <2>5. \A q \in Events : /\ evPc'[q] \in Leading => evPc[q] \in Leading /\ q # e /\ evPc'[q] = evPc[q]
                          /\ evPc'[q] = "join" => evPc[q] = "join" /\ q \notin with
    BY <2>3 DEF Leading
  <2>6. evPc[e] \in Leading /\ k \in DOMAIN flights /\ flights[k] = e
    BY <2>1 DEF Leading, FlightInv
  <2>7. \A q \in Events : evPc[q] = "join" /\ q \notin with => FlightKey(q) # k
    OBVIOUS
  <2>8. \A q \in Events : q \in with => q = e \/ evPc[q] = "join"
    OBVIOUS
  <2> HIDE DEF with, k
  <2>9. \A q \in Events : evPc'[q] \in Leading => FlightKey(q) \in DOMAIN flights' /\ flights'[FlightKey(q)] = q
    BY <2>4, <2>5, <2>6 DEF FlightInv
  <2>10. \A q \in Events : evPc'[q] = "join" => FlightKey(q) \in DOMAIN flights'
    BY <2>4, <2>5, <2>7 DEF FlightInv
  <2>11. ASSUME NEW j \in DOMAIN flights'
         PROVE  flights'[j] \in Events /\ evPc'[flights'[j]] \in Leading /\ FlightKey(flights'[j]) = j
    <3>1. j \in DOMAIN flights /\ j # k /\ flights'[j] = flights[j]
      BY <2>4
    <3>2. flights[j] \in Events /\ evPc[flights[j]] \in Leading /\ FlightKey(flights[j]) = j
      BY <3>1 DEF FlightInv
    <3>3. flights[j] # e /\ evPc[flights[j]] # "join"
      BY <3>1, <3>2 DEF k, Leading
    <3>4. evPc'[flights[j]] = evPc[flights[j]]
      BY <2>3, <2>8, <3>2, <3>3
    <3>5. QED
      BY <3>1, <3>2, <3>4
  <2>12. QED
    BY <2>2, <2>9, <2>10, <2>11 DEF FlightInv
<1>4. ASSUME NEW e \in Events,
             ResolveOwner(e) \/ LookupOwner(e) \/ HashFile(e) \/ StoreHash(e) \/ GetBuilder(e) \/ AddLeaf(e)
      PROVE  FlightInv'
  <2>1. evOf' = evOf /\ flights' = flights
    BY <1>4 DEF ResolveOwner, LookupOwner, HashFile, StoreHash, GetBuilder, AddLeaf
  <2>2. \A q \in Events : /\ evPc'[q] \in Leading <=> evPc[q] \in Leading
                          /\ evPc'[q] = "join" <=> evPc[q] = "join"
    <3>1. ASSUME HashFile(e) PROVE <2>2!:
      <4>1. \A q \in Events : evPc'[q] = evPc[q] \/ (evPc[q] \in {"hash", "hashjoin"} /\ evPc'[q] \in {"store", "land"})
        BY <3>1 DEF HashFile
      <4>2. QED
        BY <4>1 DEF Leading
    <3>2. ASSUME NEW from \in {"owner", "second", "store"}, NEW to \in {"second", "hash", "hashjoin", "land"},
                 EvAt(e, from, to)
          PROVE  <2>2!:
      <4>1. to \in EventPcs
        BY DEF EventPcs, Waiting
      <4>2. evPc[e] = from /\ evPc'[e] = to /\ \A q \in Events : q # e => evPc'[q] = evPc[q]
        BY <3>2, <4>1, EvMoved DEF EvInv
      <4>3. QED
        BY <4>2 DEF Leading
    <3>3. ASSUME NEW from \in {"builder", "leaf"}, NEW to \in {"leaf", "done"}, EvAt(e, from, to)
          PROVE  <2>2!:
      <4>1. to \in EventPcs
        BY DEF EventPcs, Waiting
      <4>2. evPc[e] = from /\ evPc'[e] = to /\ \A q \in Events : q # e => evPc'[q] = evPc[q]
        BY <3>3, <4>1, EvMoved DEF EvInv
      <4>3. QED
        BY <4>2 DEF Leading
    <3>4. ASSUME ResolveOwner(e) \/ LookupOwner(e) \/ StoreHash(e)
          PROVE  \E from \in {"owner", "second", "store"}, to \in {"second", "hash", "hashjoin", "land"} : EvAt(e, from, to)
      BY <3>4, Zenon DEF ResolveOwner, LookupOwner, StoreHash
    <3>5. ASSUME GetBuilder(e) \/ AddLeaf(e)
          PROVE  \E from \in {"builder", "leaf"}, to \in {"leaf", "done"} : EvAt(e, from, to)
      BY <3>5, Zenon DEF GetBuilder, AddLeaf
    <3>6. CASE HashFile(e)
      BY <3>1, <3>6
    <3>7. CASE ResolveOwner(e) \/ LookupOwner(e) \/ StoreHash(e)
      BY <3>2, <3>4, <3>7
    <3>8. CASE GetBuilder(e) \/ AddLeaf(e)
      BY <3>3, <3>5, <3>8
    <3>9. QED
      BY <1>4, <3>6, <3>7, <3>8
  <2>3. QED
    BY <2>1, <2>2, FlightFrame
<1>5. QED
  BY <1>1, <1>2, <1>3, <1>4, NextKinds DEF WorkerStep

\* A step of one event that neither joins nor leads a read of the hasher.
LEMMA HashingFrame ==
    ASSUME HashingInv, evOf' = evOf, hashing' = hashing,
           \A q \in Events : /\ evPc'[q] = "hash" <=> evPc[q] = "hash"
                             /\ evPc'[q] = "hashjoin" <=> evPc[q] = "hashjoin"
                             /\ evPc[q] \in {"hash", "hashjoin"} => evOwner'[q] = evOwner[q]
    PROVE  HashingInv'
<1>1. \A q \in Events : evPc[q] \in {"hash", "hashjoin"} => HashKey(q)' = HashKey(q)
  BY DEF HashKey, Path
<1>2. QED
  BY <1>1 DEF HashingInv
LEMMA SingleMove ==
    ASSUME EvInv, NEW e \in Events,
           LookupTop(e) \/ ResolveOwner(e) \/ LookupOwner(e) \/ StoreHash(e) \/ GetBuilder(e) \/ AddLeaf(e)
    PROVE  /\ \A q \in Events : q # e => evPc'[q] = evPc[q]
           /\ \/ LookupTop(e) /\ evPc[e] = "top" /\ evPc'[e] \in {"builder", "join", "owner"}
              \/ ResolveOwner(e) /\ evPc[e] = "owner" /\ evPc'[e] \in {"second", "land"}
              \/ LookupOwner(e) /\ evPc[e] = "second" /\ evPc'[e] \in {"land", "hashjoin", "hash"}
              \/ StoreHash(e) /\ evPc[e] = "store" /\ evPc'[e] = "land"
              \/ GetBuilder(e) /\ evPc[e] = "builder" /\ evPc'[e] = "leaf"
              \/ AddLeaf(e) /\ evPc[e] = "leaf" /\ evPc'[e] = "done"
<1> DEFINE Moves(from, tos) == /\ \A q \in Events : q # e => evPc'[q] = evPc[q]
                               /\ evPc[e] = from /\ evPc'[e] \in tos
<1>1. ASSUME NEW from, NEW tos \in SUBSET EventPcs, \E to \in tos : EvAt(e, from, to) PROVE Moves(from, tos)
  <2>1. PICK to \in tos : EvAt(e, from, to)
    BY <1>1
  <2>2. to \in EventPcs
    BY <2>1
  <2>3. QED
    BY <2>1, <2>2, EvMoved DEF EvInv
<1>2. /\ {"builder", "join", "owner"} \in SUBSET EventPcs /\ {"second", "land"} \in SUBSET EventPcs
      /\ {"land", "hashjoin", "hash"} \in SUBSET EventPcs
      /\ {"land"} \in SUBSET EventPcs /\ {"leaf"} \in SUBSET EventPcs /\ {"done"} \in SUBSET EventPcs
  BY DEF EventPcs, Waiting
<1>3. ASSUME LookupTop(e) PROVE \E to \in {"builder", "join", "owner"} : EvAt(e, "top", to)
  BY <1>3, Zenon DEF LookupTop
<1>4. ASSUME ResolveOwner(e) PROVE \E to \in {"second", "land"} : EvAt(e, "owner", to)
  BY <1>4, Zenon DEF ResolveOwner
<1>5. ASSUME LookupOwner(e) PROVE \E to \in {"land", "hashjoin", "hash"} : EvAt(e, "second", to)
  BY <1>5, Zenon DEF LookupOwner
<1>6. ASSUME StoreHash(e) PROVE \E to \in {"land"} : EvAt(e, "store", to)
  BY <1>6, Zenon DEF StoreHash
<1>7. ASSUME GetBuilder(e) PROVE \E to \in {"leaf"} : EvAt(e, "builder", to)
  BY <1>7, Zenon DEF GetBuilder
<1>8. ASSUME AddLeaf(e) PROVE \E to \in {"done"} : EvAt(e, "leaf", to)
  BY <1>8, Zenon DEF AddLeaf
<1>9. CASE LookupTop(e)
  BY <1>1, <1>2, <1>3, <1>9
<1>10. CASE ResolveOwner(e)
  BY <1>1, <1>2, <1>4, <1>10
<1>11. CASE LookupOwner(e)
  BY <1>1, <1>2, <1>5, <1>11
<1>12. CASE StoreHash(e)
  BY <1>1, <1>2, <1>6, <1>12
<1>13. CASE GetBuilder(e)
  BY <1>1, <1>2, <1>7, <1>13
<1>14. CASE AddLeaf(e)
  BY <1>1, <1>2, <1>8, <1>14
<1>15. QED
  BY <1>9, <1>10, <1>11, <1>12, <1>13, <1>14
LEMMA HashingKept == ASSUME EvInv, ChanInv, HashingInv, EngNext PROVE HashingInv'
<1>1. CASE Managing \/ Dispatch \/ StartWorker \/ \E e \in Events : Outside(e)
  <2>1. /\ evOf' = evOf /\ evOwner' = evOwner /\ hashing' = hashing
        /\ \A q \in Events : evPc'[q] # evPc[q] => evPc[q] \notin Begun /\ evPc'[q] \notin Begun
    BY <1>1, OtherShape
  <2>2. \A q \in Events : /\ evPc'[q] = "hash" <=> evPc[q] = "hash"
                          /\ evPc'[q] = "hashjoin" <=> evPc[q] = "hashjoin"
    BY <2>1 DEF Begun, Waiting
  <2>3. QED
    BY <2>1, <2>2, HashingFrame
<1>2. ASSUME NEW e \in Events, LookupTop(e) \/ ResolveOwner(e) \/ StoreHash(e) \/ GetBuilder(e) \/ AddLeaf(e)
      PROVE  HashingInv'
  <2>1. evOf' = evOf /\ hashing' = hashing
    BY <1>2 DEF LookupTop, ResolveOwner, StoreHash, GetBuilder, AddLeaf
  <2>2. \A q \in Events : q # e => evPc'[q] = evPc[q]
    BY <1>2, SingleMove
  <2>3. evPc[e] \notin {"hash", "hashjoin"} /\ (evPc'[e] \notin {"hash", "hashjoin"} \/ LookupOwner(e))
    BY <1>2, SingleMove
  <2>4. evPc'[e] \notin {"hash", "hashjoin"}
    <3>1. evPc[e] # "second" \/ ~LookupOwner(e)
      BY <1>2 DEF LookupTop, ResolveOwner, StoreHash, GetBuilder, AddLeaf, EvAt
    <3>2. LookupOwner(e) => evPc[e] = "second"
      BY DEF LookupOwner, EvAt
    <3>3. QED
      BY <2>3, <3>1, <3>2
  <2>5. \A q \in Events : q # e => evOwner'[q] = evOwner[q]
    BY <1>2 DEF LookupTop, ResolveOwner, StoreHash, GetBuilder, AddLeaf, EvInv
  <2>6. QED
    BY <2>1, <2>2, <2>3, <2>4, <2>5, HashingFrame
<1>3. ASSUME NEW e \in Events, Land(e) PROVE HashingInv'
  <2>1. evOf' = evOf /\ hashing' = hashing /\ evOwner' = evOwner
    BY <1>3 DEF Land
  <2>2. \A q \in Events : evPc'[q] = evPc[q] \/ (evPc[q] \in {"land", "join"} /\ evPc'[q] \in {"done", "builder"})
    BY <1>3 DEF Land
  <2>3. \A q \in Events : /\ evPc'[q] = "hash" <=> evPc[q] = "hash"
                          /\ evPc'[q] = "hashjoin" <=> evPc[q] = "hashjoin"
    BY <2>2
  <2>4. QED
    BY <2>1, <2>3, HashingFrame
<1>4. ASSUME NEW e \in Events, LookupOwner(e) PROVE HashingInv'
  <2> DEFINE k == HashKey(e)
  <2>1. evOf' = evOf /\ evOwner' = evOwner /\ evPc[e] = "second"
    BY <1>4 DEF LookupOwner, EvAt
  <2>2. \A q : HashKey(q)' = HashKey(q)
    BY <2>1 DEF HashKey, Path
  <2>3. \A q \in Events : q # e => evPc'[q] = evPc[q]
    BY <1>4, SingleMove
  <2>4. \/ evPc'[e] = "land" /\ hashing' = hashing
        \/ k \in DOMAIN hashing /\ evPc'[e] = "hashjoin" /\ hashing' = hashing
        \/ k \notin DOMAIN hashing /\ evPc'[e] = "hash" /\ hashing' = WithKey(hashing, k, e)
    <3>1. \/ EvAt(e, "second", "land") /\ hashing' = hashing
          \/ k \in DOMAIN hashing /\ EvAt(e, "second", "hashjoin") /\ hashing' = hashing
          \/ k \notin DOMAIN hashing /\ EvAt(e, "second", "hash") /\ hashing' = WithKey(hashing, k, e)
      BY <1>4, Zenon DEF LookupOwner, HashKey
    <3>2. "land" \in EventPcs /\ "hashjoin" \in EventPcs /\ "hash" \in EventPcs
      BY DEF EventPcs, Waiting
    <3>3. QED
      BY <3>1, <3>2, EvMoved DEF EvInv
  <2>5. CASE evPc'[e] = "land" /\ hashing' = hashing
    BY <2>1, <2>3, <2>5, HashingFrame
  <2> HIDE DEF k
  <2>6. CASE k \in DOMAIN hashing /\ evPc'[e] = "hashjoin" /\ hashing' = hashing
    BY <2>1, <2>2, <2>3, <2>6 DEF HashingInv, k
  <2>7. CASE k \notin DOMAIN hashing /\ evPc'[e] = "hash" /\ hashing' = WithKey(hashing, k, e)
    <3>1. DOMAIN hashing' = DOMAIN hashing \cup {k}
      BY <2>7 DEF WithKey
    <3>2. hashing'[k] = e /\ \A j \in DOMAIN hashing : hashing'[j] = hashing[j]
      BY <2>7 DEF WithKey
    <3>3. ASSUME NEW q \in Events, evPc'[q] = "hash" PROVE HashKey(q) \in DOMAIN hashing' /\ hashing'[HashKey(q)] = q
      <4>1. CASE q = e
        BY <3>1, <3>2, <4>1 DEF k
      <4>2. CASE q # e
        <5>1. HashKey(q) \in DOMAIN hashing /\ hashing[HashKey(q)] = q
          BY <2>3, <3>3, <4>2 DEF HashingInv
        <5>2. QED
          BY <3>1, <3>2, <5>1
      <4>3. QED
        BY <4>1, <4>2
    <3>4. \A q \in Events : evPc'[q] = "hashjoin" => HashKey(q) \in DOMAIN hashing'
      BY <2>3, <2>7, <3>1 DEF HashingInv
    <3>5. ASSUME NEW j \in DOMAIN hashing'
          PROVE  hashing'[j] \in Events /\ evPc'[hashing'[j]] = "hash" /\ HashKey(hashing'[j]) = j
      <4>1. CASE j = k
        BY <2>7, <3>2, <4>1 DEF k
      <4>2. CASE j \in DOMAIN hashing
        <5>1. hashing[j] \in Events /\ evPc[hashing[j]] = "hash" /\ HashKey(hashing[j]) = j
          BY <4>2 DEF HashingInv
        <5>2. QED
          BY <2>1, <2>3, <3>2, <4>2, <5>1
      <4>3. QED
        BY <3>1, <4>1, <4>2
    <3>6. QED
      BY <2>2, <3>3, <3>4, <3>5 DEF HashingInv
  <2>8. QED
    BY <2>4, <2>5, <2>6, <2>7
<1>5. ASSUME NEW e \in Events, HashFile(e) PROVE HashingInv'
  <2> DEFINE k == HashKey(e)
             with == {q \in Events : evPc[q] \in {"hash", "hashjoin"} /\ HashKey(q) = k}
  <2>1. /\ evOf' = evOf /\ evOwner' = evOwner /\ evPc[e] = "hash"
        /\ hashing' = Restrict(hashing, DOMAIN hashing \ {k})
    BY <1>5 DEF HashFile, HashKey
  <2>2. \A q : HashKey(q)' = HashKey(q)
    BY <2>1 DEF HashKey, Path
  <2>3. \A q \in Events : IF q \in with THEN evPc'[q] \in {"store", "land"} ELSE evPc'[q] = evPc[q]
    BY <1>5 DEF HashFile, HashKey
  <2>4. DOMAIN hashing' = DOMAIN hashing \ {k} /\ \A j \in DOMAIN hashing' : hashing'[j] = hashing[j]
    BY <2>1 DEF Restrict
  <2>5. \A q \in Events : evPc'[q] \in {"hash", "hashjoin"} => evPc'[q] = evPc[q] /\ HashKey(q) # k
    BY <2>3
  <2>6. \A q \in Events : HashKey(q) # k => evPc'[q] = evPc[q]
    BY <2>3
  <2> HIDE DEF with, k
  <2>7. \A q \in Events : evPc'[q] = "hash" => HashKey(q) \in DOMAIN hashing' /\ hashing'[HashKey(q)] = q
    BY <2>4, <2>5 DEF HashingInv
  <2>8. \A q \in Events : evPc'[q] = "hashjoin" => HashKey(q) \in DOMAIN hashing'
    BY <2>4, <2>5 DEF HashingInv
  <2>9. ASSUME NEW j \in DOMAIN hashing'
        PROVE  hashing'[j] \in Events /\ evPc'[hashing'[j]] = "hash" /\ HashKey(hashing'[j]) = j
    <3>1. j \in DOMAIN hashing /\ j # k /\ hashing'[j] = hashing[j]
      BY <2>4
    <3>2. hashing[j] \in Events /\ evPc[hashing[j]] = "hash" /\ HashKey(hashing[j]) = j
      BY <3>1 DEF HashingInv
    <3>3. QED
      BY <2>6, <3>1, <3>2
  <2>10. QED
    BY <2>2, <2>7, <2>8, <2>9 DEF HashingInv
<1>6. QED
  BY <1>1, <1>2, <1>3, <1>4, <1>5, NextKinds DEF WorkerStep

-----------------------------------------------------------------------------
(* The owners found, the results and the cache.                            *)
LEMMA EventFacts ==
    ASSUME EvInv, NEW e \in Events
    PROVE  /\ evOf[e].stack \in Seq(Layers) \ {<<>>} /\ Path(e) \in Paths
           /\ Top(e) \in Layers /\ Top(e) # NoOwner
<1>1. evOf[e].stack \in Seq(Layers) \ {<<>>} /\ Path(e) \in Paths
  BY EngineAssumption DEF EvInv, Path
<1>2. Len(evOf[e].stack) \in 1..Len(evOf[e].stack)
  BY <1>1, LenProperties, EmptySeq
<1>3. Top(e) \in Layers
  BY <1>1, <1>2, ElementOfSeq DEF Top
<1>4. QED
  BY <1>1, <1>3, EngineAssumption
LEMMA OwnerEntries ==
    ASSUME ToldApart, EvInv, NEW e \in Events, NEW o, o = FindOwner(evOf[e].stack, Path(e)), o # NoOwner
    PROVE  /\ Shown(e) = {<<o, Path(e)>>}
           /\ Entry(o, Path(e), <<o, Path(e)>>) \in RightEntries
           /\ Entry(Top(e), Path(e), <<o, Path(e)>>) \in RightEntries
           /\ \A h : Entry(o, Path(e), h) \in RightEntries => h = <<o, Path(e)>>
<1> DEFINE p == Path(e)
<1>1. evOf[e].stack \in Seq(Layers) /\ p \in Paths /\ Top(e) \in Layers
  BY EventFacts
<1>2. o \in Layers /\ Shows(o, p) /\ Shown(e) = {<<o, p>>}
  BY <1>1, OwnerShows DEF Shown
<1>3. \A q \in Events : Top(q) = o /\ Path(q) = p => <<o, p>> \in Shown(q)
  <2>1. ASSUME NEW q \in Events, Top(q) = o, Path(q) = p PROVE <<o, p>> \in Shown(q)
    <3>1. evOf[q].stack \in Seq(Layers) \ {<<>>} /\ evOf[q].stack[Len(evOf[q].stack)] = o
      BY <2>1, EventFacts DEF Top
    <3>2. Visible(evOf[q].stack, p) = {<<o, p>>}
      BY <1>2, <3>1, TopShows
    <3>3. QED
      BY <2>1, <3>2 DEF Shown
  <2>2. QED
    BY <2>1
<1>4. \A q \in Events : Top(q) = Top(e) /\ Path(q) = p => <<o, p>> \in Shown(q)
  <2>1. ASSUME NEW q \in Events, Top(q) = Top(e), Path(q) = p PROVE Shown(q) = Shown(e)
    BY <2>1 DEF ToldApart, EvInv, Top, Path, Shown
  <2>2. QED
    BY <1>2, <2>1
<1>5. Shows(Top(e), p) => <<o, p>> = <<Top(e), p>>
  <2>1. ASSUME Shows(Top(e), p) PROVE Top(e) = o
    BY <2>1, EventFacts, TopShows DEF Top
  <2>2. QED
    BY <2>1
<1> HIDE DEF p
<1>6. Entry(o, p, <<o, p>>) \in RightEntries
  BY <1>1, <1>2, <1>3 DEF Entry, RightEntries
<1>7. Entry(Top(e), p, <<o, p>>) \in RightEntries
  BY <1>1, <1>2, <1>4, <1>5 DEF Entry, RightEntries
<1>8. \A h : Entry(o, p, h) \in RightEntries => h = <<o, p>>
  BY <1>2 DEF Entry, RightEntries
<1>9. QED
  BY <1>2, <1>6, <1>7, <1>8 DEF p
LEMMA CachedRight ==
    ASSUME CacheInv, NEW l, NEW p, Cached(l, p) # {}
    PROVE  Entry(l, p, HashIn(l, p)) \in RightEntries
<1> DEFINE i == CHOOSE j \in Cached(l, p) : TRUE
<1>1. i \in 1..Len(lru) /\ lru[i].layer = l /\ lru[i].path = p
  BY DEF Cached, EntriesOf
<1>2. HashIn(l, p) = lru[i].hash
  BY DEF HashIn
<1> HIDE DEF i
<1>3. lru[i] \in RightEntries
  BY <1>1, ElementOfSeq DEF CacheInv
<1>4. lru[i] = [layer |-> lru[i].layer, path |-> lru[i].path, hash |-> lru[i].hash]
  BY <1>3 DEF RightEntries
<1>5. QED
  BY <1>1, <1>2, <1>3, <1>4 DEF Entry
LEMMA TopEntry ==
    ASSUME NEW e \in Events, NEW h, Entry(Top(e), Path(e), h) \in RightEntries
    PROVE  h \in Shown(e)
BY DEF Entry, RightEntries
LEMMA CachePut ==
    ASSUME NEW c \in Seq(RightEntries), Len(c) <= ShardCap, NEW l, NEW p, NEW h, Entry(l, p, h) \in RightEntries
    PROVE  Put(c, ShardCap, l, p, h) \in Seq(RightEntries) /\ Len(Put(c, ShardCap, l, p, h)) <= ShardCap
BY PutKeeps, EngineAssumption
LEMMA RightSame == ASSUME evOf' = evOf PROVE RightEntries' = RightEntries
BY DEF RightEntries, Top, Path, Shown

LEMMA OwnerKept == ASSUME EvInv, ChanInv, OwnerInv, EngNext PROVE OwnerInv'
<1> DEFINE Knows(q) == evPc[q] \in {"second", "hash", "hashjoin", "store"}
           KnowsNext(q) == evPc'[q] \in {"second", "hash", "hashjoin", "store"}
<1>1. ASSUME evOf' = evOf, evOwner' = evOwner, \A q \in Events : KnowsNext(q) => Knows(q) PROVE OwnerInv'
  BY <1>1 DEF OwnerInv, Path
<1>2. CASE Managing \/ Dispatch \/ StartWorker \/ \E e \in Events : Outside(e)
  <2>1. /\ evOf' = evOf /\ evOwner' = evOwner
        /\ \A q \in Events : evPc'[q] # evPc[q] => evPc[q] \notin Begun /\ evPc'[q] \notin Begun
    BY <1>2, OtherShape
  <2>2. \A q \in Events : KnowsNext(q) => Knows(q)
    BY <2>1 DEF Begun, Waiting
  <2>3. QED
    BY <1>1, <2>1, <2>2
<1>3. ASSUME NEW e \in Events, LookupTop(e) \/ LookupOwner(e) \/ StoreHash(e) \/ GetBuilder(e) \/ AddLeaf(e)
      PROVE  OwnerInv'
  <2>1. evOf' = evOf /\ evOwner' = evOwner
    BY <1>3 DEF LookupTop, LookupOwner, StoreHash, GetBuilder, AddLeaf
  <2>2. evPc[e] # "owner"
    BY <1>3 DEF LookupTop, LookupOwner, StoreHash, GetBuilder, AddLeaf, EvAt
  <2>3. \A q \in Events : KnowsNext(q) => Knows(q)
    BY <1>3, <2>2, SingleMove
  <2>4. QED
    BY <1>1, <2>1, <2>3
<1>4. ASSUME NEW e \in Events, HashFile(e) PROVE OwnerInv'
  <2>1. evOf' = evOf /\ evOwner' = evOwner
    BY <1>4 DEF HashFile
  <2>2. \A q \in Events : KnowsNext(q) => Knows(q)
    BY <1>4 DEF HashFile
  <2>3. QED
    BY <1>1, <2>1, <2>2
<1>5. ASSUME NEW e \in Events, Land(e) PROVE OwnerInv'
  <2>1. evOf' = evOf /\ evOwner' = evOwner
    BY <1>5 DEF Land
  <2>2. \A q \in Events : KnowsNext(q) => Knows(q)
    BY <1>5 DEF Land
  <2>3. QED
    BY <1>1, <2>1, <2>2
<1>6. ASSUME NEW e \in Events, ResolveOwner(e) PROVE OwnerInv'
  <2> DEFINE o == FindOwner(evOf[e].stack, Path(e))
  <2>1. evOf' = evOf /\ evOwner' = [evOwner EXCEPT ![e] = o]
    BY <1>6 DEF ResolveOwner
  <2>2. \/ o # NoOwner /\ EvAt(e, "owner", "second")
        \/ EvAt(e, "owner", "land")
    BY <1>6, Zenon DEF ResolveOwner
  <2> HIDE DEF o
  <2>3. evOwner'[e] = o /\ \A q \in Events : q # e => evOwner'[q] = evOwner[q]
    BY <2>1 DEF EvInv
  <2>4. "second" \in EventPcs /\ "land" \in EventPcs
    BY DEF EventPcs, Waiting
  <2>5. /\ (evPc'[e] = "second" /\ o # NoOwner) \/ evPc'[e] = "land"
        /\ \A q \in Events : q # e => evPc'[q] = evPc[q]
    BY <2>2, <2>4, EvMoved DEF EvInv
  <2>6. ASSUME NEW q \in Events, KnowsNext(q)
        PROVE  evOwner'[q] = FindOwner(evOf[q].stack, Path(q)) /\ evOwner'[q] # NoOwner
    <3>1. CASE q = e
      BY <2>3, <2>5, <2>6, <3>1 DEF o
    <3>2. CASE q # e
      BY <2>3, <2>5, <2>6, <3>2 DEF OwnerInv
    <3>3. QED
      BY <3>1, <3>2
  <2>7. QED
    BY <2>1, <2>6 DEF OwnerInv, Path
<1>7. QED
  BY <1>2, <1>3, <1>4, <1>5, <1>6, NextKinds DEF WorkerStep
LEMMA CacheKept ==
    ASSUME ToldApart, EvInv, OwnerInv, ResultInv, CacheInv, EngNext, ChanInv
    PROVE  CacheInv'
<1>1. ASSUME evOf' = evOf, lru' \in Seq(RightEntries), Len(lru') <= ShardCap PROVE CacheInv'
  BY <1>1, RightSame DEF CacheInv
<1>2. CASE Managing \/ Dispatch \/ StartWorker \/ \E e \in Events : Outside(e)
  <2>1. evOf' = evOf /\ lru' = lru
    BY <1>2, OtherShape
  <2>2. QED
    BY <1>1, <2>1 DEF CacheInv
<1>3. ASSUME NEW e \in Events, ResolveOwner(e) \/ HashFile(e) \/ Land(e) \/ GetBuilder(e) \/ AddLeaf(e)
      PROVE  CacheInv'
  <2>1. evOf' = evOf /\ lru' = lru
    BY <1>3 DEF ResolveOwner, HashFile, Land, GetBuilder, AddLeaf
  <2>2. QED
    BY <1>1, <2>1 DEF CacheInv
<1>4. ASSUME NEW e \in Events, LookupTop(e) PROVE CacheInv'
  <2>1. evOf' = evOf
    BY <1>4 DEF LookupTop
  <2>2. CASE Cached(Top(e), Path(e)) # {}
    <3>1. lru' = Put(lru, ShardCap, Top(e), Path(e), HashIn(Top(e), Path(e)))
      BY <1>4, <2>2 DEF LookupTop
    <3>2. lru' \in Seq(RightEntries) /\ Len(lru') <= ShardCap
      BY <2>2, <3>1, CachedRight, CachePut DEF CacheInv
    <3>3. QED
      BY <1>1, <2>1, <3>2
  <2>3. CASE Cached(Top(e), Path(e)) = {}
    <3>1. lru' = lru
      BY <1>4, <2>3 DEF LookupTop
    <3>2. QED
      BY <1>1, <2>1, <3>1 DEF CacheInv
  <2>4. QED
    BY <2>2, <2>3
\* An owner's entry, and then one of the top layer when that is another.
<1>5. ASSUME NEW e \in Events, NEW o, o = FindOwner(evOf[e].stack, Path(e)), o # NoOwner, NEW own, NEW both,
             own = Put(lru, ShardCap, o, Path(e), <<o, Path(e)>>),
             both = (IF o = Top(e) THEN own ELSE Put(own, ShardCap, Top(e), Path(e), <<o, Path(e)>>))
      PROVE  both \in Seq(RightEntries) /\ Len(both) <= ShardCap
  <2>1. /\ Entry(o, Path(e), <<o, Path(e)>>) \in RightEntries
        /\ Entry(Top(e), Path(e), <<o, Path(e)>>) \in RightEntries
    BY <1>5, OwnerEntries
  <2>2. own \in Seq(RightEntries) /\ Len(own) <= ShardCap
    BY <1>5, <2>1, CachePut DEF CacheInv
  <2>3. LET two == Put(own, ShardCap, Top(e), Path(e), <<o, Path(e)>>)
        IN  two \in Seq(RightEntries) /\ Len(two) <= ShardCap
    BY <2>1, <2>2, CachePut
  <2>4. QED
    BY <1>5, <2>2, <2>3
<1>6. ASSUME NEW e \in Events, LookupOwner(e) PROVE CacheInv'
  <2> DEFINE o == evOwner[e]
             h == HashIn(o, Path(e))
  <2>1. evOf' = evOf /\ evPc[e] = "second"
    BY <1>6 DEF LookupOwner, EvAt
  <2>2. CASE Cached(o, Path(e)) # {}
    <3>1. lru' = (IF o = Top(e) THEN Put(lru, ShardCap, o, Path(e), h)
                  ELSE Put(Put(lru, ShardCap, o, Path(e), h), ShardCap, Top(e), Path(e), h))
      BY <1>6, <2>2 DEF LookupOwner
    <3>2. o = FindOwner(evOf[e].stack, Path(e)) /\ o # NoOwner
      BY <2>1 DEF OwnerInv
    <3>3. h = <<o, Path(e)>>
      <4>1. Entry(o, Path(e), h) \in RightEntries
        BY <2>2, CachedRight
      <4> HIDE DEF o, h
      <4>2. QED
        BY <3>2, <4>1, OwnerEntries
    <3>4. lru' \in Seq(RightEntries) /\ Len(lru') <= ShardCap
      <4> HIDE DEF o, h
      <4>1. QED
        BY <1>5, <3>1, <3>2, <3>3
    <3>5. QED
      BY <1>1, <2>1, <3>4
  <2>3. CASE Cached(o, Path(e)) = {}
    <3>1. lru' = lru
      BY <1>6, <2>3 DEF LookupOwner
    <3>2. QED
      BY <1>1, <2>1, <3>1 DEF CacheInv
  <2>4. QED
    BY <2>2, <2>3
<1>7. ASSUME NEW e \in Events, StoreHash(e) PROVE CacheInv'
  <2> DEFINE o == evOwner[e]
             h == evRes[e].hash
  <2>1. evOf' = evOf /\ evPc[e] = "store"
    BY <1>7 DEF StoreHash, EvAt
  <2>2. o = FindOwner(evOf[e].stack, Path(e)) /\ o # NoOwner /\ h = <<o, Path(e)>>
    BY <2>1 DEF OwnerInv, ResultInv, HashKey
  <2>3. lru' = (IF o = Top(e) THEN Put(lru, ShardCap, o, Path(e), h)
                ELSE Put(Put(lru, ShardCap, o, Path(e), h), ShardCap, Top(e), Path(e), h))
    BY <1>7 DEF StoreHash
  <2> HIDE DEF o, h
  <2>4. lru' \in Seq(RightEntries) /\ Len(lru') <= ShardCap
    BY <1>5, <2>2, <2>3
  <2>5. QED
    BY <1>1, <2>1, <2>4
<1>8. QED
  BY <1>2, <1>3, <1>4, <1>6, <1>7, NextKinds DEF WorkerStep
LEMMA ResultKept ==
    ASSUME ToldApart, EvInv, OwnerInv, ResultInv, CacheInv, EngNext, ChanInv
    PROVE  ResultInv'
<1> DEFINE Answered(q) == /\ evPc'[q] = "store" => evRes'[q].hash = HashKey(q)
                          /\ evPc'[q] = "land" /\ evRes'[q].kind # "error" => evRes'[q].hash \in Shown(q)
                          /\ evPc'[q] \in {"builder", "leaf"} => evRes'[q].hash \in Shown(q)
<1>1. ASSUME evOf' = evOf, \A q \in Events : evPc'[q] = "store" => evOwner'[q] = evOwner[q],
             \A q \in Events : Answered(q)
      PROVE  ResultInv'
  <2>1. \A q \in Events : Shown(q)' = Shown(q)
    BY <1>1 DEF Shown, Path
  <2>2. \A q \in Events : evPc'[q] = "store" => HashKey(q)' = HashKey(q)
    BY <1>1 DEF HashKey, Path
  <2>3. ASSUME NEW q \in Events
        PROVE  /\ evPc'[q] = "store" => evRes'[q].hash = HashKey(q)'
               /\ evPc'[q] = "land" /\ evRes'[q].kind # "error" => evRes'[q].hash \in Shown(q)'
               /\ evPc'[q] \in {"builder", "leaf"} => evRes'[q].hash \in Shown(q)'
    <3>1. Answered(q) /\ Shown(q)' = Shown(q) /\ (evPc'[q] = "store" => HashKey(q)' = HashKey(q))
      BY <1>1, <2>1, <2>2
    <3>2. QED
      BY <3>1
  <2>4. QED
    BY <2>3, Zenon DEF ResultInv
<1>2. CASE Managing \/ Dispatch \/ StartWorker \/ \E e \in Events : Outside(e)
  <2>1. /\ evOf' = evOf /\ evOwner' = evOwner /\ evRes' = evRes
        /\ \A q \in Events : evPc'[q] # evPc[q] => evPc[q] \notin Begun /\ evPc'[q] \notin Begun
    BY <1>2, OtherShape
  <2>2. \A q \in Events : evPc'[q] = evPc[q] \/ evPc'[q] \notin {"store", "land", "builder", "leaf"}
    BY <2>1 DEF Begun, Waiting
  <2>3. \A q \in Events : Answered(q)
    BY <2>1, <2>2 DEF ResultInv
  <2>4. QED
    BY <1>1, <2>1, <2>3
<1>3. ASSUME NEW e \in Events, LookupTop(e) PROVE ResultInv'
  <2>1. evOf' = evOf /\ evOwner' = evOwner /\ evPc[e] = "top"
    BY <1>3 DEF LookupTop, EvAt
  <2>2. evPc'[e] \in {"builder", "join", "owner"} /\ \A q \in Events : q # e => evPc'[q] = evPc[q]
    BY <1>3, <2>1, SingleMove
  <2>3. CASE Cached(Top(e), Path(e)) # {}
    <3>1. evPc'[e] = "builder"
      <4>1. EvAt(e, "top", "builder")
        BY <1>3, <2>3 DEF LookupTop
      <4>2. QED
        BY <4>1 DEF EvAt, EvInv
    <3>2. evRes' = [evRes EXCEPT ![e] = Good(HashIn(Top(e), Path(e)), Top(e), TRUE)]
      BY <1>3, <2>3 DEF LookupTop
    <3>3. evRes'[e].hash = HashIn(Top(e), Path(e)) /\ \A q \in Events : q # e => evRes'[q] = evRes[q]
      BY <3>2 DEF EvInv, Good
    <3>4. HashIn(Top(e), Path(e)) \in Shown(e)
      BY <2>3, CachedRight, TopEntry
    <3>5. \A q \in Events : Answered(q)
      BY <2>2, <3>1, <3>3, <3>4 DEF ResultInv
    <3>6. QED
      BY <1>1, <2>1, <3>5
  <2>4. CASE Cached(Top(e), Path(e)) = {}
    <3>1. evRes' = evRes /\ (EvAt(e, "top", "join") \/ EvAt(e, "top", "owner"))
      BY <1>3, <2>4, Zenon DEF LookupTop
    <3>2. evPc'[e] \in {"join", "owner"}
      BY <3>1 DEF EvAt, EvInv
    <3>3. \A q \in Events : Answered(q)
      BY <2>2, <3>1, <3>2 DEF ResultInv
    <3>4. QED
      BY <1>1, <2>1, <3>3
  <2>5. QED
    BY <2>3, <2>4
<1>4. ASSUME NEW e \in Events, ResolveOwner(e) PROVE ResultInv'
  <2>1. evOf' = evOf /\ evPc[e] = "owner" /\ \A q \in Events : q # e => evOwner'[q] = evOwner[q]
    BY <1>4 DEF ResolveOwner, EvAt
  <2>2. evPc'[e] \in {"second", "land"} /\ \A q \in Events : q # e => evPc'[q] = evPc[q]
    BY <1>4, <2>1, SingleMove
  <2>3. \/ EvAt(e, "owner", "second") /\ evRes' = evRes
        \/ EvAt(e, "owner", "land") /\ evRes' = [evRes EXCEPT ![e] = Error]
    BY <1>4, Zenon DEF ResolveOwner
  <2>4. \A q \in Events : q # e => evRes'[q] = evRes[q]
    BY <2>3 DEF EvInv
  <2>5. evPc'[e] = "second" \/ (evPc'[e] = "land" /\ evRes'[e] = Error)
    BY <2>3 DEF EvInv, EvAt
  <2>6. \A q \in Events : Answered(q)
    BY <2>2, <2>4, <2>5 DEF ResultInv, Error
  <2>7. QED
    BY <1>1, <2>1, <2>2, <2>6
<1>5. ASSUME NEW e \in Events, LookupOwner(e) PROVE ResultInv'
  <2> DEFINE o == evOwner[e]
             h == HashIn(o, Path(e))
  <2>1. evOf' = evOf /\ evOwner' = evOwner /\ evPc[e] = "second"
    BY <1>5 DEF LookupOwner, EvAt
  <2>2. evPc'[e] \in {"land", "hash", "hashjoin"} /\ \A q \in Events : q # e => evPc'[q] = evPc[q]
    BY <1>5, <2>1, SingleMove
  <2>3. CASE Cached(o, Path(e)) # {}
    <3>1. EvAt(e, "second", "land") /\ evRes' = [evRes EXCEPT ![e] = Good(h, o, TRUE)]
      BY <1>5, <2>3 DEF LookupOwner
    <3>2. evPc'[e] = "land"
      BY <3>1 DEF EvAt, EvInv
    <3>3. evRes'[e].hash = h /\ \A q \in Events : q # e => evRes'[q] = evRes[q]
      BY <3>1 DEF EvInv, Good
    <3>4. o = FindOwner(evOf[e].stack, Path(e)) /\ o # NoOwner
      BY <2>1 DEF OwnerInv
    <3>5. h = <<o, Path(e)>> /\ Shown(e) = {<<o, Path(e)>>}
      <4>1. Entry(o, Path(e), h) \in RightEntries
        BY <2>3, CachedRight
      <4> HIDE DEF o, h
      <4>2. QED
        BY <3>4, <4>1, OwnerEntries
    <3>6. evRes'[e].hash \in Shown(e)
      BY <3>3, <3>5
    <3> HIDE DEF o, h
    <3>7. \A q \in Events : Answered(q)
      BY <2>2, <3>2, <3>3, <3>6 DEF ResultInv
    <3>8. QED
      BY <1>1, <2>1, <3>7
  <2>4. CASE Cached(o, Path(e)) = {}
    <3>1. evRes' = evRes /\ (EvAt(e, "second", "hashjoin") \/ EvAt(e, "second", "hash"))
      BY <1>5, <2>4, Zenon DEF LookupOwner
    <3>2. evPc'[e] \in {"hashjoin", "hash"}
      BY <3>1 DEF EvAt, EvInv
    <3>3. \A q \in Events : Answered(q)
      BY <2>2, <3>1, <3>2 DEF ResultInv
    <3>4. QED
      BY <1>1, <2>1, <3>3
  <2>5. QED
    BY <2>3, <2>4
<1>6. ASSUME NEW e \in Events, HashFile(e) PROVE ResultInv'
  <2>1. evOf' = evOf /\ evOwner' = evOwner
    BY <1>6 DEF HashFile
  <2> DEFINE with == {q \in Events : evPc[q] \in {"hash", "hashjoin"} /\ HashKey(q) = HashKey(e)}
  <2>2. PICK ok \in BOOLEAN :
          /\ evPc' = [q \in Events |-> IF q \in with THEN IF ok THEN "store" ELSE "land" ELSE evPc[q]]
          /\ evRes' = [q \in Events |-> IF q \in with THEN IF ok THEN Good(HashKey(e), HashKey(e)[1], FALSE) ELSE Error
                                        ELSE evRes[q]]
    BY <1>6, Zenon DEF HashFile, HashKey
  <2>3. \A q \in with : HashKey(q) = HashKey(e)
    OBVIOUS
  <2> HIDE DEF with
  <2>4. \A q \in Events : q \notin with => evPc'[q] = evPc[q] /\ evRes'[q] = evRes[q]
    BY <2>2
  <2>5. \A q \in Events : q \in with =>
            \/ evPc'[q] = "store" /\ evRes'[q].hash = HashKey(e)
            \/ evPc'[q] = "land" /\ evRes'[q].kind = "error"
    BY <2>2 DEF Good, Error
  <2>6. ASSUME NEW q \in Events PROVE Answered(q)
    <3>1. CASE q \in with
      BY <2>3, <2>5, <3>1
    <3>2. CASE q \notin with
      BY <2>4, <3>2 DEF ResultInv
    <3>3. QED
      BY <3>1, <3>2
  <2>7. QED
    BY <1>1, <2>1, <2>6
<1>7. ASSUME NEW e \in Events, StoreHash(e) PROVE ResultInv'
  <2>1. evOf' = evOf /\ evOwner' = evOwner /\ evRes' = evRes /\ evPc[e] = "store"
    BY <1>7 DEF StoreHash, EvAt
  <2>2. evPc'[e] = "land" /\ \A q \in Events : q # e => evPc'[q] = evPc[q]
    BY <1>7, <2>1, SingleMove
  <2>3. evRes[e].hash \in Shown(e)
    <3>1. evOwner[e] = FindOwner(evOf[e].stack, Path(e)) /\ evOwner[e] # NoOwner /\ evRes[e].hash = HashKey(e)
      BY <2>1 DEF OwnerInv, ResultInv
    <3>2. QED
      BY <3>1, OwnerEntries DEF HashKey
  <2>4. \A q \in Events : Answered(q)
    BY <2>1, <2>2, <2>3 DEF ResultInv
  <2>5. QED
    BY <1>1, <2>1, <2>4
<1>8. ASSUME NEW e \in Events, Land(e) PROVE ResultInv'
  <2> DEFINE with == {q \in Events : q = e \/ (evPc[q] = "join" /\ FlightKey(q) = FlightKey(e))}
             failed == evRes[e].kind = "error"
  <2>1. /\ evOf' = evOf /\ evOwner' = evOwner /\ evPc[e] = "land"
        /\ evPc' = [q \in Events |-> IF q \in with THEN IF failed THEN "done" ELSE "builder" ELSE evPc[q]]
        /\ evRes' = [q \in Events |-> IF q \in with THEN evRes[e] ELSE evRes[q]]
    BY <1>8 DEF Land
  <2>2. \A q \in with : Shown(q) = Shown(e)
    <3>1. ASSUME NEW q \in with PROVE Shown(q) = Shown(e)
      <4>1. FlightKey(q) = FlightKey(e)
        BY <3>1
      <4>2. QED
        BY <4>1 DEF FlightKey, Shown
    <3>2. QED
      BY <3>1
  <2> HIDE DEF with
  <2>3. \A q \in Events : q \notin with => evPc'[q] = evPc[q] /\ evRes'[q] = evRes[q]
    BY <2>1
  <2>4. \A q \in Events : q \in with =>
            evPc'[q] = "done" \/ (~failed /\ evPc'[q] = "builder" /\ evRes'[q] = evRes[e])
    BY <2>1
  <2>5. ~failed => evRes[e].hash \in Shown(e)
    BY <2>1 DEF ResultInv
  <2> HIDE DEF failed
  <2>6. ASSUME NEW q \in Events PROVE Answered(q)
    <3>1. CASE q \in with
      BY <2>2, <2>4, <2>5, <3>1
    <3>2. CASE q \notin with
      BY <2>3, <3>2 DEF ResultInv
    <3>3. QED
      BY <3>1, <3>2
  <2>7. QED
    BY <1>1, <2>1, <2>6
<1>9. ASSUME NEW e \in Events, GetBuilder(e) \/ AddLeaf(e) PROVE ResultInv'
  <2>1. evOf' = evOf /\ evOwner' = evOwner /\ evRes' = evRes
    BY <1>9 DEF GetBuilder, AddLeaf
  <2>2. (evPc[e] = "builder" /\ evPc'[e] = "leaf") \/ evPc'[e] = "done"
    BY <1>9 DEF GetBuilder, AddLeaf, EvAt, EvInv
  <2>3. \A q \in Events : q # e => evPc'[q] = evPc[q]
    BY <1>9, SingleMove
  <2>4. \A q \in Events : Answered(q)
    BY <2>1, <2>2, <2>3 DEF ResultInv
  <2>5. QED
    BY <1>1, <2>1, <2>4
<1>10. QED
  BY <1>2, <1>3, <1>4, <1>5, <1>6, <1>7, <1>8, <1>9, NextKinds DEF WorkerStep

-----------------------------------------------------------------------------
(* The builders of the trees.                                              *)
LEMMA TreeFrame ==
    ASSUME TreeInv, evOf' = evOf, UNCHANGED <<builders, gens, sealing, sealed>>, DOMAIN leaves' = DOMAIN leaves
    PROVE  TreeInv'
<1>1. Vertices' = Vertices
  BY DEF Vertices
<1>2. QED
  BY <1>1 DEF TreeInv, BuilderReachable
LEMMA TreeKept == ASSUME EvInv, ChanInv, TreeInv, EngNext PROVE TreeInv'
<1>1. ASSUME evOf' = evOf, treeVars' = treeVars PROVE TreeInv'
  BY <1>1, TreeFrame DEF treeVars
<1>2. CASE Start \/ Stop \/ StopReturns \/ Cancel
  BY <1>1, <1>2 DEF Start, Stop, StopReturns, Cancel, workVars
<1>3. CASE Dispatch \/ StartWorker
  BY <1>1, <1>3 DEF Dispatch, StartWorker
<1>4. ASSUME NEW e \in Events, Outside(e) PROVE TreeInv'
  BY <1>1, <1>4, OutsideShape DEF ResolvedSame
<1>5. ASSUME NEW e \in Events,
             LookupTop(e) \/ ResolveOwner(e) \/ LookupOwner(e) \/ HashFile(e) \/ StoreHash(e) \/ Land(e)
      PROVE  TreeInv'
  BY <1>1, <1>5 DEF LookupTop, ResolveOwner, LookupOwner, HashFile, StoreHash, Land
<1>6. ASSUME NEW e \in Events, AddLeaf(e) PROVE TreeInv'
  <2>1. evOf' = evOf /\ UNCHANGED <<builders, gens, sealing, sealed>> /\ DOMAIN leaves' = DOMAIN leaves
    BY <1>6 DEF AddLeaf
  <2>2. QED
    BY <2>1, TreeFrame
<1>7. ASSUME NEW e \in Events, GetBuilder(e) PROVE TreeInv'
  <2> DEFINE v == evOf[e].vertex
             g == gens[v] + 1
  <2>1. v \in Vertices
    BY DEF Vertices
  <2>2. evOf' = evOf /\ sealing' = sealing /\ sealed' = sealed
    BY <1>7 DEF GetBuilder
  <2>3. Vertices' = Vertices
    BY <2>2 DEF Vertices
  <2>4. CASE builders[v] # 0
    <3>1. UNCHANGED <<builders, gens, leaves>>
      BY <1>7, <2>4 DEF GetBuilder
    <3>2. QED
      BY <2>2, <3>1, TreeFrame
  <2>5. CASE builders[v] = 0
    <3>1. /\ gens' = [gens EXCEPT ![v] = @ + 1] /\ builders' = [builders EXCEPT ![v] = g]
          /\ leaves' = WithKey(leaves, <<v, g>>, <<>>)
      BY <1>7, <2>5 DEF GetBuilder
    <3>2. gens[v] \in Nat /\ g \in Nat \ {0}
      BY <2>1 DEF TreeInv
    <3>3. DOMAIN leaves' = DOMAIN leaves \cup {<<v, g>>}
      BY <3>1 DEF WithKey
    <3> HIDE DEF v, g
    <3>4. gens' \in [Vertices -> Nat] /\ builders' \in [Vertices -> Nat]
      BY <2>1, <3>1, <3>2 DEF TreeInv
    <3>5. builders'[v] = g /\ \A u \in Vertices : u # v => builders'[u] = builders[u]
      BY <2>1, <3>1 DEF TreeInv
    <3>6. ASSUME NEW k \in DOMAIN leaves'
          PROVE  k \in Vertices \X (Nat \ {0}) /\ (k[2] \in {builders'[k[1]], sealing[k[1]]} \/ k \in sealed)
      <4>1. CASE k = <<v, g>>
        BY <2>1, <3>2, <3>5, <4>1
      <4>2. CASE k \in DOMAIN leaves
        <5>1. k \in Vertices \X (Nat \ {0}) /\ (k[2] \in {builders[k[1]], sealing[k[1]]} \/ k \in sealed)
          BY <4>2 DEF TreeInv, BuilderReachable
        <5>2. k[1] = v => k[2] # builders[k[1]]
          BY <2>5, <5>1
        <5>3. QED
          BY <3>5, <5>1, <5>2
      <4>3. QED
        BY <3>3, <4>1, <4>2
    <3>7. QED
      BY <2>2, <2>3, <3>4, <3>6 DEF TreeInv, BuilderReachable
  <2>6. QED
    BY <2>4, <2>5
<1>8. ASSUME NEW v \in Vertices, FinalizeTake(v) PROVE TreeInv'
  <2>1. /\ evOf' = evOf /\ gens' = gens /\ leaves' = leaves /\ sealed' = sealed /\ sealing[v] = 0
        /\ sealing' = [sealing EXCEPT ![v] = builders[v]] /\ builders' = [builders EXCEPT ![v] = 0]
    BY <1>8 DEF FinalizeTake, workVars
  <2>2. Vertices' = Vertices
    BY <2>1 DEF Vertices
  <2>3. sealing' \in [Vertices -> Nat] /\ builders' \in [Vertices -> Nat]
    BY <2>1 DEF TreeInv
  <2>4. sealing'[v] = builders[v] /\ \A u \in Vertices : u # v => builders'[u] = builders[u] /\ sealing'[u] = sealing[u]
    BY <2>1 DEF TreeInv
  <2>5. ASSUME NEW k \in DOMAIN leaves
        PROVE  k[2] \in {builders'[k[1]], sealing'[k[1]]} \/ k \in sealed
    <3>1. k \in Vertices \X (Nat \ {0}) /\ (k[2] \in {builders[k[1]], sealing[k[1]]} \/ k \in sealed)
      BY DEF TreeInv, BuilderReachable
    <3>2. k[1] = v => k[2] # sealing[k[1]]
      BY <2>1, <3>1
    <3>3. QED
      BY <2>4, <3>1, <3>2
  <2>6. QED
    BY <2>1, <2>2, <2>3, <2>5 DEF TreeInv, BuilderReachable
<1>9. ASSUME NEW v \in Vertices, FinalizeSeal(v) PROVE TreeInv'
  <2>1. /\ evOf' = evOf /\ gens' = gens /\ leaves' = leaves /\ builders' = builders
        /\ sealing' = [sealing EXCEPT ![v] = 0] /\ sealed' = sealed \cup {<<v, sealing[v]>>}
    BY <1>9 DEF FinalizeSeal, workVars
  <2>2. Vertices' = Vertices
    BY <2>1 DEF Vertices
  <2>3. sealing' \in [Vertices -> Nat]
    BY <2>1 DEF TreeInv
  <2>4. \A u \in Vertices : u # v => sealing'[u] = sealing[u]
    BY <2>1 DEF TreeInv
  <2>5. ASSUME NEW k \in DOMAIN leaves
        PROVE  k[2] \in {builders[k[1]], sealing'[k[1]]} \/ k \in sealed'
    <3>1. /\ k \in Vertices \X (Nat \ {0}) /\ k = <<k[1], k[2]>>
          /\ (k[2] \in {builders[k[1]], sealing[k[1]]} \/ k \in sealed)
      BY DEF TreeInv, BuilderReachable
    <3>2. k[1] = v /\ k[2] = sealing[k[1]] => k \in sealed'
      BY <2>1, <3>1
    <3>3. QED
      BY <2>1, <2>4, <3>1, <3>2
  <2>6. QED
    BY <2>1, <2>2, <2>3, <2>5 DEF TreeInv, BuilderReachable
<1>10. QED
  BY <1>2, <1>3, <1>4, <1>5, <1>6, <1>7, <1>8, <1>9, StepKinds DEF Managing, WorkerStep

-----------------------------------------------------------------------------
(* The engine keeps its invariant, and its properties follow.              *)
LEMMA EngStarts == ASSUME EngInit PROVE EngInv
<1>1. EvInv
  BY DEF EngInit, EvInv, EventPcs
<1>2. WorkInv
  <2>1. AtWork = {}
    BY DEF EngInit, AtWork, Waiting
  <2>2. QED
    BY <2>1, FS_EmptySet, EngineAssumption DEF WorkInv
<1>3. ChanInv
  <2>1. engChan \in Seq(Events) /\ Len(engChan) = 0 /\ EventBuf \in Nat
    BY EmptySeq, EngineAssumption DEF EngInit
  <2>2. /\ engRunning = FALSE /\ engClosed = FALSE /\ engPanic = FALSE
        /\ engDispatch = "off" /\ engStop = "no" /\ \A e \in Events : evPc[e] = "idle"
    BY DEF EngInit
  <2>3. Len(engChan) <= EventBuf
    BY <2>1
  <2>4. \A e \in Events : evPc[e] # "queued"
    BY <2>2
  <2>5. QED
    BY <2>1, <2>2, <2>3, <2>4, Zenon DEF ChanInv
<1>4. FlightInv /\ HashingInv
  BY DEF EngInit, FlightInv, HashingInv, Leading, Nothing
<1>5. OwnerInv /\ ResultInv
  BY DEF EngInit, OwnerInv, ResultInv
<1>6. CacheInv
  <2>1. lru \in Seq(RightEntries) /\ Len(lru) = 0 /\ ShardCap \in Nat
    BY EmptySeq, EngineAssumption DEF EngInit
  <2>2. QED
    BY <2>1 DEF CacheInv
<1>7. TreeInv
  BY DEF EngInit, TreeInv, BuilderReachable
<1>8. QED
  BY <1>1, <1>2, <1>3, <1>4, <1>5, <1>6, <1>7 DEF EngInv
LEMMA EngKept == ASSUME ToldApart, EngInv, [EngNext]_engVars PROVE EngInv'
<1>1. CASE EngNext
  BY <1>1, EvKept, WorkKept, ChanKept, FlightKept, HashingKept, OwnerKept, ResultKept, CacheKept, TreeKept DEF EngInv
<1>2. CASE UNCHANGED engVars
  <2>1. UNCHANGED <<engRunning, engChan, engClosed, engDispatch, engHead, engStop, engPanic>>
        /\ UNCHANGED workVars /\ UNCHANGED treeVars
    BY <1>2 DEF engVars, pipeVars
  <2>2. EvInv' /\ WorkInv' /\ ChanInv'
    BY <2>1 DEF EngInv, EvInv, WorkInv, AtWork, ChanInv, workVars
  <2>3. FlightInv' /\ HashingInv'
    BY <2>1, FlightFrame, HashingFrame DEF EngInv, workVars
  <2>4. OwnerInv' /\ ResultInv'
    BY <2>1 DEF EngInv, OwnerInv, ResultInv, HashKey, Shown, Path, workVars
  <2>5. CacheInv'
    BY <2>1, RightSame DEF EngInv, CacheInv, workVars
  <2>6. TreeInv'
    BY <2>1, TreeFrame DEF EngInv, workVars, treeVars
  <2>7. QED
    BY <2>2, <2>3, <2>4, <2>5, <2>6 DEF EngInv
<1>3. QED
  BY <1>1, <1>2
LEMMA EngInvSound == ASSUME EngInv PROVE EngineSound
<1>1. EngTypeOK
  BY DEF EngInv, EvInv, WorkInv, AtWork, ChanInv, CacheInv, EngTypeOK, EventPcs
<1>2. LeafIsWhatWasRead
  BY DEF EngInv, ResultInv, LeafIsWhatWasRead, Shown
<1>3. OneReaderPerFile
  BY DEF EngInv, HashingInv, OneReaderPerFile, HashKey
<1>4. JoinedHasLeader
  BY DEF EngInv, FlightInv, HashingInv, JoinedHasLeader, HashKey, Leading
<1>5. StopDrains
  <2>1. ASSUME engStop = "done", NEW e \in Events PROVE evPc[e] \notin {"queued"} \cup Waiting
    <3>1. engDispatch = "end" /\ engChan = <<>> /\ evPc[e] \notin Waiting
      BY <2>1 DEF EngInv, ChanInv
    <3>2. Range(engChan) = {}
      BY <3>1, QueueNone
    <3>3. QED
      BY <3>1, <3>2 DEF EngInv, ChanInv
  <2>2. QED
    BY <2>1 DEF StopDrains
<1>6. BuilderReachable
  BY DEF EngInv, TreeInv
<1>7. QED
  BY <1>1, <1>2, <1>3, <1>4, <1>5, <1>6 DEF EngineSound

\* The layermerkle engine for every set of events, layers and paths, every number of workers
\* and every size of its channel and cache, when stacks are told apart by their top layers:
\* a leaf is the hash of the file its event saw, each file has one reader at a time, a
\* coalesced request has a leader, Stop leaves nothing behind and every builder is reachable.
THEOREM EngineSoundAlways == ASSUME ToldApart PROVE EngSpec => []EngineSound
<1>1. EngInit => EngInv
  BY EngStarts
<1>2. EngInv /\ [EngNext]_engVars => EngInv'
  BY EngKept
<1>3. EngInv => EngineSound
  BY EngInvSound
<1>4. QED
  BY <1>1, <1>2, <1>3, PTL DEF EngSpec
=============================================================================
