------------------------------ MODULE Exporter -------------------------------
(***************************************************************************)
(* The container image exporter (src/plugins/exporter): the registry of    *)
(* exporters, the pipeline with its transformers, and sibling exports that *)
(* commit blobs to one content store, name the image and push it.          *)
(*                                                                         *)
(* A digest is the content itself, a time a number.  A world is [artifact, *)
(* held, transformers, jobs, epoch, faults]: one artifact, those of its    *)
(* layers the content store holds, the transformers in the order each      *)
(* pipeline is given them, the options and dependencies of each export,    *)
(* the request's epoch, and the operations that fail.                      *)
(***************************************************************************)
EXTENDS Naturals, Sequences, SequencesExt, FiniteSets

CONSTANTS
    ExWorlds,
    MaxClock,  \* bound on the clock
    NoTime     \* no time is given

VARIABLES
    exOf,      \* the world
    exClock,
    exCtx,     \* the exports that are cancelled
    exPc,      \* "build", "transform", "layers", "has", "write", "store", "unpack", "push", "ok", "failed"
    exArt,     \* the artifact each export has transformed so far
    exAt,      \* its next transformer, blob or name
    exPlan,    \* the blobs it is to write, in order
    exBlobs,   \* the content store
    exNamed,   \* <<name, root>> of the image store
    exPushed   \* <<reference, root>> of the registry

exVars == <<exOf, exClock, exCtx, exPc, exArt, exAt, exPlan, exBlobs, exNamed, exPushed>>

Jobs == DOMAIN exOf.jobs
Terminal(j) == exPc[j] \in {"ok", "failed"}

-----------------------------------------------------------------------------

\* AddTransformer keeps the list sorted by priority, stably.
AddSorted(s, t) ==
    LET before == {i \in 1..Len(s) : s[i].prio <= t.prio}
        n == Cardinality(before)
    IN SubSeq(s, 1, n) \o <<t>> \o SubSeq(s, n + 1, Len(s))
Ordered(ts) == FoldLeft(AddSorted, <<>>, ts)
DuplicateName(ts) == \E i, k \in 1..Len(ts) : i < k /\ ts[i].name = ts[k].name

Clamp(t, epoch) == IF t = NoTime \/ t > epoch THEN epoch ELSE t

\* EpochTransformer: the epoch of the metadata, or now; it clamps the layers' times.
EpochOf(t, a, now) == IF a.epoch # NoTime THEN a.epoch ELSE IF t.now THEN now ELSE NoTime
ApplyEpoch(t, a, now) ==
    LET e == EpochOf(t, a, now)
    IN IF e = NoTime THEN a
       ELSE [a EXCEPT !.layers = [i \in 1..Len(@) |-> [@[i] EXCEPT !.created = Clamp(@, e)]], !.epoch = e]

\* AttestationTransformer: the kinds that are allowed, each path once.
KeepsAttestation(t, as, i) ==
    /\ t.kinds = {} \/ as[i].kind \in t.kinds
    /\ t.dedup => \A k \in 1..(i - 1) : ~(as[k].path = as[i].path /\ (t.kinds = {} \/ as[k].kind \in t.kinds))
ApplyAttestations(t, a) ==
    [a EXCEPT !.atts = LET keep == {i \in 1..Len(@) : KeepsAttestation(t, @, i)}
                       IN [n \in 1..Cardinality(keep) |-> @[SetToSortSeq(keep, <)[n]]]]

\* AnnotationTransformer: the creation time comes from the epoch when it is positive, then
\* from the newest layer that has one, then from the clock.
CreatedAt(a, now) ==
    LET timed == {i \in 1..Len(a.layers) : a.layers[i].created # NoTime}
    IN IF a.epoch # NoTime /\ a.epoch > 0 THEN a.epoch
       ELSE IF timed # {} THEN a.layers[CHOOSE i \in timed : \A k \in timed : k <= i].created
       ELSE now
Incoming(t, a, now) == [k \in t.keys |-> IF k = "created" THEN CreatedAt(a, now) ELSE t.value]
ApplyAnnotations(t, a, now) ==
    LET new == Incoming(t, a, now)
    IN [a EXCEPT !.ann = [k \in DOMAIN @ \cup t.keys |->
                             IF k \in t.keys /\ ~(k \in DOMAIN @ /\ t.preserve) THEN new[k] ELSE @[k]]]

TransformFails(t, a) ==
    CASE t.op = "attestation" -> \E i \in 1..Len(a.atts) : a.atts[i].path = "" /\ a.atts[i].kind # "bundle"
      [] t.op = "annotation" -> t.strict /\ DOMAIN a.ann \cap t.keys # {}
      [] OTHER -> FALSE
Transformed(t, a, now) ==
    CASE t.op = "epoch" -> ApplyEpoch(t, a, now)
      [] t.op = "attestation" -> ApplyAttestations(t, a)
      [] t.op = "annotation" -> ApplyAnnotations(t, a, now)

-----------------------------------------------------------------------------
\* ParseConfig: an unknown key or a value that is no boolean is an error.
OptionKeys == {"push", "push-by-digest", "store", "unpack", "attestation-inline", "oci-mediatypes", "oci-artifact"}
BadOptions(opts) == \E k \in DOMAIN opts : k \notin OptionKeys \/ opts[k] = "bad"
Opt(opts, k, default) == IF k \in DOMAIN opts THEN opts[k] # "false" ELSE default
Inline(opts) == Opt(opts, "attestation-inline", TRUE)
OCITypes(opts) == Opt(opts, "oci-mediatypes", TRUE) \/ Opt(opts, "oci-artifact", FALSE)

\* The blobs of one platform, each after what it refers to: the configuration, the manifest
\* of all layers, and the attestations with a manifest of their own, which nothing refers to.
Config(w, a) ==
    [type |-> "config", diffs |-> [i \in 1..Len(a.layers) |-> a.layers[i].digest],
     made |-> IF w.epoch = NoTime THEN a.made ELSE Clamp(a.made, w.epoch)]
Manifest(w, opts, a) ==
    [type |-> "manifest", oci |-> OCITypes(opts), config |-> Config(w, a),
     layers |-> [i \in 1..Len(a.layers) |-> a.layers[i].digest], ann |-> a.ann]
Payload(x) == [type |-> "payload", path |-> x.path]
EmptyConfig == [type |-> "empty"]
External(opts, a) == IF Inline(opts) THEN <<>> ELSE SelectSeq(a.atts, LAMBDA x : ~x.inline)
AttestationManifest(w, opts, a) ==
    [type |-> "attestations", subject |-> Manifest(w, opts, a),
     payloads |-> [i \in 1..Len(External(opts, a)) |-> Payload(External(opts, a)[i])]]
AttestationBlobs(w, opts, a) ==
    IF External(opts, a) = <<>> THEN <<>>
    ELSE [i \in 1..Len(External(opts, a)) |-> Payload(External(opts, a)[i])]
         \o <<EmptyConfig, AttestationManifest(w, opts, a)>>

\* Variant: the manifest is written before its configuration.
PlatformBlobsSwapped(w, opts, a) == <<Manifest(w, opts, a), Config(w, a)>> \o AttestationBlobs(w, opts, a)

PlatformBlobs(w, opts, a) == <<Config(w, a), Manifest(w, opts, a)>> \o AttestationBlobs(w, opts, a)

\* exportManifest, or exportIndex over all platforms, whose slices have all the layers.
Index(w, opts, a) ==
    [type |-> "index", manifests |-> [i \in 1..Len(a.platforms) |-> [m |-> Manifest(w, opts, a), of |-> a.platforms[i]]],
     ann |-> a.ann]
Root(w, opts, a) == IF Len(a.platforms) > 1 THEN Index(w, opts, a) ELSE Manifest(w, opts, a)

Plan(w, opts, a) ==
    IF Len(a.platforms) > 1
    THEN FlattenSeq([i \in 1..Len(a.platforms) |-> PlatformBlobs(w, opts, a)]) \o <<Index(w, opts, a)>>
    ELSE PlatformBlobs(w, opts, a)

-----------------------------------------------------------------------------
Layer(d) == [type |-> "layer", digest |-> d]

ExInit ==
    /\ exOf \in ExWorlds /\ exClock \in 1..MaxClock /\ exCtx = {} /\ exBlobs = {Layer(d) : d \in exOf.held} /\ exNamed = {} /\ exPushed = {}
    /\ exPc = [j \in Jobs |-> "build"] /\ exArt = [j \in Jobs |-> exOf.artifact]
    /\ exAt = [j \in Jobs |-> 1] /\ exPlan = [j \in Jobs |-> <<>>]

ExTick ==
    /\ exClock < MaxClock /\ exClock' = exClock + 1
    /\ UNCHANGED <<exOf, exCtx, exPc, exArt, exAt, exPlan, exBlobs, exNamed, exPushed>>
ExCancel(j) ==
    /\ j \notin exCtx /\ ~Terminal(j) /\ exCtx' = exCtx \cup {j}
    /\ UNCHANGED <<exOf, exClock, exPc, exArt, exAt, exPlan, exBlobs, exNamed, exPushed>>

ExGoto(j, pc) == exPc' = [exPc EXCEPT ![j] = pc] /\ exAt' = [exAt EXCEPT ![j] = 1]
ExNext1(j) == exAt' = [exAt EXCEPT ![j] = @ + 1] /\ UNCHANGED exPc
Faulty(op) == op \in exOf.faults

\* Build: the exporter's Resolve, then the transformers.
ExBuild(j) ==
    /\ exPc[j] = "build"
    /\ ExGoto(j, IF BadOptions(exOf.jobs[j].opts) \/ DuplicateName(exOf.transformers[j]) THEN "failed" ELSE "transform")
    /\ UNCHANGED <<exOf, exClock, exCtx, exArt, exPlan, exBlobs, exNamed, exPushed>>

\* Execute: one transformer after the other, then Export.
ExTransform(j) ==
    /\ exPc[j] = "transform"
    /\ LET ts == Ordered(exOf.transformers[j])
       IN \/ /\ exAt[j] > Len(ts) /\ ExGoto(j, "layers") /\ UNCHANGED exArt
          \/ /\ exAt[j] <= Len(ts)
             /\ LET t == ts[exAt[j]]
                IN IF TransformFails(t, exArt[j]) THEN ExGoto(j, "failed") /\ UNCHANGED exArt
                   ELSE ExNext1(j) /\ exArt' = [exArt EXCEPT ![j] = Transformed(t, @, exClock)]
    /\ UNCHANGED <<exOf, exClock, exCtx, exPlan, exBlobs, exNamed, exPushed>>

\* commitLayers only looks at the digests: it "persists" no layer (writer.go:89), and does not
\* look whether the store holds one.
ExLayers(j) ==
    /\ exPc[j] = "layers"
    /\ IF \E i \in 1..Len(exArt[j].layers) : exArt[j].layers[i].digest = 0
       THEN ExGoto(j, "failed") /\ UNCHANGED exPlan
       ELSE ExGoto(j, "has") /\ exPlan' = [exPlan EXCEPT ![j] = Plan(exOf, exOf.jobs[j].opts, exArt[j])]
    /\ UNCHANGED <<exOf, exClock, exCtx, exArt, exBlobs, exNamed, exPushed>>

\* writeBlob: a blob that is there is not written again; when Has fails it is.
ExHas(j) ==
    /\ exPc[j] = "has"
    /\ \/ exAt[j] > Len(exPlan[j]) /\ ExGoto(j, "store")
       \/ exAt[j] <= Len(exPlan[j]) /\ exPlan[j][exAt[j]] \in exBlobs /\ ~Faulty("has") /\ ExNext1(j)
       \/ /\ exAt[j] <= Len(exPlan[j]) /\ (exPlan[j][exAt[j]] \notin exBlobs \/ Faulty("has"))
          /\ exPc' = [exPc EXCEPT ![j] = "write"] /\ UNCHANGED exAt
    /\ UNCHANGED <<exOf, exClock, exCtx, exArt, exPlan, exBlobs, exNamed, exPushed>>
ExWrite(j) ==
    /\ exPc[j] = "write"
    /\ \/ /\ exBlobs' = exBlobs \cup {exPlan[j][exAt[j]]}
          /\ exAt' = [exAt EXCEPT ![j] = @ + 1] /\ exPc' = [exPc EXCEPT ![j] = "has"]
       \/ (Faulty("write") \/ j \in exCtx) /\ ExGoto(j, "failed") /\ UNCHANGED exBlobs
    /\ UNCHANGED <<exOf, exClock, exCtx, exArt, exPlan, exNamed, exPushed>>

RootOf(j) == Root(exOf, exOf.jobs[j].opts, exArt[j])
Names1(j) == exOf.jobs[j].names

\* The image store, if there is one, name by name; an error leaves the names before it.
AfterStore(j) ==
    LET o == exOf.jobs[j].opts
    IN IF Opt(o, "push", FALSE) THEN (IF exOf.jobs[j].pusher THEN "push" ELSE "failed") ELSE "ok"

StoreError(j) == ExGoto(j, "failed")
Naming(j) == Opt(exOf.jobs[j].opts, "store", TRUE) /\ exOf.jobs[j].storer /\ Names1(j) # <<>>
ExStore(j) ==
    /\ exPc[j] = "store"
    /\ \/ ~Naming(j) /\ ExGoto(j, AfterStore(j)) /\ UNCHANGED exNamed
       \/ /\ Naming(j) /\ exAt[j] <= Len(Names1(j))
          /\ \/ exNamed' = {x \in exNamed : x[1] # Names1(j)[exAt[j]]} \cup {<<Names1(j)[exAt[j]], RootOf(j)>>} /\ ExNext1(j)
             \/ (Faulty("store") \/ j \in exCtx) /\ StoreError(j) /\ UNCHANGED exNamed
       \/ /\ Naming(j) /\ exAt[j] > Len(Names1(j)) /\ UNCHANGED exNamed
          /\ ExGoto(j, IF Opt(exOf.jobs[j].opts, "unpack", FALSE) THEN "unpack" ELSE AfterStore(j))
    /\ UNCHANGED <<exOf, exClock, exCtx, exArt, exPlan, exBlobs, exPushed>>
ExUnpack(j) ==
    /\ exPc[j] = "unpack"
    /\ \/ ExGoto(j, AfterStore(j))
       \/ (Faulty("unpack") \/ j \in exCtx) /\ ExGoto(j, "failed")
    /\ UNCHANGED <<exOf, exClock, exCtx, exArt, exPlan, exBlobs, exNamed, exPushed>>

\* The references to push: the names, and the digest.
Refs(j) == Names1(j) \o (IF Opt(exOf.jobs[j].opts, "push-by-digest", FALSE) THEN <<"digest">> ELSE <<>>)

\* The finalize function, which the caller runs once every export has returned.
ExPush(j) ==
    /\ exPc[j] = "push" /\ \A k \in Jobs : Terminal(k) \/ exPc[k] = "push"
    /\ \/ exAt[j] > Len(Refs(j)) /\ ExGoto(j, "ok") /\ UNCHANGED exPushed
       \/ /\ exAt[j] <= Len(Refs(j))
          /\ \/ exPushed' = {x \in exPushed : x[1] # Refs(j)[exAt[j]]} \cup {<<Refs(j)[exAt[j]], RootOf(j)>>} /\ ExNext1(j)
             \/ (Faulty("push") \/ j \in exCtx) /\ ExGoto(j, "failed") /\ UNCHANGED exPushed
    /\ UNCHANGED <<exOf, exClock, exCtx, exArt, exPlan, exBlobs, exNamed>>

ExStep == \E j \in Jobs : ExBuild(j) \/ ExTransform(j) \/ ExLayers(j) \/ ExHas(j) \/ ExWrite(j) \/ ExStore(j)
                          \/ ExUnpack(j) \/ ExPush(j)
ExNext == ExTick \/ (\E j \in Jobs : ExCancel(j)) \/ ExStep

-----------------------------------------------------------------------------
\* Types, and the position of every export within what it works through.
ExTypeOK ==
    /\ exCtx \subseteq Jobs /\ exClock \in 1..MaxClock
    /\ \A j \in Jobs :
          exAt[j] \in 1..(CASE exPc[j] = "transform" -> Len(exOf.transformers[j]) + 1
                           [] exPc[j] \in {"has", "write"} -> Len(exPlan[j]) + 1
                           [] exPc[j] = "store" -> Len(Names1(j)) + 1
                           [] exPc[j] = "push" -> Len(Refs(j)) + 1
                           [] OTHER -> 1)

\* What a blob refers to.
RefersTo(b) ==
    CASE b.type = "manifest" -> {b.config} \cup {Layer(b.layers[i]) : i \in 1..Len(b.layers)}
      [] b.type = "index" -> {b.manifests[i].m : i \in 1..Len(b.manifests)}
      [] b.type = "attestations" -> {b.subject, EmptyConfig} \cup {b.payloads[i] : i \in 1..Len(b.payloads)}
      [] OTHER -> {}

\* Layers the caller did not bring: an export "commits all layer blobs" (instance.go:34), but
\* writes none, and gives an image without them its names.
Absent == {Layer(exOf.artifact.layers[i].digest) : i \in 1..Len(exOf.artifact.layers)} \ {Layer(d) : d \in exOf.held}

\* But for them the content store is closed at every moment: whatever a blob refers to was
\* written before it, also when another export writes the same blobs, one is cancelled, or a
\* write fails.
StoreIsClosed == \A b \in exBlobs : RefersTo(b) \subseteq exBlobs \cup Absent

\* A name in the image store and a reference in the registry stand for an image that is in
\* the content store as a whole, but for them.
NamedIsComplete == \A x \in exNamed \cup exPushed : x[2] \in exBlobs /\ RefersTo(x[2]) \subseteq exBlobs \cup Absent

\* Two exports of one artifact with a positive epoch yield the same image, whenever each
\* runs and in whatever order its transformers were added.
Reproducible ==
    \A j, k \in Jobs :
        /\ exPc[j] = "ok" /\ exPc[k] = "ok" /\ exOf.artifact.epoch # NoTime /\ exOf.artifact.epoch > 0
        /\ exOf.jobs[j].opts = exOf.jobs[k].opts
        => RootOf(j) = RootOf(k)

\* An export that ends well has given every name it was asked to.  Without an image store it
\* gives none and ends well, though "nil dependencies cause Export to fail" (exporter.go:219).
SuccessIsTold ==
    \A j \in Jobs : exPc[j] = "ok" =>
        /\ Opt(exOf.jobs[j].opts, "store", TRUE) /\ exOf.jobs[j].storer => \A i \in 1..Len(Names1(j)) : \E x \in exNamed : x[1] = Names1(j)[i]
        /\ Opt(exOf.jobs[j].opts, "push", FALSE) => \A i \in 1..Len(Refs(j)) : \E x \in exPushed : x[1] = Refs(j)[i]

\* Exports that share a store, run beside each other and fail or are cancelled at any step:
\* references are never dangling, names stand for whole images, and results are reproducible.
ExportsSound == ExTypeOK /\ StoreIsClosed /\ NamedIsComplete /\ Reproducible /\ SuccessIsTold
=============================================================================
