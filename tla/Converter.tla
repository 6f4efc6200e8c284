----------------------------- MODULE Converter -------------------------------
(***************************************************************************)
(* The image converter (src/core/images/converter): an index's manifests   *)
(* are converted concurrently, and each manifest's layers, which share one *)
(* conversion per digest while it is in flight and one semaphore; then the *)
(* configuration, whose diff IDs are looked up in a shared map; then the   *)
(* manifest and the index are written.                                     *)
(*                                                                         *)
(* A layer is named by its digest.  A world is [manifests, diff, to,       *)
(* faults]: each manifest's [layers, match], its configuration holding the *)
(* layers' diff IDs; the diff ID of each layer, old or new; what each old  *)
(* layer becomes, itself when the layer function returns nil; and what     *)
(* fails: <<"layer", digest>>, <<"hook", manifest>>, <<"read", manifest>>, *)
(* <<"config", manifest>>, <<"post", manifest>>, <<"write", manifest>>.    *)
(***************************************************************************)
EXTENDS Naturals, Sequences, SequencesExt, FiniteSets, Functions

CONSTANTS
    CvWorlds,
    SemSize,   \* slots of layerSem
    NoMap      \* a diff ID that diffIDMap does not hold

\* Manifests have the layers the world knows, and a layer, old or new, has a diff ID.
ASSUME CvWorldsAssumption ==
    \A w \in CvWorlds :
        /\ \A l \in DOMAIN w.to : l \in DOMAIN w.diff /\ w.to[l] \in DOMAIN w.diff
        /\ \A m \in 1..Len(w.manifests) : \A k \in 1..Len(w.manifests[m].layers) :
                w.manifests[m].layers[k] \in DOMAIN w.to
        /\ \A m \in 1..Len(w.manifests) : DOMAIN w.manifests[m].layers = 1..Len(w.manifests[m].layers)
        /\ NoMap \notin Range(w.diff)

VARIABLES
    cvOf,      \* the world
    cvCtx,     \* manifests whose context is done
    cvPc,      \* of each manifest: "read", "layers", "config", "write", or its end "new", "same", "removed", "err"
    cvTask,    \* of each of its layers: "call", "wait", "record", "ok", "err"
    cvFlight,  \* layer -> the manifest whose context its conversion runs under, 0 when there is none
    cvRun,     \* conversions that hold a slot
    cvCalls,   \* how often each layer's conversion ran
    cvMap,     \* diffIDMap
    cvLayers, cvDiffs, cvLabels,   \* the new manifest: layers, the configuration's diff IDs, GC labels
    cvHook,    \* manifests whose PreConvertHook has failed
    cvOut      \* "run", "ok", "err"

cvVars == <<cvOf, cvCtx, cvPc, cvTask, cvFlight, cvRun, cvCalls, cvMap, cvLayers, cvDiffs, cvLabels, cvHook, cvOut>>

Ms == 1..Len(cvOf.manifests)
Ls(m) == 1..Len(cvOf.manifests[m].layers)
Old(m, k) == cvOf.manifests[m].layers[k]
AllLayers == DOMAIN cvOf.to
CvFault(op, x) == <<op, x>> \in cvOf.faults
Ended(m) == cvPc[m] \in {"new", "same", "removed", "err"}

CvInit ==
    /\ cvOf \in CvWorlds /\ cvCtx = {} /\ cvPc = [m \in Ms |-> "read"] /\ cvTask = [m \in Ms |-> [k \in Ls(m) |-> "call"]]
    /\ cvFlight = [l \in AllLayers |-> 0] /\ cvRun = {} /\ cvCalls = [l \in AllLayers |-> 0]
    /\ cvMap = [d \in Range(cvOf.diff) |-> NoMap]
    /\ cvLayers = [m \in Ms |-> cvOf.manifests[m].layers]
    /\ cvDiffs = [m \in Ms |-> [k \in Ls(m) |-> cvOf.diff[Old(m, k)]]]
    /\ cvLabels = [m \in Ms |-> [k \in Ls(m) |-> {Old(m, k)}]]
    /\ cvHook = {} /\ cvOut = "run"

\* A manifest's error cancels the contexts of all the others.
EndManifest(m, how) ==
    /\ cvPc' = [cvPc EXCEPT ![m] = how]
    /\ cvCtx' = IF how = "err" THEN Ms ELSE cvCtx

\* convertIndex leaves out what the platform does not match; then ReadJSON.  The deferred
\* eg.Wait of convertManifest takes the place of its own error: without a hook's error a
\* manifest that cannot be read counts as unchanged.
CvRead(m) ==
    /\ cvPc[m] = "read" /\ cvOut = "run"
    /\ \/ ~cvOf.manifests[m].match /\ EndManifest(m, "removed")
       \/ cvOf.manifests[m].match /\ CvFault("read", m) /\ EndManifest(m, IF CvFault("hook", m) THEN "err" ELSE "same")
       \/ cvOf.manifests[m].match /\ ~CvFault("read", m) /\ EndManifest(m, "layers")
    /\ UNCHANGED <<cvOf, cvTask, cvFlight, cvRun, cvCalls, cvMap, cvLayers, cvDiffs, cvLabels, cvHook, cvOut>>

\* The PreConvertHook of a manifest runs beside its layers and fails.
CvHookFails(m) ==
    /\ cvPc[m] = "layers" /\ m \notin cvHook /\ CvFault("hook", m) /\ cvHook' = cvHook \cup {m} /\ cvCtx' = cvCtx \cup {m}
    /\ UNCHANGED <<cvOf, cvPc, cvTask, cvFlight, cvRun, cvCalls, cvMap, cvLayers, cvDiffs, cvLabels, cvOut>>

-----------------------------------------------------------------------------
\* layerGroup.Do: the first caller's context is the one the conversion runs under.
LayerCall(m, k) ==
    /\ cvPc[m] = "layers" /\ cvTask[m][k] = "call" /\ cvTask' = [cvTask EXCEPT ![m][k] = "wait"]
    /\ cvFlight' = IF cvFlight[Old(m, k)] = 0 THEN [cvFlight EXCEPT ![Old(m, k)] = m] ELSE cvFlight
    /\ UNCHANGED <<cvOf, cvCtx, cvPc, cvRun, cvCalls, cvMap, cvLayers, cvDiffs, cvLabels, cvHook, cvOut>>

\* All that wait for the conversion get its result.
SlotsAfter(l, ok) == cvRun \ {l}
FlightEnds(l, ok) ==
    /\ cvFlight' = [cvFlight EXCEPT ![l] = 0] /\ cvRun' = SlotsAfter(l, ok)
    /\ cvTask' = [m \in Ms |-> [k \in Ls(m) |-> IF Old(m, k) = l /\ cvTask[m][k] = "wait"
                                                THEN (IF ok THEN "record" ELSE "err") ELSE cvTask[m][k]]]
    /\ cvCtx' = IF ok THEN cvCtx ELSE cvCtx \cup {m \in Ms : \E k \in Ls(m) : Old(m, k) = l /\ cvTask[m][k] = "wait"}

\* A slot of the semaphore, or the end of the context.
TakeSlot(l) ==
    /\ cvFlight[l] # 0 /\ l \notin cvRun
    /\ \/ /\ Cardinality(cvRun) < SemSize /\ cvRun' = cvRun \cup {l} /\ cvCalls' = [cvCalls EXCEPT ![l] = @ + 1]
          /\ UNCHANGED <<cvFlight, cvTask, cvCtx>>
       \/ cvFlight[l] \in cvCtx /\ FlightEnds(l, FALSE) /\ UNCHANGED cvCalls
    /\ UNCHANGED <<cvOf, cvPc, cvMap, cvLayers, cvDiffs, cvLabels, cvHook, cvOut>>
ConvertLayer(l) ==
    /\ cvFlight[l] # 0 /\ l \in cvRun
    /\ \/ ~CvFault("layer", l) /\ FlightEnds(l, TRUE)
       \/ (CvFault("layer", l) \/ cvFlight[l] \in cvCtx) /\ FlightEnds(l, FALSE)
    /\ UNCHANGED <<cvOf, cvPc, cvCalls, cvMap, cvLayers, cvDiffs, cvLabels, cvHook, cvOut>>

\* The result goes into diffIDMap, the manifest and its labels.
ClearLabels(ls, l) == [k \in DOMAIN ls |-> ls[k] \ {l}]
RecordMap(m, k) ==
    LET l == Old(m, k)
        n == cvOf.to[l]
    IN cvMap' = IF n = l \/ cvOf.diff[n] = cvOf.diff[l] THEN cvMap ELSE [cvMap EXCEPT ![cvOf.diff[l]] = cvOf.diff[n]]

Relabel(ls, k, l, n) == [ClearLabels(ls, l) EXCEPT ![k] = @ \cup {n}]
RecordLayer(m, k) ==
    LET l == Old(m, k)
        n == cvOf.to[l]
    IN /\ cvTask[m][k] = "record" /\ cvTask' = [cvTask EXCEPT ![m][k] = "ok"] /\ RecordMap(m, k)
       /\ IF n = l THEN UNCHANGED <<cvLayers, cvLabels>>
          ELSE cvLayers' = [cvLayers EXCEPT ![m][k] = n] /\ cvLabels' = [cvLabels EXCEPT ![m] = Relabel(@, k, l, n)]
       /\ UNCHANGED <<cvOf, cvCtx, cvPc, cvFlight, cvRun, cvCalls, cvDiffs, cvHook, cvOut>>

-----------------------------------------------------------------------------
\* Variant: the configuration is converted when one layer is.
LayersOverAny(m) == \E k \in Ls(m) : cvTask[m][k] = "ok"

\* eg.Wait: all layers are done.
LayersOver(m) == \A k \in Ls(m) : cvTask[m][k] \in {"ok", "err"}

LayerFailed(m) == m \in cvHook \/ \E k \in Ls(m) : cvTask[m][k] = "err"
CvLayersEnd(m) ==
    /\ cvPc[m] = "layers" /\ LayersOver(m) /\ (CvFault("hook", m) => m \in cvHook)
    /\ EndManifest(m, IF LayerFailed(m) THEN "err" ELSE "config")
    /\ UNCHANGED <<cvOf, cvTask, cvFlight, cvRun, cvCalls, cvMap, cvLayers, cvDiffs, cvLabels, cvHook, cvOut>>

\* convertConfig: the diff IDs the map knows.  An error of its own is lost the same way,
\* and the configuration stays; the error of its PostConvertHook ends the manifest as unchanged.
CvConfig(m) ==
    /\ cvPc[m] = "config"
    /\ \/ CvFault("config", m) /\ EndManifest(m, "write") /\ UNCHANGED cvDiffs
       \/ CvFault("post", m) /\ EndManifest(m, "same") /\ UNCHANGED cvDiffs
       \/ /\ ~CvFault("config", m) /\ ~CvFault("post", m) /\ EndManifest(m, "write")
          /\ cvDiffs' = [cvDiffs EXCEPT ![m] = [k \in Ls(m) |-> IF cvMap[@[k]] = NoMap THEN @[k] ELSE cvMap[@[k]]]]
    /\ UNCHANGED <<cvOf, cvTask, cvFlight, cvRun, cvCalls, cvMap, cvLayers, cvLabels, cvHook, cvOut>>
Changed(m) == cvLayers[m] # cvOf.manifests[m].layers \/ \E k \in Ls(m) : cvDiffs[m][k] # cvOf.diff[Old(m, k)]
CvWrite(m) ==
    /\ cvPc[m] = "write" /\ EndManifest(m, IF Changed(m) /\ ~CvFault("write", m) THEN "new" ELSE "same")
    /\ UNCHANGED <<cvOf, cvTask, cvFlight, cvRun, cvCalls, cvMap, cvLayers, cvDiffs, cvLabels, cvHook, cvOut>>

\* convertIndex waits for every manifest.
CvIndex ==
    /\ cvOut = "run" /\ \A m \in Ms : Ended(m)
    /\ cvOut' = IF \E m \in Ms : cvPc[m] = "err" THEN "err" ELSE "ok"
    /\ UNCHANGED <<cvOf, cvCtx, cvPc, cvTask, cvFlight, cvRun, cvCalls, cvMap, cvLayers, cvDiffs, cvLabels, cvHook>>

CvNext ==
    \/ \E m \in Ms : CvRead(m) \/ CvHookFails(m) \/ CvLayersEnd(m) \/ CvConfig(m) \/ CvWrite(m)
    \/ \E m \in Ms : \E k \in Ls(m) : LayerCall(m, k) \/ RecordLayer(m, k)
    \/ \E l \in AllLayers : TakeSlot(l) \/ ConvertLayer(l)
    \/ CvIndex

CvSpec == CvInit /\ [][CvNext]_cvVars

-----------------------------------------------------------------------------
\* An error of a manifest that is lost, as the comments on CvRead and CvConfig say.
LosesError(m) == \E op \in {"read", "config", "post", "write"} : CvFault(op, m)

\* The configuration of a manifest that is written names the diff IDs of the layers the
\* manifest has, although the map they come from is shared by all manifests.
ConfigFollowsLayers ==
    \A m \in Ms : cvPc[m] = "new" /\ ~CvFault("config", m) =>
        \A k \in Ls(m) : cvDiffs[m][k] = cvOf.diff[cvLayers[m][k]]

\* A conversion that ends well has converted every layer of every manifest that matches: an
\* error under a shared conversion, a cancellation or a hook's error is not lost.
SuccessIsWhole ==
    cvOut = "ok" => \A m \in Ms : cvOf.manifests[m].match /\ ~LosesError(m) =>
                        \A k \in Ls(m) : cvLayers[m][k] = cvOf.to[Old(m, k)]

\* The labels of a manifest that is written keep its layers, and no old layer that is gone.
LabelsKeepLayers ==
    \A m \in Ms : cvPc[m] = "new" => UNION Range(cvLabels[m]) = Range(cvLayers[m])

\* A converted image is of a piece: configuration, layers and labels of each manifest agree,
\* although manifests share conversions and any step may fail.
ConversionsSound == ConfigFollowsLayers /\ SuccessIsWhole /\ LabelsKeepLayers
=============================================================================
