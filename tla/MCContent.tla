----------------------------- MODULE MCContent -------------------------------
(***************************************************************************)
(* The registry store's ingestion, its reading side (lookups beside one    *)
(* another, or one beside a reader), the connection pool and the B2 store, *)
(* each on its own (part).                                                 *)
(***************************************************************************)
EXTENDS RegistryIngest, RegistryReads, B2Store

VARIABLE part

readVars == <<rrVars, rdVars>>
mcVars == <<part, vars, readVars, cpVars, b2Vars>>
MCInit ==
    /\ part \in {"ingest", "lookups", "reader", "pool", "b2"}
    /\ (part \notin {"lookups", "reader"} => rrLocal = 0) /\ (part # "reader" => rdFast = FALSE)
    /\ (part # "b2" => b2Size = 0 /\ b2Key = "blob")
    /\ Init /\ RrInit /\ CpInit /\ B2Init

Ingest(A) == part = "ingest" /\ A /\ UNCHANGED <<part, readVars, cpVars, b2Vars>>
OneAsker == CHOOSE a \in Askers : TRUE
Asking == IF part = "lookups" THEN Askers ELSE {OneAsker}
Reading(A) ==
    /\ part \in {"lookups", "reader"} /\ A /\ UNCHANGED <<part, vars, cpVars, b2Vars>>
    /\ part = "lookups" => rdPc' = "new"
    /\ \A a \in Askers \ Asking : rrAsk'[a] = "idle"
Pooling(A) == part = "pool" /\ A /\ UNCHANGED <<part, vars, readVars, b2Vars>>
Uploading(A) == part = "b2" /\ A /\ UNCHANGED <<part, vars, readVars, cpVars>>
MCNext == Ingest(Next) \/ Reading(RrNext) \/ Pooling(CpNext) \/ Uploading(B2Next)
MCSpec ==
    /\ MCInit /\ [][MCNext]_mcVars
    /\ \A p \in Procs : WF_mcVars(Ingest(~Crashed /\ Running(p)))
    /\ \A w \in Writers : WF_mcVars(Ingest(~Crashed /\ Work(w)))
    /\ WF_mcVars(Reading(RrProgress)) /\ WF_mcVars(Pooling(CpStep))
    /\ WF_mcVars(Uploading(B2OwnerStep)) /\ WF_mcVars(Uploading(PutEnds)) /\ WF_mcVars(Uploading(B2CloseReturns))

Settled ==
    /\ part \in {"lookups", "reader"} => \A a \in Asking : rrAsk[a] \in {"done", "failed"}
    /\ part = "reader" => rdPc \in {"hit", "closed", "failed"}
    /\ part = "pool" => \A g \in Getters : cpPc[g] = "idle" /\ cpGets[g] = MaxGets
    /\ part = "b2" => b2Closer = "closed"

\* Every Info, every reader and every get of a connection comes to its end, and so does Close
\* of a B2 writer, also without a Write before it, after a failed upload or beside a Commit; and
\* what the cache has does not stay out of date.
ReadsAndUploadsEnd == ((part \in {"lookups", "reader", "pool"} \/ b2Closer = "wait") ~> Settled) /\ StaleEntriesExpire

\* The read side of the registry store and the B2 store: caches follow their stores, a host is
\* dialled once, and a committed upload is whole and keeps its labels.
StoresSound ==
    /\ CacheIsRegular /\ TeeCaches
    /\ OneDialPerEntry /\ NoDeadEntry
    /\ CommittedIsWhole /\ LabelsSurvive

\* Every call on a content store returns.
ContentEnds == CallsReturn /\ ReadsAndUploadsEnd
=============================================================================
