------------------------------ MODULE MCImages -------------------------------
(***************************************************************************)
(* Images, part by part: the pipeline that commits the layers of one as    *)
(* snapshots, sibling exports of an artifact, the conversion of an index.  *)
(***************************************************************************)
EXTENDS SnapshotPipeline, Exporter, Converter, TLC

CONSTANTS d1, d2

VARIABLE part

\* Two layers with different contents.
LayerDiff == (0 :> d1) @@ (1 :> d2)

-----------------------------------------------------------------------------
\* Two layers, one of them later than the epoch, and attestations.
Art(e, ps) == [layers |-> <<[digest |-> 1, created |-> 3], [digest |-> 2, created |-> NoTime]>>, made |-> NoTime,
               atts |-> <<[kind |-> "sbom", path |-> "a", inline |-> FALSE], [kind |-> "slsa", path |-> "a", inline |-> FALSE],
                          [kind |-> "vuln", path |-> "b", inline |-> TRUE]>>,
               ann |-> [k \in {"title"} |-> 7], epoch |-> e, platforms |-> ps]
Epoch(now) == [name |-> "epoch", prio |-> 1, op |-> "epoch", now |-> now]
Attest(ks) == [name |-> "attest", prio |-> 3, op |-> "attestation", kinds |-> ks, dedup |-> TRUE]
Annotate(ks, p, s) == [name |-> "annotate", prio |-> 4, op |-> "annotation", keys |-> ks, value |-> 9, preserve |-> p, strict |-> s]
Late == [name |-> "late", prio |-> 5, op |-> "annotation", keys |-> {"vendor", "title"}, value |-> 8, preserve |-> FALSE, strict |-> FALSE]
Opts(on, off) == [k \in on \cup off |-> IF k \in on THEN "true" ELSE "false"]
Job(names, opts) == [names |-> names, opts |-> opts, pusher |-> TRUE, storer |-> TRUE]
Push2 == Opts({"push", "push-by-digest", "unpack"}, {"attestation-inline"})
ExWorld(a, ts, js) == [artifact |-> a, held |-> {1, 2}, transformers |-> ts, jobs |-> js, epoch |-> 2, faults |-> {}]
MCExWorlds ==
    LET one == ExWorld(Art(2, <<"x">>), <<<<Late, Annotate({"created", "vendor"}, FALSE, FALSE), Epoch(FALSE)>>, <<Epoch(FALSE), Annotate({"created", "vendor"}, FALSE, FALSE), Late>>>>,
                       <<Job(<<"n">>, Opts({}, {"attestation-inline"})), Job(<<"n">>, Opts({}, {"attestation-inline"}))>>)
        two == ExWorld(Art(NoTime, <<"x", "y">>), <<<<Epoch(TRUE), Attest({"sbom", "slsa"})>>, <<Annotate({"created"}, FALSE, FALSE)>>>>,
                       <<Job(<<"n", "o">>, Push2), Job(<<"o">>, Opts({"push"}, {"store"}))>>)
    IN {one, two, [one EXCEPT !.faults = {"write"}], [two EXCEPT !.faults = {"has", "store", "unpack", "push"}],
        [one EXCEPT !.jobs[1].opts = [k \in {"colour"} |-> "true"], !.jobs[2].opts = [k \in {"push"} |-> "bad"]],
        [one EXCEPT !.jobs[1].opts = Push2, !.jobs[1].pusher = FALSE, !.transformers[2] = <<Epoch(TRUE), Epoch(FALSE)>>],
        [one EXCEPT !.artifact.layers[1].digest = 0, !.transformers[1] = <<Annotate({"title"}, FALSE, TRUE)>>],
        [one EXCEPT !.artifact.atts[1].path = "", !.transformers[1] = <<Attest({})>>, !.jobs[2].names = <<>>],
        [one EXCEPT !.held = {2}, !.jobs[1].storer = FALSE]}

\* Two manifests share layer 1; layer 3 stays as it is; manifest 3 is of another platform.
Man(ls, m) == [layers |-> ls, match |-> m]
CvWorld(ms, fs) == [manifests |-> ms, diff |-> <<1, 2, 3, 11, 12>>, to |-> <<4, 5, 3>>, faults |-> fs]
MCCvWorlds ==
    {CvWorld(<<Man(<<1, 2>>, TRUE), Man(<<1, 3>>, TRUE), Man(<<2>>, FALSE)>>, fs) :
        fs \in {{}, {<<"layer", 1>>}, {<<"hook", 2>>}, {<<"config", 1>>, <<"write", 2>>}, {<<"read", 1>>, <<"post", 2>>}}}
    \cup {CvWorld(<<Man(<<1, 1, 2>>, TRUE)>>, {}), CvWorld(<<Man(<<3>>, TRUE)>>, {}),
          CvWorld(<<Man(<<1>>, TRUE), Man(<<2>>, TRUE)>>, {<<"layer", 1>>, <<"read", 2>>})}

-----------------------------------------------------------------------------
NoExport == exOf = (CHOOSE w \in ExWorlds : TRUE) /\ exClock = 1
NoConvert == cvOf = CHOOSE w \in CvWorlds : TRUE
NoPipeline == committed = {} /\ active = {}
MCInit ==
    /\ Init
    /\ \/ part = "snapshot" /\ NoExport /\ NoConvert
       \/ part = "export" /\ NoPipeline /\ NoConvert
       \/ part = "convert" /\ NoPipeline /\ NoExport
    /\ ExInit /\ CvInit

mcVars == <<part, vars, exVars, cvVars>>
Pipeline(A) == part = "snapshot" /\ A /\ UNCHANGED <<part, exVars, cvVars>>
Exporting(A) == part = "export" /\ A /\ UNCHANGED <<part, vars, cvVars>>
Converting(A) == part = "convert" /\ A /\ UNCHANGED <<part, vars, exVars>>
MCNext == Pipeline(Next) \/ Exporting(ExNext) \/ Converting(CvNext)
MCSpec ==
    /\ MCInit /\ [][MCNext]_mcVars
    /\ WF_mcVars(Pipeline(Caller)) /\ (\A w \in Workers : WF_mcVars(Pipeline(Worker(w))))
    /\ WF_mcVars(Pipeline(CloseResults)) /\ WF_mcVars(Pipeline(Committer))
    /\ WF_mcVars(Exporting(ExStep)) /\ WF_mcVars(Converting(CvNext))

\* "The caller's send loop never blocks permanently" and errCh "receives exactly one value",
\* whatever fails in the pipeline and whenever; every export ends, its push included; and so
\* does a conversion: no layer waits for ever for a slot or for the conversion another
\* manifest began.
ImagesEnd ==
    <>(/\ part = "snapshot" => Over
       /\ part = "export" => \A j \in Jobs : Terminal(j)
       /\ part = "convert" => cvOut # "run")
=============================================================================
