------------------------------- MODULE MCHost -------------------------------
(***************************************************************************)
(* What the executors share on one host, part by part: the pool of network *)
(* namespaces with one build or two ("solo", "pool"), the resource monitor *)
(* with its records and samplers ("short", "long"), a sampler's callback   *)
(* ("stats") and the set-up of the cgroup root ("prepare").                *)
(***************************************************************************)
EXTENDS NSPool, ResourceMonitor, CgroupStats
CONSTANTS c1, n3, r1, r2, o1
VARIABLE part
MCSamplerOf == [r \in Recs |-> IF r \in CgroupRecs THEN r ELSE SysSampler]
MCNsOf == [r \in Recs |-> IF r = o1 THEN "op" ELSE "ns"]

E1(k, v) == [key |-> k, val |-> v]
Files == {Reads[i].file : i \in 1..Len(Reads)} \cup {SysReads[i].file : i \in 1..Len(SysReads)}
\* A cgroup whose numbers are at their limits, and what can be different in one file of it.
World(f) ==
    CASE f = "cpu.stat" -> <<E1("usec", U64 - 1), E1("new", 1), E1("periods", U32 + 1), E1("usec", 2)>>
      [] f = "memory.stat" -> <<E1("anon", 1), E1("anon", Bad)>>
      [] f = "memory.events" -> <<E1("oom", 1)>>
      [] f = "io.stat" -> <<E1("rbytes", U64 - 1), E1("wios", 1), E1("wios", 2), E1("rbytes", 2), E1("rbytes", Bad)>>
      [] f = "memory.peak" -> <<E1("", 3)>>
      [] f = "memory.swap" -> <<E1("", MaxText)>>
      [] f \in {"pids.current", "pids.max"} -> <<E1("", 2)>>
      [] f \in {"proc.stat", "proc.meminfo"} -> <<E1("anon", 1)>>
      [] OTHER -> <<E1("some", 1), E1("full", Bad)>>
Worlds ==
    LET w == [f \in Files |-> World(f)]
    IN  {w} \cup {[w EXCEPT ![f] = c] : f \in Files, c \in {Absent, Unreadable, Unsupported, <<E1("", Bad)>>}}
            \cup {[w EXCEPT !["io.stat"] = Unreadable, !["cpu.stat"] = Unreadable],
                  [w EXCEPT !["cpu.stat"] = <<E1("periods", U32 - 1)>>]}

mcVars == <<part, vars, resVars, statVars>>
MCInit ==
    /\ part \in {"solo", "pool", "short", "long", "stats", "prepare"}
    /\ Init /\ ResInit /\ StatInit
    /\ part # "stats" => statMode = "sys" /\ statFiles = [f \in Files |-> World(f)]

\* One build and an open pool, with more namespaces than they may own, or two builds.
Builds == IF part = "solo" THEN {c1} ELSE Clients
Pool(A) ==
    /\ part \in {"solo", "pool"} /\ A /\ UNCHANGED <<part, resVars, statVars>>
    /\ IF part = "solo" THEN ~closed' /\ \A c \in Clients \ Builds : pc'[c] = "idle" ELSE n3 \notin created'
\* Two records of one namespace over a short time (the second is closed before it starts),
\* or one operation over a long one.
Mon(A) ==
    /\ part \in {"short", "long"} /\ UNCHANGED <<part, vars, statVars>> /\ A
    /\ IF part = "short"
       THEN now' <= 1 /\ recPc'[o1] = "idle" /\ ~recAsync'[r2] /\ recPc'[r2] # "started"
       ELSE recPc'[r1] = "idle" /\ recPc'[r2] = "idle"
Stats(A) == part = "stats" /\ A /\ UNCHANGED <<part, vars, resVars>>
Prepare(A) == part = "prepare" /\ A /\ UNCHANGED <<part, vars, resVars>>

MCNext == Pool(Next) \/ Mon(ResNext) \/ Stats(StatNext) \/ Prepare(PrepareNext)
MCSpec ==
    /\ MCInit /\ [][MCNext]_mcVars
    /\ \A p \in Procs : WF_mcVars(Pool(CallStep(p)))
    /\ \A p \in Clients \cup {Filler} : WF_mcVars(Pool(StampLastUsed(p)))
    /\ WF_mcVars(Pool(FillCheck)) /\ WF_mcVars(Pool(FillRetry))
    /\ WF_mcVars(Pool(Cleanup)) /\ WF_mcVars(Pool(CloseWait)) /\ WF_mcVars(Pool(Tick))
    /\ WF_mcVars(Mon(MonitorStep \/ \E r \in Recs : CloseStep(r) \/ OwnerDone(r)))

\* The close of the pool and the close of a record come to an end.
HostCloses == CloseReturns /\ CloseCompletes
=============================================================================
