----------------------------- MODULE MCExecutor -----------------------------
(***************************************************************************)
(* The runc executor, part by part: its Run and Exec calls ("run") and the *)
(* process handle, helpers and watcher of one of them ("io").              *)
(***************************************************************************)
EXTENDS RuncExecutor, RuncProcess

VARIABLE part
mcVars == <<part, vars, ioVars>>

MCInit == part \in {"run", "io"} /\ Init /\ IoInit /\ (part = "run" => ~ctx)

Executor(A) == part = "run" /\ A /\ UNCHANGED <<part, ioVars>>
Process(A) == part = "io" /\ A /\ UNCHANGED <<part, vars>>

MCNext == Executor(Next) \/ Process(IoNext)
MCSpec ==
    /\ MCInit /\ [][MCNext]_mcVars
    /\ \A r \in Runs : /\ WF_mcVars(Executor(RunStep(r)))
                       /\ WF_mcVars(Executor(OnStarted(r)))
                       /\ WF_mcVars(Executor(AsyncStep(r)))
    /\ \A e \in Execs : WF_mcVars(Executor(ExecStep(e)))
    /\ WF_mcVars(Process(Main))
    /\ WF_mcVars(Process(StartPid \/ StartWithoutPid))
    /\ \A h \in {"signal", "resize"} :
          /\ WF_mcVars(Process(HelperReady(h) \/ HelperGivesUp(h)))
          /\ SF_mcVars(Process(EgDone /\ HelperStops(h)))
    /\ WF_mcVars(Process(ForwardKilled \/ ForwardKillFails))
    /\ WF_mcVars(Process(StdoutEnds)) /\ WF_mcVars(Process(Cleanup))
    /\ WF_mcVars(Process(Watch))
    /\ WF_mcVars(Process(killed /\ ProcExits))

-----------------------------------------------------------------------------
\* Everyone who waits in the executor is woken, on every path: the recorder, whoever waits for
\* started, Exec, executeWithIO, the watcher, and a request that was cancelled.
ExecutorEnds ==
    /\ RecorderStops /\ StartedSignalled /\ ExecReturns
    /\ ExecuteReturns /\ WatcherStops /\ CancelKillsReady
=============================================================================
