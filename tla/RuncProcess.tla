---------------------------- MODULE RuncProcess ----------------------------
(***************************************************************************)
(* One call of executeWithIO (pkg/executors/runc: io.go, process.go,       *)
(* kill.go): the goroutine that runs runc, the errgroup of helpers beside  *)
(* it (WaitForStart, ForwardSignals and, with a terminal, the copies of    *)
(* stdin and stdout, the resize pump and the terminal's cleanup), and the  *)
(* goroutine watchRequestContext that kills the process when the request   *)
(* is cancelled.                                                           *)
(*                                                                         *)
(* runc and the killer are external: a Kill succeeds, fails, or runs into  *)
(* the 7 s deadline of its context.  A context is the fact that it has     *)
(* been cancelled; ready and ended count how often the channel was closed  *)
(* (a second close panics).                                                *)
(***************************************************************************)
EXTENDS Naturals

CONSTANTS
    Tty,     \* process.Meta.Tty: the ttyProvider is used
    Stdin    \* process.Stdin is not nil

ASSUME OptionsAssumption == Tty \in BOOLEAN /\ Stdin \in BOOLEAN

VARIABLES
    main,      \* where executeWithIO is
    proc,      \* the process that runc started
    pidSent,   \* startedCh holds the PID
    chClosed,  \* startedCh is closed (go-runc, when Run or Exec returns)
    ctx,       \* the request context is cancelled
    runcCtx,   \* runcCtx is cancelled
    egErr,     \* a helper has returned an error
    helper,    \* where each helper is
    monitor,   \* ProcessHandle.monitorProcess
    ready,     \* closes of ProcessHandle.ready
    ended,     \* closes of ProcessHandle.ended
    killed,    \* a SIGKILL has been delivered
    watcher    \* where watchRequestContext is

ioVars == <<main, proc, pidSent, chClosed, ctx, runcCtx, egErr, helper, monitor,
          ready, ended, killed, watcher>>

Helpers == {"start", "signal", "stdin", "stdout", "resize", "cleanup"}

IoTypeOK ==
    /\ main \in {"attach", "runner", "shutdown", "wait", "release", "returned"}
    /\ proc \in {"none", "running", "exited", "orphaned"}
    /\ pidSent \in BOOLEAN /\ chClosed \in BOOLEAN
    /\ ctx \in BOOLEAN /\ runcCtx \in BOOLEAN /\ egErr \in BOOLEAN
    /\ helper \in [Helpers -> {"none", "wait", "loop", "write", "kill", "done"}]
    /\ monitor \in {"nil", "set", "released"}
    /\ ready \in 0..1 /\ ended \in 0..1
    /\ killed \in BOOLEAN
    /\ watcher \in {"wait", "watch", "kill", "pause", "done"}

(* NewProcessHandle, and the errgroup without a helper. *)
IoInit ==
    /\ main = "attach"
    /\ proc = "none"
    /\ pidSent = FALSE /\ chClosed = FALSE
    /\ ctx \in BOOLEAN
    /\ runcCtx = FALSE /\ egErr = FALSE
    /\ helper = [h \in Helpers |-> "none"]
    /\ monitor = "nil"
    /\ ready = 0 /\ ended = 0
    /\ killed = FALSE
    /\ watcher = "wait"

chanVars   == <<pidSent, chClosed>>
handleVars == <<monitor, ready, ended>>
procVars   == <<proc, killed>>

(* egCtx is cancelled: by its parent, or by the first error of a helper. *)
EgDone == runcCtx \/ egErr

(* The killer finds a process to kill. *)
Alive == proc \in {"running", "orphaned"}

(* A helper returns nil or an error. *)
Ends(h)  == helper' = [helper EXCEPT ![h] = "done"] /\ UNCHANGED egErr
Fails(h) == helper' = [helper EXCEPT ![h] = "done"] /\ egErr' = TRUE

-----------------------------------------------------------------------------
(* executeWithIO *)

(* provider.Attach and the two eg.Go calls: the helpers start.  Without a  *)
(* signal channel ForwardSignals returns at once.                          *)
Attach ==
    /\ main = "attach"
    /\ main' = "runner"
    /\ \E s \in {"wait", "done"} :
          helper' = [start   |-> "wait",
                     signal  |-> s,
                     stdin   |-> IF Tty /\ Stdin THEN "loop" ELSE "none",
                     stdout  |-> IF Tty THEN "loop" ELSE "none",
                     resize  |-> IF Tty THEN "wait" ELSE "none",
                     cleanup |-> IF Tty THEN "wait" ELSE "none"]
    /\ UNCHANGED <<procVars, chanVars, ctx, runcCtx, egErr, handleVars, watcher>>

(* The pseudoterminal cannot be allocated. *)
AttachFails ==
    /\ main = "attach"
    /\ Tty
    /\ main' = "shutdown"
    /\ UNCHANGED <<procVars, chanVars, ctx, runcCtx, egErr, helper, handleVars,
                   watcher>>

(* runc is started and go-runc sends its PID. *)
RuncStarts ==
    /\ main = "runner"
    /\ proc = "none"
    /\ proc' = "running"
    /\ pidSent' = TRUE
    /\ UNCHANGED <<main, chClosed, ctx, runcCtx, egErr, helper, handleVars,
                   killed, watcher>>

(* runc cannot be started. *)
RuncStartFails ==
    /\ main = "runner"
    /\ proc = "none"
    /\ main' = "shutdown"
    /\ chClosed' = TRUE
    /\ UNCHANGED <<procVars, pidSent, ctx, runcCtx, egErr, helper, handleVars,
                   watcher>>

(* The process exits, by itself or because it was killed. *)
ProcExits ==
    /\ proc = "running"
    /\ proc' = "exited"
    /\ UNCHANGED <<main, killed, chanVars, ctx, runcCtx, egErr, helper,
                   handleVars, watcher>>

(* The runner returns: the process has exited, or runcCtx was cancelled    *)
(* and runc is gone without it.                                            *)
RunnerReturns ==
    /\ main = "runner"
    /\ \/ proc = "exited" /\ UNCHANGED proc
       \/ proc = "running" /\ runcCtx /\ proc' = "orphaned"
    /\ main' = "shutdown"
    /\ chClosed' = TRUE
    /\ UNCHANGED <<killed, pidSent, ctx, runcCtx, egErr, helper, handleVars,
                   watcher>>

(* Mutant: the deferred calls do not wait for the helpers. *)
ShutdownNoWait ==
    /\ main = "shutdown"
    /\ runcCtx' = TRUE
    /\ main' = "release"
    /\ UNCHANGED <<procVars, chanVars, ctx, egErr, helper, handleVars, watcher>>

(* Deferred: h.Shutdown, ... *)
Shutdown ==
    /\ main = "shutdown"
    /\ runcCtx' = TRUE
    /\ main' = "wait"
    /\ UNCHANGED <<procVars, chanVars, ctx, egErr, helper, handleVars, watcher>>

(* ... eg.Wait, ... *)
EgWait ==
    /\ main = "wait"
    /\ \A h \in Helpers : helper[h] \in {"none", "done"}
    /\ main' = "release"
    /\ UNCHANGED <<procVars, chanVars, ctx, runcCtx, egErr, helper, handleVars,
                   watcher>>

(* ... and h.Release. *)
Release ==
    /\ main = "release"
    /\ ended' = ended + 1
    /\ monitor' = IF monitor = "set" THEN "released" ELSE monitor
    /\ main' = "returned"
    /\ UNCHANGED <<procVars, chanVars, ctx, runcCtx, egErr, helper, ready,
                   watcher>>

-----------------------------------------------------------------------------
(* WaitForStart *)

(* The PID arrives: onStarted, monitorProcess, close(ready). *)
StartPid ==
    /\ helper["start"] = "wait"
    /\ pidSent
    /\ pidSent' = FALSE
    /\ monitor' = "set"
    /\ ready' = ready + 1
    /\ Ends("start")
    /\ UNCHANGED <<main, procVars, chClosed, ctx, runcCtx, ended, watcher>>

(* The channel is closed without a PID, the 10 s have passed without one,  *)
(* or egCtx is cancelled (then the select may not look at the PID).        *)
StartWithoutPid ==
    /\ helper["start"] = "wait"
    /\ ~pidSent \/ EgDone
    /\ Fails("start")
    /\ UNCHANGED <<main, procVars, chanVars, ctx, runcCtx, handleVars, watcher>>

-----------------------------------------------------------------------------
(* ForwardSignals and pumpResizeEvents *)

(* WaitForReady returns, ... *)
HelperReady(h) ==
    /\ helper[h] = "wait"
    /\ ready = 1
    /\ helper' = [helper EXCEPT ![h] = "loop"]
    /\ UNCHANGED <<main, procVars, chanVars, ctx, runcCtx, egErr, handleVars,
                   watcher>>

(* ... or gives up with the cause of egCtx. *)
HelperGivesUp(h) ==
    /\ helper[h] = "wait"
    /\ EgDone
    /\ Fails(h)
    /\ UNCHANGED <<main, procVars, chanVars, ctx, runcCtx, handleVars, watcher>>

(* The loop ends: egCtx is cancelled or the caller closed the channel. *)
HelperStops(h) ==
    /\ helper[h] = "loop"
    /\ Ends(h)
    /\ UNCHANGED <<main, procVars, chanVars, ctx, runcCtx, handleVars, watcher>>

(* A signal is forwarded to a runc that has gone. *)
ForwardFails ==
    /\ helper["signal"] = "loop"
    /\ proc # "running"
    /\ Fails("signal")
    /\ UNCHANGED <<main, procVars, chanVars, ctx, runcCtx, handleVars, watcher>>

(* SIGKILL is routed through the killer, ... *)
ForwardKill ==
    /\ helper["signal"] = "loop"
    /\ helper' = [helper EXCEPT !["signal"] = "kill"]
    /\ UNCHANGED <<main, procVars, chanVars, ctx, runcCtx, egErr, handleVars,
                   watcher>>

(* ... which delivers it ... *)
ForwardKilled ==
    /\ helper["signal"] = "kill"
    /\ Alive
    /\ helper' = [helper EXCEPT !["signal"] = "loop"]
    /\ killed' = TRUE
    /\ UNCHANGED <<main, proc, chanVars, ctx, runcCtx, egErr, handleVars,
                   watcher>>

(* ... or fails. *)
ForwardKillFails ==
    /\ helper["signal"] = "kill"
    /\ Fails("signal")
    /\ UNCHANGED <<main, procVars, chanVars, ctx, runcCtx, handleVars, watcher>>

-----------------------------------------------------------------------------
(* The terminal's helpers *)

(* The copy of stdin ends when the caller's reader does, and only then: it *)
(* is blocked in a Read of process.Stdin.                                  *)
StdinEnds ==
    /\ helper["stdin"] = "loop"
    /\ Ends("stdin") \/ Fails("stdin")
    /\ UNCHANGED <<main, procVars, chanVars, ctx, runcCtx, handleVars, watcher>>

(* The copy of stdout ends when the terminal has been closed. *)
StdoutEnds ==
    /\ helper["stdout"] = "loop"
    /\ helper["cleanup"] = "done"
    /\ Ends("stdout") \/ Fails("stdout")
    /\ UNCHANGED <<main, procVars, chanVars, ctx, runcCtx, handleVars, watcher>>

(* What the process prints is handed to the caller's writer, which may     *)
(* block as long as it likes ...                                           *)
StdoutWrites ==
    /\ helper["stdout"] = "loop"
    /\ proc # "none" /\ helper["cleanup"] # "done"
    /\ helper' = [helper EXCEPT !["stdout"] = "write"]
    /\ UNCHANGED <<main, procVars, chanVars, ctx, runcCtx, egErr, handleVars,
                   watcher>>

StdoutWritten ==
    /\ helper["stdout"] = "write"
    /\ helper' = [helper EXCEPT !["stdout"] = "loop"]
    /\ UNCHANGED <<main, procVars, chanVars, ctx, runcCtx, egErr, handleVars,
                   watcher>>

(* ... or fail.                                                            *)
StdoutFails ==
    /\ helper["stdout"] = "write"
    /\ Fails("stdout")
    /\ UNCHANGED <<main, procVars, chanVars, ctx, runcCtx, handleVars, watcher>>

(* egCtx is cancelled: close the pseudoterminal. *)
Cleanup ==
    /\ helper["cleanup"] = "wait"
    /\ EgDone
    /\ Ends("cleanup")
    /\ UNCHANGED <<main, procVars, chanVars, ctx, runcCtx, handleVars, watcher>>

-----------------------------------------------------------------------------
(* watchRequestContext *)

watcherOnly == <<main, chanVars, egErr, helper, handleVars, proc>>

CancelRequest ==
    /\ ~ctx
    /\ ctx' = TRUE
    /\ UNCHANGED <<watcherOnly, runcCtx, killed, watcher>>

(* Every select of the watcher has a case for ended. *)
WatchEnded ==
    /\ watcher \in {"wait", "watch", "pause"}
    /\ ended = 1
    /\ watcher' = "done"
    /\ UNCHANGED <<watcherOnly, ctx, runcCtx, killed>>

WatchReady ==
    /\ watcher = "wait"
    /\ ready = 1
    /\ watcher' = IF ended = 1 THEN "done" ELSE "watch"
    /\ UNCHANGED <<watcherOnly, ctx, runcCtx, killed>>

(* The request was cancelled: killer.Kill. *)
WatchKill ==
    /\ watcher = "watch"
    /\ ctx
    /\ watcher' = "kill"
    /\ UNCHANGED <<watcherOnly, ctx, runcCtx, killed>>

KillSucceeds ==
    /\ watcher = "kill"
    /\ Alive
    /\ killed' = TRUE
    /\ watcher' = "pause"
    /\ UNCHANGED <<watcherOnly, ctx, runcCtx>>

(* Variant: the watcher gives up when Kill fails. *)
KillFailsOnce ==
    /\ watcher = "kill"
    /\ watcher' = "done"
    /\ UNCHANGED <<watcherOnly, ctx, runcCtx, killed>>

(* Kill returns an error before its deadline. *)
KillFails ==
    /\ watcher = "kill"
    /\ watcher' = "pause"
    /\ UNCHANGED <<watcherOnly, ctx, runcCtx, killed>>

(* Kill runs into its deadline: runcCtx is cancelled as a last resort. *)
KillTimesOut ==
    /\ watcher = "kill"
    /\ runcCtx' = TRUE
    /\ watcher' = "done"
    /\ UNCHANGED <<watcherOnly, ctx, killed>>

(* 50 ms have passed; a closed ended is noticed at once. *)
PauseOver ==
    /\ watcher = "pause"
    /\ ended = 0
    /\ watcher' = "watch"
    /\ UNCHANGED <<watcherOnly, ctx, runcCtx, killed>>

-----------------------------------------------------------------------------
Main ==
    \/ Attach \/ AttachFails \/ RuncStarts \/ RuncStartFails \/ RunnerReturns
    \/ Shutdown \/ EgWait \/ Release

(* Steps a helper takes without the caller's doing. *)
Help ==
    \/ StartPid \/ StartWithoutPid
    \/ \E h \in {"signal", "resize"} :
          HelperReady(h) \/ HelperGivesUp(h) \/ (EgDone /\ HelperStops(h))
    \/ ForwardKilled \/ ForwardKillFails
    \/ StdoutEnds \/ Cleanup

(* Steps of a helper that depend on the caller. *)
Caller ==
    \/ \E h \in {"signal", "resize"} : HelperStops(h)
    \/ ForwardFails \/ ForwardKill \/ StdinEnds \/ CancelRequest
    \/ StdoutWrites \/ StdoutWritten \/ StdoutFails

Watch ==
    \/ WatchEnded \/ WatchReady \/ WatchKill
    \/ KillSucceeds \/ KillFails \/ KillTimesOut \/ PauseOver

IoNext == Main \/ Help \/ Caller \/ Watch \/ ProcExits

(* Every goroutine that can run does; a select that finds egCtx cancelled  *)
(* again and again takes that case some day (Go chooses at random); a      *)
(* process that was killed exits.  The caller need not do anything, its    *)
(* writer may block, the process need not exit by itself, and a Kill that  *)
(* is retried may fail every time before its deadline.                     *)
IoFairness ==
    /\ WF_ioVars(Main)
    /\ WF_ioVars(StartPid \/ StartWithoutPid)
    /\ \A h \in {"signal", "resize"} :
          /\ WF_ioVars(HelperReady(h) \/ HelperGivesUp(h))
          /\ SF_ioVars(EgDone /\ HelperStops(h))
    /\ WF_ioVars(ForwardKilled \/ ForwardKillFails)
    /\ WF_ioVars(StdoutEnds) /\ WF_ioVars(Cleanup)
    /\ WF_ioVars(Watch)
    /\ WF_ioVars(killed /\ ProcExits)

(* A caller whose writer takes whatever it is given.                       *)
IoSpec == IoInit /\ [][IoNext]_ioVars /\ IoFairness /\ WF_ioVars(StdoutWritten \/ StdoutFails)

-----------------------------------------------------------------------------
(* Release comes last: once the handle of the runc process has been        *)
(* released no helper is left that could signal it, and one that got past  *)
(* WaitForReady has a handle to signal.                                    *)
MonitorUsable ==
    /\ monitor = "released" =>
          \A h \in Helpers : helper[h] \in {"none", "done"}
    /\ helper["signal"] \in {"loop", "kill"} \/ helper["resize"] = "loop" =>
          monitor = "set"

(* executeWithIO returns after the runner has, whatever the helpers were   *)
(* waiting for: nothing blocks eg.Wait but a caller that keeps stdin open  *)
(* or does not take what was printed (io.go executeWithIO).                *)
ExecuteReturns ==
    main = "shutdown" ~> \/ main = "returned"
                         \/ [](helper["stdin"] = "loop")
                         \/ [](helper["stdout"] = "write")

(* The terminal is closed after the runc call "to unblock the io.Copy      *)
(* goroutines above": so executeWithIO returns whatever the caller does.   *)
CopiesUnblocked == main = "shutdown" ~> main = "returned"

(* No watcher outlives its process, even one that was never ready.         *)
WatcherStops == main = "returned" ~> watcher = "done"

(* Once the PID is known, a cancelled request ends the process or stops    *)
(* waiting for it, unless Kill fails before its deadline again and again:  *)
(* the watcher gives up on neither a success nor a single failure, and a   *)
(* deadline releases runc (process.go watchRequestContext).  With a Kill   *)
(* that always fails fast the request waits for ever, though process.go    *)
(* promises 7 s (lines 27-33 and 62-64).                                   *)
CancelKillsReady ==
    \/ (ctx /\ ready = 1 /\ proc = "running") ~> proc # "running"
    \/ []<><<KillFails>>_ioVars

(* The handle of the runc process in the hands of its helpers.             *)
ProcessSound == IoTypeOK /\ MonitorUsable
=============================================================================
