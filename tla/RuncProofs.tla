----------------------------- MODULE RuncProofs -----------------------------
(***************************************************************************)
(* Proofs about the runc executor: the handle of the runc process is       *)
(* usable as long as a helper may use it (ProcessSound of RuncProcess),    *)
(* and what a Run sets up lasts as long as its container runs and no       *)
(* longer, for any number of Runs, Execs and ids (RunsSound of             *)
(* RuncExecutor).                                                          *)
(***************************************************************************)
EXTENDS RuncExecutor, RuncProcess, TLAPS, SequenceTheorems

-----------------------------------------------------------------------------
(* The runc process *)

(* Where executeWithIO is tells how far its helpers and the handle can be: *)
(* none has started before Attach, all have returned before Release, and   *)
(* only WaitForStart, on its way out, makes the handle ready.              *)
HandleInv ==
    /\ main = "attach" => helper = [h \in Helpers |-> "none"]
    /\ main \in {"release", "returned"} => \A h \in Helpers : helper[h] \in {"none", "done"}
    /\ ended = IF main = "returned" THEN 1 ELSE 0
    /\ monitor = "released" => main = "returned"
    /\ helper["start"] \in {"none", "wait"} => ready = 0
    /\ ready = 1 => monitor # "nil"
    /\ helper["signal"] \in {"loop", "kill"} \/ helper["resize"] = "loop" => ready = 1

IoInv == IoTypeOK /\ HandleInv

LEMMA IoInitial == IoInit => IoInv
<1> SUFFICES ASSUME IoInit PROVE IoInv
  OBVIOUS
<1> USE DEF IoInit
<1>1. IoTypeOK
  <2>1. pidSent \in BOOLEAN /\ chClosed \in BOOLEAN /\ ctx \in BOOLEAN
    OBVIOUS
  <2>2. runcCtx \in BOOLEAN /\ egErr \in BOOLEAN /\ killed \in BOOLEAN
    OBVIOUS
  <2>3. helper \in [Helpers -> {"none", "wait", "loop", "write", "kill", "done"}]
    BY DEF Helpers
  <2>4. QED
    BY <2>1, <2>2, <2>3 DEF IoTypeOK
<1>2. HandleInv
  BY DEF HandleInv, Helpers
<1>3. QED
  BY <1>1, <1>2 DEF IoInv

(* Steps that leave the helpers, the handle and executeWithIO alone. *)
LEMMA Aside ==
    ASSUME IoInv, UNCHANGED <<main, helper, handleVars>>
    PROVE  HandleInv'
BY DEF IoInv, HandleInv, handleVars

(* A helper that has started moves on; WaitForReady returns only when the  *)
(* handle is ready.                                                        *)
LEMMA HelperMoves ==
    ASSUME IoInv, NEW h \in Helpers, helper[h] \in {"wait", "loop", "write", "kill"},
           NEW to \in {"loop", "write", "kill", "done"}, helper' = [helper EXCEPT ![h] = to],
           h = "start" => to = "done",
           h \in {"signal", "resize"} /\ to # "done" => ready = 1,
           UNCHANGED <<main, handleVars>>
    PROVE  HandleInv'
<1> USE DEF IoInv, IoTypeOK, HandleInv, handleVars
<1>1. main \notin {"attach", "release", "returned"}
  OBVIOUS
<1>2. \A g \in Helpers : helper'[g] = IF g = h THEN to ELSE helper[g]
  OBVIOUS
<1>3. {"start", "signal", "resize"} \subseteq Helpers
  BY DEF Helpers
<1>4. QED
  BY <1>1, <1>2, <1>3

LEMMA HelperTypes ==
    ASSUME IoTypeOK, NEW h \in Helpers, NEW to \in {"loop", "write", "kill", "done"}, helper' = [helper EXCEPT ![h] = to],
           egErr' = egErr \/ egErr' = TRUE, killed' = killed \/ killed' = TRUE,
           UNCHANGED <<main, proc, chanVars, ctx, runcCtx, handleVars, watcher>>
    PROVE  IoTypeOK'
<1> USE DEF chanVars, handleVars
<1>1. helper' \in [Helpers -> {"none", "wait", "loop", "write", "kill", "done"}]
  BY DEF IoTypeOK
<1>2. egErr' \in BOOLEAN /\ killed' \in BOOLEAN
  BY DEF IoTypeOK
<1>3. QED
  BY <1>1, <1>2 DEF IoTypeOK

LEMMA IoTypeNext == IoInv /\ [IoNext]_ioVars => IoTypeOK'
<1> SUFFICES ASSUME IoInv, [IoNext]_ioVars PROVE IoTypeOK'
  OBVIOUS
<1> USE DEF IoInv, IoTypeOK, chanVars, handleVars, procVars, watcherOnly
<1>1. CASE Attach
  BY <1>1 DEF Attach, Helpers
<1>2. CASE AttachFails
  BY <1>2 DEF AttachFails
<1>3. CASE RuncStarts \/ RuncStartFails \/ RunnerReturns
  <2>1. CASE RuncStarts
    BY <2>1 DEF RuncStarts
  <2>2. CASE RuncStartFails
    BY <2>2 DEF RuncStartFails
  <2>3. CASE RunnerReturns
    <3>1. main' = "shutdown" /\ proc' \in {"exited", "orphaned"} /\ chClosed' = TRUE
      BY <2>3 DEF RunnerReturns
    <3>2. UNCHANGED <<killed, pidSent, ctx, runcCtx, egErr, helper, handleVars, watcher>>
      BY <2>3 DEF RunnerReturns
    <3>3. QED
      BY <3>1, <3>2
  <2>4. QED
    BY <1>3, <2>1, <2>2, <2>3
<1>4. CASE Shutdown \/ EgWait
  <2>1. CASE Shutdown
    BY <2>1 DEF Shutdown
  <2>2. CASE EgWait
    BY <2>2 DEF EgWait
  <2>3. QED
    BY <1>4, <2>1, <2>2
<1>5. CASE Release
  BY <1>5 DEF Release, HandleInv
<1>6. CASE StartPid
  <2>1. helper' \in [Helpers -> {"none", "wait", "loop", "write", "kill", "done"}]
    BY <1>6 DEF StartPid, Ends
  <2>2. ready' \in 0..1
    BY <1>6 DEF StartPid, HandleInv
  <2>3. QED
    BY <1>6, <2>1, <2>2 DEF StartPid, Ends
<1>7. CASE StartWithoutPid
  BY <1>7, HelperTypes DEF StartWithoutPid, Fails, Helpers
<1>8. ASSUME NEW h \in {"signal", "resize"}, HelperReady(h) \/ HelperGivesUp(h) \/ HelperStops(h) PROVE IoTypeOK'
  <2>1. h \in Helpers
    BY DEF Helpers
  <2>2. QED
    BY <1>8, <2>1, HelperTypes DEF HelperReady, HelperGivesUp, HelperStops, Ends, Fails
<1>9. CASE ForwardFails \/ ForwardKill \/ ForwardKilled \/ ForwardKillFails
  <2>1. "signal" \in Helpers
    BY DEF Helpers
  <2>2. CASE ForwardFails \/ ForwardKillFails
    BY <2>1, <2>2, HelperTypes DEF ForwardFails, ForwardKillFails, Fails
  <2>3. CASE ForwardKill \/ ForwardKilled
    BY <2>1, <2>3, HelperTypes DEF ForwardKill, ForwardKilled
  <2>4. QED
    BY <1>9, <2>2, <2>3
<1>10. CASE StdinEnds \/ StdoutEnds \/ StdoutWrites \/ StdoutWritten \/ StdoutFails \/ Cleanup
  <2>1. "stdin" \in Helpers /\ "stdout" \in Helpers /\ "cleanup" \in Helpers
    BY DEF Helpers
  <2>2. CASE StdinEnds
    BY <2>1, <2>2, HelperTypes DEF StdinEnds, Ends, Fails
  <2>3. CASE StdoutEnds \/ StdoutFails
    BY <2>1, <2>3, HelperTypes DEF StdoutEnds, StdoutFails, Ends, Fails
  <2>3a. CASE StdoutWrites \/ StdoutWritten
    BY <2>1, <2>3a, HelperTypes DEF StdoutWrites, StdoutWritten
  <2>4. CASE Cleanup
    BY <2>1, <2>4, HelperTypes DEF Cleanup, Ends
  <2>5. QED
    BY <1>10, <2>2, <2>3, <2>3a, <2>4
<1>11. CASE Watch
  BY <1>11 DEF Watch, WatchEnded, WatchReady, WatchKill, KillSucceeds, KillFails, KillTimesOut, PauseOver
<1>12. CASE CancelRequest \/ ProcExits
  <2>1. CASE CancelRequest
    BY <2>1 DEF CancelRequest
  <2>2. CASE ProcExits
    BY <2>2 DEF ProcExits
  <2>3. QED
    BY <1>12, <2>1, <2>2
<1>13. CASE UNCHANGED ioVars
  BY <1>13 DEF ioVars
<1>14. QED
  BY <1>1, <1>2, <1>3, <1>4, <1>5, <1>6, <1>7, <1>8, <1>9, <1>10, <1>11, <1>12, <1>13
     DEF IoNext, Main, Help, Caller

LEMMA HandleNext == IoInv /\ [IoNext]_ioVars => HandleInv'
<1> SUFFICES ASSUME IoInv, [IoNext]_ioVars PROVE HandleInv'
  OBVIOUS
<1> USE DEF chanVars, handleVars, procVars, watcherOnly
<1>t. IoTypeOK /\ HandleInv
  BY DEF IoInv
<1>1. CASE Attach
  BY <1>1, <1>t DEF Attach, Helpers, IoTypeOK, HandleInv
<1>2. CASE AttachFails \/ RuncStartFails \/ RunnerReturns \/ Shutdown \/ EgWait
  BY <1>2, <1>t DEF AttachFails, RuncStartFails, RunnerReturns, Shutdown, EgWait, IoTypeOK, HandleInv
<1>3. CASE RuncStarts \/ ProcExits
  BY <1>3, Aside DEF RuncStarts, ProcExits
<1>4. CASE Release
  BY <1>4, <1>t DEF Release, IoTypeOK, HandleInv
<1>5. CASE StartPid
  BY <1>5, <1>t DEF StartPid, Ends, IoTypeOK, HandleInv, Helpers
<1>6. CASE StartWithoutPid
  BY <1>6, HelperMoves DEF StartWithoutPid, Fails, Helpers
<1>7. ASSUME NEW h \in {"signal", "resize"}, HelperReady(h) \/ HelperGivesUp(h) \/ HelperStops(h) PROVE HandleInv'
  <2>1. h \in Helpers /\ h # "start"
    BY DEF Helpers
  <2>2. QED
    BY <1>7, <2>1, HelperMoves DEF HelperReady, HelperGivesUp, HelperStops, Ends, Fails
<1>8. CASE ForwardFails \/ ForwardKill \/ ForwardKilled \/ ForwardKillFails
  <2>1. helper["signal"] \in {"loop", "kill"} => ready = 1
    BY <1>t DEF HandleInv
  <2>2. QED
    BY <1>8, <2>1, HelperMoves DEF ForwardFails, ForwardKill, ForwardKilled, ForwardKillFails, Fails, Helpers
<1>9. CASE StdinEnds \/ StdoutEnds \/ StdoutWrites \/ StdoutWritten \/ StdoutFails \/ Cleanup
  BY <1>9, HelperMoves DEF StdinEnds, StdoutEnds, StdoutWrites, StdoutWritten, StdoutFails, Cleanup, Ends, Fails, Helpers
<1>10. CASE Watch \/ CancelRequest
  BY <1>10, Aside DEF Watch, WatchEnded, WatchReady, WatchKill, KillSucceeds, KillFails, KillTimesOut, PauseOver, CancelRequest
<1>11. CASE UNCHANGED ioVars
  BY <1>11, Aside DEF ioVars
<1>12. QED
  BY <1>1, <1>2, <1>3, <1>4, <1>5, <1>6, <1>7, <1>8, <1>9, <1>10, <1>11 DEF IoNext, Main, Help, Caller

(* Release comes last: no helper is left that could signal a runc process  *)
(* whose handle is gone, and a helper that got past WaitForReady has one   *)
(* (executeWithIO, ProcessHandle), with a terminal or without.             *)
THEOREM ProcessSoundAlways == IoSpec => []ProcessSound
<1>1. IoInv => ProcessSound
  BY DEF IoInv, IoTypeOK, HandleInv, ProcessSound, MonitorUsable, Helpers
<1>2. IoInv /\ [IoNext]_ioVars => IoInv'
  BY IoTypeNext, HandleNext DEF IoInv
<1>3. QED
  BY <1>1, <1>2, IoInitial, PTL DEF IoSpec

-----------------------------------------------------------------------------
(* Run and Exec *)

(* A Run is registered from Register to Unregister, and its bundle exists  *)
(* from Setup to the deferred os.RemoveAll.                                *)
Live(l) == l \notin {"idle", "returned"}
Bundled(l) == l \in {"start", "running", "exited", "delete", "nsClose", "unwind"}

OwnerInv ==
    /\ \A i \in Ids : registry[i] # None => id[registry[i]] = i /\ Live(pc[registry[i]])
    /\ \A r \in Runs : Live(pc[r]) => id[r] \in Ids /\ registry[id[r]] = r
ContainerInv ==
    \A i \in Ids : container[i].status = "running" =>
        registry[i] # None /\ registry[i] = container[i].run /\ pc[registry[i]] = "running"
BundleInv == \A i \in Ids : i \in bundle <=> registry[i] # None /\ Bundled(pc[registry[i]])

(* A Run has its namespace from provider.New on, CloseAsync included, and  *)
(* an Exec its id from the start.                                          *)
HeldInv ==
    /\ \A r \in Runs : pc[r] \in {"setup", "start", "running", "exited", "delete", "nsClose", "unwind", "deferNS"}
                       \/ async[r] # "none" => ns[r] \in NS
    /\ \A r \in Runs : async[r] # "none" => ~(pc[r] \in {"idle", "net"})
    /\ \A e \in Execs : epc[e] # "idle" => target[e] \in Ids

Placed == OwnerInv /\ ContainerInv /\ BundleInv
RunInv == TypeOK /\ Placed /\ HeldInv

LEMMA RunInitial == Init => RunInv
<1> SUFFICES ASSUME Init PROVE RunInv
  OBVIOUS
<1> USE DEF Init
<1>1. TypeOK
  <2>1. registry \in [Ids -> Runs \cup {None}] /\ id \in [Runs -> Ids \cup {None}] /\ ns \in [Runs -> NS \cup {None}]
    OBVIOUS
  <2>2. done \in [Runs -> [sent : BOOLEAN, closed : BOOLEAN]]
    OBVIOUS
  <2>3. pool \in Seq(NS) /\ made \in SUBSET NS /\ bundle \in SUBSET Ids
    OBVIOUS
  <2>4. container \in [Ids -> [run : Runs \cup {None}, status : {"none", "running", "orphaned", "stopped"}]]
    BY DEF NoContainer
  <2>5. target \in [Execs -> Ids \cup {None}] /\ waiting \in [Execs -> Runs \cup {None}]
    OBVIOUS
  <2>6. QED
    BY <2>1, <2>2, <2>3, <2>4, <2>5 DEF TypeOK
<1>2. Placed
  BY DEF Placed, OwnerInv, ContainerInv, BundleInv, Live, Bundled, NoContainer
<1>3. HeldInv
  BY DEF HeldInv
<1>4. QED
  BY <1>1, <1>2, <1>3 DEF RunInv

-----------------------------------------------------------------------------
(* Steps that change neither the registry nor where Runs, containers and   *)
(* bundles are.                                                            *)
LEMMA PlacedAside ==
    ASSUME RunInv, UNCHANGED <<registry, id, pc, container, bundle>>
    PROVE  Placed'
BY DEF RunInv, Placed, OwnerInv, ContainerInv, BundleInv

(* A Run moves on: it stays registered and its bundle stays as it is. *)
LEMMA PlacedMoves ==
    ASSUME RunInv, NEW r \in Runs, NEW l, pc' = [pc EXCEPT ![r] = l],
           Live(pc[r]), Live(l), pc[r] # "running", Bundled(l) <=> Bundled(pc[r]),
           UNCHANGED <<registry, id, container, bundle>>
    PROVE  Placed'
<1> USE DEF RunInv, Placed
<1>1. \A q \in Runs : pc'[q] = IF q = r THEN l ELSE pc[q]
  BY DEF TypeOK
<1>2. \A i \in Ids : registry[i] # None => registry[i] \in Runs
  BY DEF TypeOK
<1>3. OwnerInv'
  BY <1>1, <1>2 DEF OwnerInv
<1>4. ContainerInv'
  BY <1>1, <1>2 DEF ContainerInv
<1>5. BundleInv'
  BY <1>1, <1>2 DEF BundleInv
<1>6. QED
  BY <1>3, <1>4, <1>5

(* A container that does not run changes its state to another in which it  *)
(* does not.                                                               *)
LEMMA PlacedStopped ==
    ASSUME RunInv, NEW i \in Ids, NEW c, container' = [container EXCEPT ![i] = c], c.status # "running",
           UNCHANGED <<registry, id, pc, bundle>>
    PROVE  Placed'
<1> USE DEF RunInv, Placed
<1>1. OwnerInv' /\ BundleInv'
  BY DEF OwnerInv, BundleInv
<1>2. \A j \in Ids : container'[j] = IF j = i THEN c ELSE container[j]
  BY DEF TypeOK
<1>3. ContainerInv'
  BY <1>2 DEF ContainerInv
<1>4. QED
  BY <1>1, <1>3

(* runc delete does not touch a container that runs. *)
LEMMA PlacedDeleted ==
    ASSUME RunInv, NEW i \in Ids, RuncDelete(i), UNCHANGED <<registry, id, pc, bundle>>
    PROVE  Placed'
<1>1. CASE container[i].status \in {"running", "orphaned"}
  <2>1. container' = container
    BY <1>1 DEF RuncDelete, RunInv, TypeOK
  <2>2. QED
    BY <2>1, PlacedAside
<1>2. CASE container[i].status \notin {"running", "orphaned"}
  <2>1. container' = [container EXCEPT ![i] = NoContainer]
    BY <1>2 DEF RuncDelete
  <2>2. NoContainer.status # "running"
    BY DEF NoContainer
  <2>3. QED
    BY <2>1, <2>2, PlacedStopped
<1>3. QED
  BY <1>1, <1>2

LEMMA PlacedNext == RunInv /\ [Next]_vars => Placed'
<1> SUFFICES ASSUME RunInv, [Next]_vars PROVE Placed'
  OBVIOUS
<1> USE NoneAssumption DEF netVars, execVars, regVars, Goto, Fail
<1>t. TypeOK /\ OwnerInv /\ ContainerInv /\ BundleInv
  BY DEF RunInv, Placed
<1>a. pc \in [Runs -> {"idle", "net", "setup", "start", "running", "exited", "delete", "nsClose", "unwind", "deferNS",
                       "notify", "unregister", "returned"}]
      /\ registry \in [Ids -> Runs \cup {None}] /\ id \in [Runs -> Ids \cup {None}]
      /\ container \in [Ids -> [run : Runs \cup {None}, status : {"none", "running", "orphaned", "stopped"}]]
  BY <1>t DEF TypeOK
<1>1. ASSUME NEW r \in Runs, Register(r) PROVE Placed'
  <2>1. PICK i \in Ids : registry[i] = None /\ registry' = [registry EXCEPT ![i] = r] /\ id' = [id EXCEPT ![r] = i]
    BY <1>1 DEF Register
  <2>2. pc[r] = "idle" /\ pc' = [pc EXCEPT ![r] = "net"] /\ UNCHANGED <<bundle, container>>
    BY <1>1 DEF Register
  <2>3. \A q \in Runs : pc'[q] = (IF q = r THEN "net" ELSE pc[q]) /\ id'[q] = IF q = r THEN i ELSE id[q]
    BY <1>a, <2>1, <2>2
  <2>4. \A j \in Ids : registry'[j] = IF j = i THEN r ELSE registry[j]
    BY <1>a, <2>1
  <2>5. \A j \in Ids : registry[j] # r
    BY <1>t, <2>2 DEF OwnerInv, Live
  <2>6. OwnerInv'
    BY <1>t, <1>a, <2>1, <2>2, <2>3, <2>4, <2>5 DEF OwnerInv, Live
  <2>7. ContainerInv'
    BY <1>t, <1>a, <2>1, <2>2, <2>3, <2>4, <2>5 DEF ContainerInv
  <2>8. BundleInv'
    BY <1>t, <1>a, <2>1, <2>2, <2>3, <2>4, <2>5 DEF BundleInv, Bundled
  <2>9. QED
    BY <2>6, <2>7, <2>8 DEF Placed
<1>2. ASSUME NEW r \in Runs, NewNamespace(r) \/ NewNamespaceFails(r) \/ SetupFails(r) \/ StartFails(r) PROVE Placed'
  BY <1>2, PlacedMoves DEF NewNamespace, NewNamespaceFails, SetupFails, StartFails, Live, Bundled
<1>3. ASSUME NEW r \in Runs, AfterExit(r) \/ ReleaseNS(r) \/ DeferNS(r) \/ Notify(r) PROVE Placed'
  <2>1. PICK l \in {"unwind", "delete", "notify", "unregister"} :
            pc' = [pc EXCEPT ![r] = l] /\ (l \in {"unwind", "delete"} <=> pc[r] \in {"exited", "nsClose"})
    BY <1>3 DEF AfterExit, ReleaseNS, DeferNS, Notify
  <2>2. pc[r] \in {"exited", "nsClose", "deferNS", "notify"} /\ UNCHANGED <<registry, id, container, bundle>>
    BY <1>3 DEF AfterExit, ReleaseNS, DeferNS, Notify
  <2>3. QED
    BY <2>1, <2>2, PlacedMoves DEF Live, Bundled
<1>4. ASSUME NEW r \in Runs, Live(pc[r])
      PROVE  id[r] \in Ids /\ registry[id[r]] = r /\ \A i \in Ids : registry[i] = r => i = id[r]
  BY <1>t, <1>4 DEF OwnerInv
<1>5. ASSUME NEW r \in Runs, Setup(r) \/ Unwind(r) PROVE Placed'
  <2>1. PICK l \in {"start", "deferNS"} :
            /\ pc' = [pc EXCEPT ![r] = l] /\ UNCHANGED <<registry, id, container>>
            /\ bundle' = IF l = "start" THEN bundle \cup {id[r]} ELSE bundle \ {id[r]}
    BY <1>5 DEF Setup, Unwind
  <2>2. pc[r] \in {"setup", "unwind"}
    BY <1>5 DEF Setup, Unwind
  <2>3. id[r] \in Ids /\ registry[id[r]] = r /\ \A i \in Ids : registry[i] = r => i = id[r]
    BY <1>4, <2>2 DEF Live
  <2>4. \A q \in Runs : pc'[q] = IF q = r THEN l ELSE pc[q]
    BY <1>a, <2>1
  <2>5. OwnerInv'
    BY <1>t, <1>a, <2>1, <2>2, <2>4 DEF OwnerInv, Live
  <2>6. ContainerInv'
    BY <1>t, <1>a, <2>1, <2>2, <2>4 DEF ContainerInv
  <2>7. \A i \in Ids : i # id[r] => (i \in bundle' <=> i \in bundle)
    BY <2>1
  <2>8. id[r] \in bundle' <=> l = "start"
    BY <2>1
  <2>9. BundleInv'
    BY <1>t, <1>a, <2>1, <2>3, <2>4, <2>7, <2>8 DEF BundleInv, Bundled
  <2>10. QED
    BY <2>5, <2>6, <2>9 DEF Placed
<1>6. ASSUME NEW r \in Runs, StartContainer(r) \/ ContainerExits(r) \/ RuncCancelled(r) PROVE Placed'
  <2>1. PICK l \in {"running", "exited"} : pc' = [pc EXCEPT ![r] = l]
    BY <1>6 DEF StartContainer, ContainerExits, RuncCancelled
  <2>2. pc[r] \in {"start", "running"} /\ UNCHANGED <<registry, id, bundle>>
    BY <1>6 DEF StartContainer, ContainerExits, RuncCancelled
  <2>3. id[r] \in Ids /\ registry[id[r]] = r /\ \A i \in Ids : registry[i] = r => i = id[r]
    BY <1>4, <2>2 DEF Live
  <2>4. \A q \in Runs : pc'[q] = IF q = r THEN l ELSE pc[q]
    BY <1>a, <2>1
  <2>5. OwnerInv' /\ BundleInv'
    BY <1>t, <1>a, <2>1, <2>2, <2>4 DEF OwnerInv, BundleInv, Live, Bundled
  <2>6. /\ \A i \in Ids : i # id[r] => container'[i] = container[i]
        /\ container'[id[r]].status = "running" => pc'[r] = "running" /\ container'[id[r]].run = r
    <3>1. CASE StartContainer(r)
      BY <1>a, <2>3, <2>4, <3>1 DEF StartContainer
    <3>2. CASE ContainerExits(r) \/ RuncCancelled(r)
      BY <1>a, <2>3, <3>2 DEF ContainerExits, RuncCancelled
    <3>3. QED
      BY <1>6, <3>1, <3>2
  <2>7. ContainerInv'
    BY <1>t, <1>a, <2>2, <2>3, <2>4, <2>6 DEF ContainerInv
  <2>8. QED
    BY <2>5, <2>7 DEF Placed
<1>7. ASSUME NEW r \in Runs, Delete(r) PROVE Placed'
  <2>1. id[r] \in Ids /\ pc[r] = "delete"
    BY <1>4, <1>7 DEF Delete, Live
  <2> DEFINE c == IF container[id[r]].status \in {"running", "orphaned"} THEN container[id[r]] ELSE NoContainer
  <2>2. container' = [container EXCEPT ![id[r]] = c] /\ (c.status # "running" \/ c = container[id[r]])
    BY <1>7 DEF Delete, RuncDelete, NoContainer
  <2> HIDE DEF c
  <2>3. pc' = [pc EXCEPT ![r] = "nsClose"] /\ UNCHANGED <<registry, id, bundle>>
    BY <1>7 DEF Delete
  <2>4. \A q \in Runs : pc'[q] = IF q = r THEN "nsClose" ELSE pc[q]
    BY <1>a, <2>3
  <2>5. \A i \in Ids : container'[i].status = "running" => container'[i] = container[i]
    BY <1>a, <2>1, <2>2
  <2>6. OwnerInv' /\ BundleInv'
    BY <1>t, <1>a, <2>1, <2>3, <2>4 DEF OwnerInv, BundleInv, Live, Bundled
  <2>7. ContainerInv'
    BY <1>t, <1>a, <2>1, <2>3, <2>4, <2>5 DEF ContainerInv
  <2>8. QED
    BY <2>6, <2>7 DEF Placed
<1>8. ASSUME NEW r \in Runs, Unregister(r) PROVE Placed'
  <2>1. pc[r] = "unregister" /\ pc' = [pc EXCEPT ![r] = "returned"] /\ registry' = [registry EXCEPT ![id[r]] = None]
        /\ UNCHANGED <<id, bundle, container>>
    BY <1>8 DEF Unregister
  <2>2. id[r] \in Ids /\ registry[id[r]] = r /\ \A i \in Ids : registry[i] = r => i = id[r]
    BY <1>4, <2>1 DEF Live
  <2>3. /\ \A q \in Runs : pc'[q] = IF q = r THEN "returned" ELSE pc[q]
        /\ \A i \in Ids : registry'[i] = IF i = id[r] THEN None ELSE registry[i]
    BY <1>a, <2>1, <2>2
  <2>4. OwnerInv'
    BY <1>t, <1>a, <2>1, <2>2, <2>3 DEF OwnerInv, Live
  <2>5. ContainerInv' /\ BundleInv'
    BY <1>t, <1>a, <2>1, <2>2, <2>3 DEF ContainerInv, BundleInv, Bundled
  <2>6. QED
    BY <2>4, <2>5 DEF Placed
<1>9. ASSUME NEW i \in Ids, OrphanExits(i) PROVE Placed'
  <2> DEFINE c == [container[i] EXCEPT !.status = "stopped"]
  <2>1. c.status = "stopped"
    BY <1>a
  <2>2. container' = [container EXCEPT ![i] = c]
    BY <1>9 DEF OrphanExits
  <2> HIDE DEF c
  <2>3. QED
    BY <1>9, <2>1, <2>2, PlacedStopped DEF OrphanExits
<1>10. ASSUME NEW r \in Runs, AsyncDelete(r) PROVE Placed'
  <2>1. CASE id[r] \in Ids
    BY <1>10, <2>1, PlacedDeleted DEF AsyncDelete
  <2>2. CASE id[r] \notin Ids
    <3>1. container' = container
      BY <1>a, <1>10, <2>2 DEF AsyncDelete, RuncDelete
    <3>2. QED
      BY <1>10, <3>1, PlacedAside DEF AsyncDelete
  <2>3. QED
    BY <2>1, <2>2
<1>11. ASSUME NEW r \in Runs, OnStarted(r) \/ AsyncRecord(r) \/ AsyncNS(r) PROVE Placed'
  BY <1>11, PlacedAside DEF OnStarted, AsyncRecord, AsyncNS
<1>12. ASSUME NEW e \in Execs, Exec(e) \/ ExecStep(e) \/ ExecCancelled(e) PROVE Placed'
  BY <1>12, PlacedAside DEF Exec, ExecStep, ExecGet, ExecState, ExecDone, ExecPoll, ExecCancelled, runVars
<1>13. CASE UNCHANGED vars
  BY <1>13, PlacedAside DEF vars
<1>14. QED
  BY <1>1, <1>2, <1>3, <1>5, <1>6, <1>7, <1>8, <1>9, <1>10, <1>11, <1>12, <1>13 DEF Next, RunStep, AsyncStep

-----------------------------------------------------------------------------
(* Taking the namespace that was put last leaves a pool of namespaces. *)
LEMMA PoolTaken ==
    ASSUME NEW S, NEW p \in Seq(S), p # <<>>
    PROVE  p[Len(p)] \in S /\ SubSeq(p, 1, Len(p) - 1) \in Seq(S)
<1>1. Len(p) \in Nat /\ Len(p) # 0
  BY EmptySeq
<1>2. Len(p) \in 1..Len(p) /\ Len(p) - 1 \in 0..Len(p)
  BY <1>1
<1>3. QED
  BY <1>2, ElementOfSeq, SubSeqProperties

LEMMA RunTypeNext == RunInv /\ [Next]_vars => TypeOK'
<1> SUFFICES ASSUME RunInv, [Next]_vars PROVE TypeOK'
  OBVIOUS
<1> USE DEF netVars, execVars, regVars, Goto, Fail
<1>t. TypeOK /\ HeldInv /\ OwnerInv
  BY DEF RunInv, Placed
<1>1. ASSUME NEW r \in Runs, Register(r) PROVE TypeOK'
  BY <1>1, <1>t DEF TypeOK, Register
<1>2. ASSUME NEW r \in Runs, NewNamespace(r) PROVE TypeOK'
  <2>1. CASE pool # <<>>
    <3>1. pool \in Seq(NS)
      BY <1>t DEF TypeOK
    <3>2. pool[Len(pool)] \in NS /\ SubSeq(pool, 1, Len(pool) - 1) \in Seq(NS)
      BY <2>1, <3>1, PoolTaken
    <3>3. pool' \in Seq(NS) /\ ns' \in [Runs -> NS \cup {None}] /\ UNCHANGED made
      BY <1>2, <1>t, <2>1, <3>2 DEF TypeOK, NewNamespace
    <3>4. QED
      BY <1>2, <1>t, <3>3 DEF TypeOK, NewNamespace
  <2>2. CASE pool = <<>>
    BY <1>2, <1>t, <2>2 DEF TypeOK, NewNamespace
  <2>3. QED
    BY <2>1, <2>2
<1>3. ASSUME NEW r \in Runs, NewNamespaceFails(r) \/ SetupFails(r) \/ StartFails(r) PROVE TypeOK'
  <2>1. PICK l \in {"notify", "deferNS", "exited"} : Fail(r, l)
    BY <1>3 DEF NewNamespaceFails, SetupFails, StartFails
  <2>2. UNCHANGED <<regVars, netVars, bundle, container, rec, started, async, execVars>>
    BY <1>3 DEF NewNamespaceFails, SetupFails, StartFails
  <2>3. QED
    BY <1>t, <2>1, <2>2 DEF TypeOK
<1>4. ASSUME NEW r \in Runs, Setup(r) PROVE TypeOK'
  <2>1. id[r] \in Ids
    BY <1>4, <1>t DEF Setup, OwnerInv, Live
  <2>2. QED
    BY <1>4, <1>t, <2>1 DEF TypeOK, Setup
<1>5. ASSUME NEW r \in Runs, StartContainer(r) PROVE TypeOK'
  BY <1>5, <1>t DEF TypeOK, StartContainer
<1>6. ASSUME NEW r \in Runs, OnStarted(r) PROVE TypeOK'
  BY <1>6, <1>t DEF TypeOK, OnStarted
<1>7. ASSUME NEW r \in Runs, ContainerExits(r) PROVE TypeOK'
  <2>1. container' \in [Ids -> [run : Runs \cup {None}, status : {"none", "running", "orphaned", "stopped"}]]
    <3> DEFINE i == id[r]
               c == [container[i] EXCEPT !.status = "stopped"]
    <3>1. container' = [container EXCEPT ![i] = c]
      BY <1>7 DEF ContainerExits
    <3>2. container \in [Ids -> [run : Runs \cup {None}, status : {"none", "running", "orphaned", "stopped"}]]
      BY <1>t DEF TypeOK
    <3>3. i \in Ids => c \in [run : Runs \cup {None}, status : {"none", "running", "orphaned", "stopped"}]
      BY <3>2
    <3> HIDE DEF i, c
    <3>4. QED
      BY <3>1, <3>2, <3>3
  <2>2. result' \in [Runs -> {"nil", "error"}]
    BY <1>7, <1>t DEF TypeOK, ContainerExits
  <2>3. QED
    BY <1>7, <1>t, <2>1, <2>2 DEF TypeOK, ContainerExits
<1>8. ASSUME NEW r \in Runs, RuncCancelled(r) PROVE TypeOK'
  BY <1>8, <1>t DEF TypeOK, RuncCancelled
<1>9. ASSUME NEW i \in Ids, OrphanExits(i) PROVE TypeOK'
  BY <1>9, <1>t DEF TypeOK, OrphanExits
<1>10. ASSUME NEW r \in Runs, AfterExit(r) PROVE TypeOK'
  BY <1>10, <1>t DEF TypeOK, AfterExit
<1>11. ASSUME NEW r \in Runs, Delete(r) PROVE TypeOK'
  BY <1>11, <1>t DEF TypeOK, Delete, RuncDelete, NoContainer
<1>12. ASSUME NEW r \in Runs, ReleaseNS(r) \/ DeferNS(r) \/ AsyncNS(r) PROVE TypeOK'
  <2>1. ns[r] \in NS
    BY <1>12, <1>t DEF HeldInv, ReleaseNS, DeferNS, AsyncNS
  <2>2. Append(pool, ns[r]) \in Seq(NS)
    BY <1>t, <2>1 DEF TypeOK
  <2>3. QED
    <3>1. CASE ReleaseNS(r)
      BY <1>t, <2>2, <3>1 DEF TypeOK, ReleaseNS
    <3>2. CASE DeferNS(r)
      BY <1>t, <2>2, <3>2 DEF TypeOK, DeferNS
    <3>3. CASE AsyncNS(r)
      BY <1>t, <2>2, <3>3 DEF TypeOK, AsyncNS
    <3>4. QED
      BY <1>12, <3>1, <3>2, <3>3
<1>13. ASSUME NEW r \in Runs, Unwind(r) PROVE TypeOK'
  BY <1>13, <1>t DEF TypeOK, Unwind
<1>14. ASSUME NEW r \in Runs, Notify(r) PROVE TypeOK'
  BY <1>14, <1>t DEF TypeOK, Notify
<1>15. ASSUME NEW r \in Runs, Unregister(r) PROVE TypeOK'
  <2>1. registry' \in [Ids -> Runs \cup {None}]
    BY <1>15, <1>t DEF TypeOK, Unregister
  <2>2. started' \in [Runs -> 0..1]
    BY <1>15, <1>t DEF TypeOK, Unregister
  <2>3. QED
    BY <1>15, <1>t, <2>1, <2>2 DEF TypeOK, Unregister
<1>16. ASSUME NEW r \in Runs, AsyncRecord(r) PROVE TypeOK'
  BY <1>16, <1>t DEF TypeOK, AsyncRecord
<1>17. ASSUME NEW r \in Runs, AsyncDelete(r) PROVE TypeOK'
  BY <1>17, <1>t DEF TypeOK, AsyncDelete, RuncDelete, NoContainer
<1>18. ASSUME NEW e \in Execs, Exec(e) PROVE TypeOK'
  BY <1>18, <1>t DEF TypeOK, Exec, ExecGoto, runVars
<1>19. ASSUME NEW e \in Execs, ExecGet(e) PROVE TypeOK'
  <2>1. registry[target[e]] \in Runs \cup {None}
    BY <1>19, <1>t DEF TypeOK, HeldInv, ExecGet
  <2>2. QED
    BY <1>19, <1>t, <2>1 DEF TypeOK, ExecGet, ExecGoto, runVars
<1>20. ASSUME NEW e \in Execs, ExecState(e) \/ ExecPoll(e) \/ ExecCancelled(e) PROVE TypeOK'
  BY <1>20, <1>t DEF TypeOK, ExecState, ExecPoll, ExecCancelled, ExecGoto, runVars
<1>21. ASSUME NEW e \in Execs, ExecDone(e) PROVE TypeOK'
  <2>1. done' \in [Runs -> [sent : BOOLEAN, closed : BOOLEAN]]
    <3> DEFINE x == waiting[e]
               d == [done[x] EXCEPT !.sent = FALSE]
    <3>1. done' = [done EXCEPT ![x] = d] /\ done \in [Runs -> [sent : BOOLEAN, closed : BOOLEAN]]
      BY <1>21, <1>t DEF TypeOK, ExecDone
    <3>2. x \in Runs => d \in [sent : BOOLEAN, closed : BOOLEAN]
      BY <3>1
    <3> HIDE DEF x, d
    <3>3. QED
      BY <3>1, <3>2
  <2>2. QED
    BY <1>21, <1>t, <2>1 DEF TypeOK, ExecDone, ExecGoto
<1>22. CASE UNCHANGED vars
  BY <1>22, <1>t DEF vars, TypeOK
<1>23. QED
  BY <1>1, <1>2, <1>3, <1>4, <1>5, <1>6, <1>7, <1>8, <1>9, <1>10, <1>11, <1>12, <1>13, <1>14, <1>15, <1>16,
     <1>17, <1>18, <1>19, <1>20, <1>21, <1>22 DEF Next, RunStep, AsyncStep, ExecStep

LEMMA RunHeldNext == RunInv /\ [Next]_vars => HeldInv'
<1> SUFFICES ASSUME RunInv, [Next]_vars PROVE HeldInv'
  OBVIOUS
<1> USE DEF netVars, execVars, regVars, Goto, Fail
<1>t. TypeOK /\ HeldInv
  BY DEF RunInv
<1>a. /\ ns \in [Runs -> NS \cup {None}] /\ target \in [Execs -> Ids \cup {None}]
      /\ DOMAIN pc = Runs /\ DOMAIN async = Runs /\ DOMAIN epc = Execs
  BY <1>t DEF TypeOK
<1>1. ASSUME NEW r \in Runs, Register(r) \/ NewNamespaceFails(r) \/ Notify(r) \/ Unregister(r) PROVE HeldInv'
  BY <1>1, <1>t, <1>a DEF HeldInv, Register, NewNamespaceFails, Notify, Unregister
<1>2. ASSUME NEW r \in Runs, NewNamespace(r) PROVE HeldInv'
  <2>1. PICK n \in NS : ns' = [ns EXCEPT ![r] = n]
    BY <1>2, <1>t, PoolTaken DEF TypeOK, NewNamespace
  <2>2. pc' = [pc EXCEPT ![r] = "setup"] /\ UNCHANGED <<async, execVars>>
    BY <1>2 DEF NewNamespace
  <2>3. \A q \in Runs : (q # r => ns'[q] = ns[q] /\ pc'[q] = pc[q]) /\ (q = r => ns'[q] \in NS /\ pc'[q] = "setup")
    BY <1>a, <2>1, <2>2
  <2>4. QED
    BY <1>t, <2>2, <2>3 DEF HeldInv
<1>3. ASSUME NEW r \in Runs, SetupFails(r) \/ StartFails(r) \/ Setup(r) \/ StartContainer(r) PROVE HeldInv'
  BY <1>3, <1>t, <1>a DEF HeldInv, SetupFails, StartFails, Setup, StartContainer
<1>4. ASSUME NEW r \in Runs, ContainerExits(r) \/ RuncCancelled(r) \/ Delete(r) \/ ReleaseNS(r) \/ Unwind(r) PROVE HeldInv'
  BY <1>4, <1>t, <1>a DEF HeldInv, ContainerExits, RuncCancelled, Delete, ReleaseNS, Unwind
<1>5. ASSUME NEW r \in Runs, AfterExit(r) \/ DeferNS(r) PROVE HeldInv'
  BY <1>5, <1>t, <1>a DEF HeldInv, AfterExit, DeferNS
<1>6. ASSUME NEW r \in Runs, AsyncStep(r) PROVE HeldInv'
  BY <1>6, <1>t, <1>a DEF HeldInv, AsyncStep, AsyncRecord, AsyncDelete, AsyncNS
<1>7. ASSUME NEW e \in Execs, Exec(e) \/ ExecStep(e) \/ ExecCancelled(e) PROVE HeldInv'
  <2>1. UNCHANGED <<pc, async, ns>>
    BY <1>7 DEF Exec, ExecStep, ExecGet, ExecState, ExecDone, ExecPoll, ExecCancelled, runVars
  <2>2. \A f \in Execs : epc'[f] # "idle" => target'[f] \in Ids
    BY <1>7, <1>t, <1>a DEF HeldInv, Exec, ExecStep, ExecGet, ExecState, ExecDone, ExecPoll, ExecCancelled, runVars, ExecGoto
  <2>3. QED
    BY <1>t, <2>1, <2>2 DEF HeldInv
<1>8. CASE (\E r \in Runs : OnStarted(r)) \/ (\E i \in Ids : OrphanExits(i)) \/ UNCHANGED vars
  BY <1>8, <1>t DEF HeldInv, OnStarted, OrphanExits, vars
<1>9. QED
  BY <1>1, <1>2, <1>3, <1>4, <1>5, <1>6, <1>7, <1>8 DEF Next, RunStep

(* Exec finds every container that runs, its bundle is there as long as it *)
(* runs, and no bundle outlives the Run that made it (Executor.Run and its *)
(* deferred calls, ContainerRegistry), whatever other Runs of the same id, *)
(* their background deletes and Execs do.                                  *)
THEOREM RunsSoundAlways == Spec => []RunsSound
<1>1. RunInv => RunsSound
  BY DEF RunInv, Placed, RunsSound, RunningRegistered, BundleLifetime, ContainerInv, BundleInv, Bundled, TypeOK
<1>2. RunInv /\ [Next]_vars => RunInv'
  BY PlacedNext, RunTypeNext, RunHeldNext DEF RunInv
<1>3. QED
  BY <1>1, <1>2, RunInitial, PTL DEF Spec
=============================================================================
