---------------------------- MODULE RuncExecutor ----------------------------
(***************************************************************************)
(* The runc executor (pkg/executors/runc: executor.go, container.go):      *)
(* concurrent calls of Executor.Run and Executor.Exec, the container       *)
(* registry, the network namespaces that Run takes from its provider, and  *)
(* the resource recorder that finishes a Run in the background.            *)
(*                                                                         *)
(* A Run's deferred calls are steps of its unwinding, in the order Go runs *)
(* them.  runc itself is external: container[i] is its state directory     *)
(* for id i.  The provider is the CNI provider: New takes the namespace    *)
(* that was put last, or makes one; Close puts it (module NSPool).         *)
(***************************************************************************)
EXTENDS Naturals, Sequences, FiniteSets

CONSTANTS
    Runs,       \* calls of Executor.Run
    Execs,      \* calls of Executor.Exec
    Ids,        \* container ids
    NS,         \* network namespaces the provider can make
    None,       \* no run, no id, no namespace
    Monitored   \* Config.ResourceMonitor is set

ASSUME NoneAssumption == None \notin Runs \cup Ids \cup NS
ASSUME MonitoredAssumption == Monitored \in BOOLEAN

VARIABLES
    registry,   \* ContainerRegistry.entries: the Run that registered each id
    done,       \* the done channel of each Run's entry: value sent, closed
    id,         \* the id of each Run
    pool,       \* namespaces put back and not yet taken, last put last
    made,       \* namespaces the provider has made
    ns,         \* the namespace of each Run
    bundle,     \* bundle directories that exist
    container,  \* runc's state for each id: which Run, and its status
    rec,        \* the recorder of each Run
    started,    \* how often Run's started channel has been closed
    result,     \* what Run will return: nil or an error
    pc,         \* where each Run is
    async,      \* where the goroutine of CloseAsync is
    epc,        \* where each Exec is
    target,     \* the id of each Exec
    waiting     \* the done channel (its Run) that an Exec has fetched

vars == <<registry, done, id, pool, made, ns, bundle, container, rec, started,
          result, pc, async, epc, target, waiting>>

netVars  == <<pool, made, ns>>
execVars == <<epc, target, waiting>>
regVars  == <<registry, done, id>>

NoContainer == [run |-> None, status |-> "none"]

TypeOK ==
    /\ registry \in [Ids -> Runs \cup {None}]
    /\ done \in [Runs -> [sent : BOOLEAN, closed : BOOLEAN]]
    /\ id \in [Runs -> Ids \cup {None}]
    /\ pool \in Seq(NS)
    /\ made \in SUBSET NS
    /\ ns \in [Runs -> NS \cup {None}]
    /\ bundle \in SUBSET Ids
    /\ container \in [Ids -> [run : Runs \cup {None},
                              status : {"none", "running", "orphaned", "stopped"}]]
    /\ rec \in [Runs -> {"none", "new", "started", "closed"}]
    /\ started \in [Runs -> 0..1]
    /\ result \in [Runs -> {"nil", "error"}]
    /\ pc \in [Runs -> {"idle", "net", "setup", "start", "running", "exited",
                        "delete", "nsClose", "unwind", "deferNS", "notify",
                        "unregister", "returned"}]
    /\ async \in [Runs -> {"none", "record", "delete", "nsClose", "done"}]
    /\ epc \in [Execs -> {"idle", "get", "state", "wait", "attached", "failed"}]
    /\ target \in [Execs -> Ids \cup {None}]
    /\ waiting \in [Execs -> Runs \cup {None}]

Init ==
    /\ registry = [i \in Ids |-> None]
    /\ done = [r \in Runs |-> [sent |-> FALSE, closed |-> FALSE]]
    /\ id = [r \in Runs |-> None]
    /\ pool = <<>>
    /\ made = {}
    /\ ns = [r \in Runs |-> None]
    /\ bundle = {}
    /\ container = [i \in Ids |-> NoContainer]
    /\ rec = [r \in Runs |-> "none"]
    /\ started = [r \in Runs |-> 0]
    /\ result = [r \in Runs |-> "nil"]
    /\ pc = [r \in Runs |-> "idle"]
    /\ async = [r \in Runs |-> "none"]
    /\ epc = [e \in Execs |-> "idle"]
    /\ target = [e \in Execs |-> None]
    /\ waiting = [e \in Execs |-> None]

Goto(r, l) == pc' = [pc EXCEPT ![r] = l]

(* return nil, err: the deferred calls begin. *)
Fail(r, l) == Goto(r, l) /\ result' = [result EXCEPT ![r] = "error"]

-----------------------------------------------------------------------------
(* Run, up to the start of the container *)

(* Mutant: an id that is registered is registered again. *)
RegisterBlind(r) ==
    /\ pc[r] = "idle"
    /\ \E i \in Ids : /\ registry' = [registry EXCEPT ![i] = r]
                      /\ id' = [id EXCEPT ![r] = i]
    /\ Goto(r, "net")
    /\ UNCHANGED <<done, netVars, bundle, container, rec, started, result,
                   async, execVars>>

(* registry.Register; an id that is registered makes Run fail at once. *)
Register(r) ==
    /\ pc[r] = "idle"
    /\ \E i \in Ids : /\ registry[i] = None
                      /\ registry' = [registry EXCEPT ![i] = r]
                      /\ id' = [id EXCEPT ![r] = i]
    /\ Goto(r, "net")
    /\ UNCHANGED <<done, netVars, bundle, container, rec, started, result,
                   async, execVars>>

(* provider.New: from the pool, or new, ... *)
NewNamespace(r) ==
    /\ pc[r] = "net"
    /\ \/ /\ pool # <<>>
          /\ ns' = [ns EXCEPT ![r] = pool[Len(pool)]]
          /\ pool' = SubSeq(pool, 1, Len(pool) - 1)
          /\ UNCHANGED made
       \/ /\ pool = <<>>
          /\ \E n \in NS \ made : /\ ns' = [ns EXCEPT ![r] = n]
                                  /\ made' = made \cup {n}
          /\ UNCHANGED pool
    /\ Goto(r, "setup")
    /\ UNCHANGED <<regVars, bundle, container, rec, started, result, async,
                   execVars>>

(* ... or an error (also for an unknown network mode). *)
NewNamespaceFails(r) ==
    /\ pc[r] = "net"
    /\ Fail(r, "notify")
    /\ UNCHANGED <<regVars, netVars, bundle, container, rec, started, async,
                   execVars>>

(* resolv.conf and hosts, rootfs mounts, the bundle directory, the spec    *)
(* and config.json, RecordNamespace.                                       *)
Setup(r) ==
    /\ pc[r] = "setup"
    /\ id[r] \notin bundle
    /\ bundle' = bundle \cup {id[r]}
    /\ rec' = [rec EXCEPT ![r] = IF Monitored THEN "new" ELSE "none"]
    /\ Goto(r, "start")
    /\ UNCHANGED <<regVars, netVars, container, started, result, async, execVars>>

(* One of those steps fails; whatever was made is undone by the deferred   *)
(* calls, and an existing bundle directory is left alone.                  *)
SetupFails(r) ==
    /\ pc[r] = "setup"
    /\ Fail(r, "deferNS")
    /\ UNCHANGED <<regVars, netVars, bundle, container, rec, started, async,
                   execVars>>

-----------------------------------------------------------------------------
(* runContainer *)

(* runc run creates and starts the container, ... (its states created and  *)
(* running are one: go-runc's Run does both, and an Exec that meets        *)
(* created polls on, as it does before the container is there.)            *)
StartContainer(r) ==
    /\ pc[r] = "start"
    /\ container[id[r]] = NoContainer
    /\ container' = [container EXCEPT ![id[r]] = [run |-> r, status |-> "running"]]
    /\ Goto(r, "running")
    /\ UNCHANGED <<regVars, netVars, bundle, rec, started, result, async,
                   execVars>>

(* ... or fails, as it must while runc still has state for the id. *)
StartFails(r) ==
    /\ pc[r] = "start"
    /\ Fail(r, "exited")
    /\ UNCHANGED <<regVars, netVars, bundle, container, rec, started, async,
                   execVars>>

(* onStarted, called by the WaitForStart goroutine: close started, start   *)
(* the recorder.  A process that exits first can make it not be called.    *)
OnStarted(r) ==
    /\ pc[r] = "running"
    /\ started[r] = 0
    /\ started' = [started EXCEPT ![r] = 1]
    /\ rec' = [rec EXCEPT ![r] = IF @ = "new" THEN "started" ELSE @]
    /\ UNCHANGED <<regVars, netVars, bundle, container, result, pc, async,
                   execVars>>

(* The process exits; buildExitError decides whether it succeeded. *)
ContainerExits(r) ==
    /\ pc[r] = "running"
    /\ container' = [container EXCEPT ![id[r]].status = "stopped"]
    /\ \E res \in {"nil", "error"} : result' = [result EXCEPT ![r] = res]
    /\ Goto(r, "exited")
    /\ UNCHANGED <<regVars, netVars, bundle, rec, started, async, execVars>>

(* The request is cancelled and the kill times out, so runc is stopped     *)
(* (module RuncProcess) and Run goes on; the container runs without it.    *)
RuncCancelled(r) ==
    /\ pc[r] = "running"
    /\ container' = [container EXCEPT ![id[r]].status = "orphaned"]
    /\ Fail(r, "exited")
    /\ UNCHANGED <<regVars, netVars, bundle, rec, started, async, execVars>>

(* A container whose runc is gone exits. *)
OrphanExits(i) ==
    /\ container[i].status = "orphaned"
    /\ container' = [container EXCEPT ![i].status = "stopped"]
    /\ UNCHANGED <<regVars, netVars, bundle, rec, started, result, pc, async,
                   execVars>>

-----------------------------------------------------------------------------
(* Run, after the container *)

(* On an error the recorder is closed and the container released at once;  *)
(* a success with a recorder leaves both to CloseAsync.                    *)
AfterExit(r) ==
    /\ pc[r] = "exited"
    /\ IF rec[r] # "none" /\ result[r] = "nil"
       THEN /\ Goto(r, "unwind")
            /\ async' = [async EXCEPT ![r] = "record"]
            /\ UNCHANGED rec
       ELSE /\ Goto(r, "delete")
            /\ rec' = [rec EXCEPT ![r] = IF @ = "none" THEN @ ELSE "closed"]
            /\ UNCHANGED async
    /\ UNCHANGED <<regVars, netVars, bundle, container, started, result, execVars>>

(* runc delete: removes the state of a container that is not running,      *)
(* whichever Run it belongs to.                                            *)
RuncDelete(i) ==
    container' = [container EXCEPT ![i] =
                        IF @.status \in {"running", "orphaned"} THEN @ ELSE NoContainer]

(* releaseContainer: runtime.Delete, then ns.Close. *)
Delete(r) ==
    /\ pc[r] = "delete"
    /\ RuncDelete(id[r])
    /\ Goto(r, "nsClose")
    /\ UNCHANGED <<regVars, netVars, bundle, rec, started, result, async,
                   execVars>>

ReleaseNS(r) ==
    /\ pc[r] = "nsClose"
    /\ pool' = Append(pool, ns[r])
    /\ Goto(r, "unwind")
    /\ UNCHANGED <<regVars, made, ns, bundle, container, rec, started, result,
                   async, execVars>>

(* Deferred: unmount the rootfs, os.RemoveAll(bundle), release the mounts. *)
Unwind(r) ==
    /\ pc[r] = "unwind"
    /\ bundle' = bundle \ {id[r]}
    /\ Goto(r, "deferNS")
    /\ UNCHANGED <<regVars, netVars, container, rec, started, result, async,
                   execVars>>

(* Deferred: nsCloseOnce.Do(ns.Close), which runs on every path. *)
DeferNS(r) ==
    /\ pc[r] = "deferNS"
    /\ pool' = Append(pool, ns[r])
    /\ Goto(r, "notify")
    /\ UNCHANGED <<regVars, made, ns, bundle, container, rec, started, result,
                   async, execVars>>

(* Deferred: notifyDone sends the error and closes the channel, ... *)
Notify(r) ==
    /\ pc[r] = "notify"
    /\ done' = [done EXCEPT ![r] = [sent |-> TRUE, closed |-> TRUE]]
    /\ Goto(r, "unregister")
    /\ UNCHANGED <<registry, id, netVars, bundle, container, rec, started,
                   result, async, execVars>>

(* Mutant: a Run that failed before its container started does not close   *)
(* started.                                                                *)
UnregisterSilent(r) ==
    /\ pc[r] = "unregister"
    /\ registry' = [registry EXCEPT ![id[r]] = None]
    /\ Goto(r, "returned")
    /\ UNCHANGED <<done, id, netVars, bundle, container, rec, started, result,
                   async, execVars>>

(* ... then removes the entry; started is closed if it has not been. *)
Unregister(r) ==
    /\ pc[r] = "unregister"
    /\ registry' = [registry EXCEPT ![id[r]] = None]
    /\ started' = [started EXCEPT ![r] = 1]
    /\ Goto(r, "returned")
    /\ UNCHANGED <<done, id, netVars, bundle, container, rec, result, async,
                   execVars>>

-----------------------------------------------------------------------------
(* cgroupRecord.CloseAsync(releaseContainer), in its own goroutine *)

AsyncRecord(r) ==
    /\ async[r] = "record"
    /\ rec' = [rec EXCEPT ![r] = "closed"]
    /\ async' = [async EXCEPT ![r] = "delete"]
    /\ UNCHANGED <<regVars, netVars, bundle, container, started, result, pc,
                   execVars>>

AsyncDelete(r) ==
    /\ async[r] = "delete"
    /\ RuncDelete(id[r])
    /\ async' = [async EXCEPT ![r] = "nsClose"]
    /\ UNCHANGED <<regVars, netVars, bundle, rec, started, result, pc, execVars>>

AsyncNS(r) ==
    /\ async[r] = "nsClose"
    /\ pool' = Append(pool, ns[r])
    /\ async' = [async EXCEPT ![r] = "done"]
    /\ UNCHANGED <<regVars, made, ns, bundle, container, rec, started, result,
                   pc, execVars>>

-----------------------------------------------------------------------------
(* Exec *)
runVars == <<regVars, netVars, bundle, container, rec, started, result, pc, async>>

ExecGoto(e, l) == epc' = [epc EXCEPT ![e] = l]

Exec(e) ==
    /\ epc[e] = "idle"
    /\ \E i \in Ids : target' = [target EXCEPT ![e] = i]
    /\ ExecGoto(e, "get")
    /\ UNCHANGED <<runVars, waiting>>

(* waitForRunning: registry.Get. *)
ExecGet(e) ==
    /\ epc[e] = "get"
    /\ waiting' = [waiting EXCEPT ![e] = registry[target[e]]]
    /\ ExecGoto(e, IF registry[target[e]] = None THEN "failed" ELSE "state")
    /\ UNCHANGED <<runVars, target>>

(* waitForRunning: runtime.State. *)
ExecState(e) ==
    /\ epc[e] = "state"
    /\ ExecGoto(e, IF container[target[e]].status \in {"running", "orphaned"}
                   THEN "attached" ELSE "wait")
    /\ UNCHANGED <<runVars, target, waiting>>

(* waitForRunning: the container's done channel is ready. *)
ExecDone(e) ==
    /\ epc[e] = "wait"
    /\ done[waiting[e]].sent \/ done[waiting[e]].closed
    /\ done' = [done EXCEPT ![waiting[e]].sent = FALSE]
    /\ ExecGoto(e, "failed")
    /\ UNCHANGED <<registry, id, netVars, bundle, container, rec, started,
                   result, pc, async, target, waiting>>

(* waitForRunning: time.After(pollInterval). *)
ExecPoll(e) ==
    /\ epc[e] = "wait"
    /\ ExecGoto(e, "get")
    /\ UNCHANGED <<runVars, target, waiting>>

(* waitForRunning: the Exec's context is cancelled. *)
ExecCancelled(e) ==
    /\ epc[e] = "wait"
    /\ ExecGoto(e, "failed")
    /\ UNCHANGED <<runVars, target, waiting>>

-----------------------------------------------------------------------------
RunStep(r) ==
    \/ NewNamespace(r) \/ NewNamespaceFails(r) \/ Setup(r) \/ SetupFails(r)
    \/ StartContainer(r) \/ StartFails(r)
    \/ AfterExit(r) \/ Delete(r) \/ ReleaseNS(r)
    \/ Unwind(r) \/ DeferNS(r) \/ Notify(r) \/ Unregister(r)

AsyncStep(r) == AsyncRecord(r) \/ AsyncDelete(r) \/ AsyncNS(r)

ExecStep(e) == ExecGet(e) \/ ExecState(e) \/ ExecDone(e) \/ ExecPoll(e)

Next ==
    \/ \E r \in Runs : \/ Register(r) \/ RunStep(r) \/ OnStarted(r)
                       \/ ContainerExits(r) \/ RuncCancelled(r) \/ AsyncStep(r)
    \/ \E i \in Ids : OrphanExits(i)
    \/ \E e \in Execs : Exec(e) \/ ExecStep(e) \/ ExecCancelled(e)

(* Every goroutine that can run does, and runc answers; a container need   *)
(* not exit, nobody need call Run or Exec.                                 *)
Fairness ==
    /\ \A r \in Runs : /\ WF_vars(RunStep(r))
                       /\ WF_vars(OnStarted(r))
                       /\ WF_vars(AsyncStep(r))
    /\ \A e \in Execs : WF_vars(ExecStep(e))

Spec == Init /\ [][Next]_vars /\ Fairness

-----------------------------------------------------------------------------
(* Exec finds every running container: while runc runs a container, its id *)
(* is registered by the Run it belongs to, whatever other Runs of that id  *)
(* come, fail and unregister meanwhile.                                    *)
RunningRegistered ==
    \A i \in Ids : container[i].status = "running" => registry[i] = container[i].run

(* Run's temporary state does not outlive it: a Run that has returned has  *)
(* no bundle directory, and no container that runc runs loses its bundle.  *)
BundleLifetime ==
    /\ \A i \in Ids : container[i].status = "running" => i \in bundle
    /\ \A i \in bundle : registry[i] # None

(* A recorder that was started stops once the container has exited: no     *)
(* sampling goroutine is left behind on any path out of Run.               *)
RecorderStops ==
    \A r \in Runs : (rec[r] = "started" /\ pc[r] = "exited") ~> rec[r] = "closed"

(* Whoever waits for started is woken, whether the container starts or Run *)
(* fails before that.                                                      *)
StartedSignalled == \A r \in Runs : pc[r] # "idle" ~> started[r] = 1

(* Exec attaches to the container or returns an error; it never waits for  *)
(* ever.                                                                   *)
ExecReturns ==
    \A e \in Execs : epc[e] # "idle" ~> epc[e] \in {"attached", "failed"}

(* A namespace "is owned by exactly one consumer at a time": no two        *)
(* containers that run share one.                                          *)
NamespaceExclusive ==
    \A i, j \in Ids :
        /\ container[i].status = "running" /\ container[j].status = "running"
        /\ i # j
        => ns[container[i].run] # ns[container[j].run]

(* What a Run sets up stays as long as its container runs and no longer,   *)
(* whatever other Runs of the same id do.                                  *)
RunsSound == TypeOK /\ RunningRegistered /\ BundleLifetime
=============================================================================
