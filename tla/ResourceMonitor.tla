-------------------------- MODULE ResourceMonitor --------------------------
(***************************************************************************)
(* Resource accounting (src/pkg/executors/resources): the Monitor, its     *)
(* records and the samplers that feed them.                                *)
(*                                                                         *)
(* A sampler (sampler.go) has one runner, which calls a collection         *)
(* callback and hands the value to the subscriptions that are due; a       *)
(* subscription's interval doubles as it grows old.  Time is counted in    *)
(* units of minInterval.  A sample is its timestamp.  The callback runs    *)
(* without the sampler's lock, in the runner and in Sub.Close; everything  *)
(* between two callbacks is one step.                                      *)
(*                                                                         *)
(* A cgroup record (record.go) has a sampler of its own, operation records *)
(* share the system sampler.  Every record is closed once, by whichever of *)
(* its owner, its waiter and the closing Monitor comes first; its entry in *)
(* the monitor's map is deleted by a goroutine of its own.                 *)
(***************************************************************************)
EXTENDS Naturals, Sequences, SequencesExt, FiniteSets

CONSTANTS
    Samplers,
    Subs,
    SamplerOf,      \* the sampler of each subscription
    MaxSamples      \* maxSamples of NewSampler

ASSUME SamplerAssumption ==
    /\ SamplerOf \in [Subs -> Samplers]
    /\ MaxSamples \in Nat \ {0}

VARIABLES
    now,            \* time
    smpDone,        \* is the sampler's done channel closed
    smpRunner,      \* its runner: none, waiting for the timer, or in the callback
    smpRunning,     \* its running flag
    smpNext,        \* when its timer fires
    smpTick,        \* time of the tick being collected
    smpActive,      \* subscriptions that tick collects for
    subs,           \* registered subscriptions of each sampler
    sub             \* state of each subscription

samplerVars == <<now, smpDone, smpRunner, smpRunning, smpNext, smpTick, smpActive, subs, sub>>
RunnerVars == <<now, smpDone, smpRunner, smpRunning, smpNext, smpTick, smpActive>>

\* last = 0 stands for the zero time: a fresh subscription is due at the first tick.
NewSub == [made |-> FALSE, closed |-> FALSE, interval |-> 1, first |-> 0, last |-> 0,
           samples |-> <<>>, err |-> FALSE]

SamplerTypeOK ==
    /\ now \in Nat
    /\ smpDone \in [Samplers -> BOOLEAN] /\ smpRunning \in [Samplers -> BOOLEAN]
    /\ smpRunner \in [Samplers -> {"none", "waiting", "callback"}]
    /\ \A s \in Samplers : smpActive[s] \subseteq Subs /\ subs[s] \subseteq Subs
    /\ \A x \in Subs : sub[x].interval \in Nat \ {0} /\ sub[x].samples \in Seq(Nat)

SamplerInit ==
    /\ now = 1
    /\ smpDone = [s \in Samplers |-> FALSE]
    /\ smpRunner = [s \in Samplers |-> "none"]
    /\ smpRunning = [s \in Samplers |-> FALSE]
    /\ smpNext = [s \in Samplers |-> 0]
    /\ smpTick = [s \in Samplers |-> 0]
    /\ smpActive = [s \in Samplers |-> {}]
    /\ subs = [s \in Samplers |-> {}]
    /\ sub = [x \in Subs |-> NewSub]

\* Record: register, and start a runner unless one is running.
Record(x) ==
    LET s == SamplerOf[x] IN
    /\ subs' = [subs EXCEPT ![s] = @ \cup {x}]
    /\ sub' = [sub EXCEPT ![x] = [NewSub EXCEPT !.made = TRUE, !.first = now]]
    /\ smpRunning' = [smpRunning EXCEPT ![s] = TRUE]
    /\ IF smpRunning[s] THEN UNCHANGED <<smpRunner, smpNext>>
       ELSE /\ smpRunner' = [smpRunner EXCEPT ![s] = "waiting"]
            /\ smpNext' = [smpNext EXCEPT ![s] = now + 1]
    /\ UNCHANGED <<now, smpDone, smpTick, smpActive>>

\* Sampler.Close.
CloseSampler(s) == smpDone' = [smpDone EXCEPT ![s] = TRUE]

\* collectDueSubs.
DueSubs(s) == {x \in subs[s] : ~sub[x].closed /\ (sub[x].last = 0 \/ now - sub[x].last >= sub[x].interval)}

\* run, at a tick of the timer: stamp the due subscriptions; with none the callback is skipped.
TickerFires(s) ==
    LET due == DueSubs(s) IN
    /\ smpRunner[s] = "waiting" /\ now >= smpNext[s]
    /\ sub' = [x \in Subs |-> IF x \in due THEN [sub[x] EXCEPT !.last = now] ELSE sub[x]]
    /\ smpNext' = [smpNext EXCEPT ![s] = now + 1]
    /\ smpTick' = [smpTick EXCEPT ![s] = now]
    /\ smpActive' = [smpActive EXCEPT ![s] = due]
    /\ smpRunner' = [smpRunner EXCEPT ![s] = IF due = {} THEN "waiting" ELSE "callback"]
    /\ UNCHANGED <<now, smpDone, smpRunning, subs>>

\* fanOut for one subscription: value or error, then the adaptive interval.
Received(x, tm, ok) ==
    LET y == IF ok THEN [sub[x] EXCEPT !.samples = Append(@, tm), !.err = FALSE]
                   ELSE [sub[x] EXCEPT !.err = TRUE]
    IN  IF y.interval * MaxSamples <= tm - y.first THEN [y EXCEPT !.interval = 2 * @] ELSE y

\* Variant: subscriptions closed during the callback still receive the value.
FanOutUnchecked(s) ==
    /\ smpRunner[s] = "callback"
    /\ \E ok \in BOOLEAN :
          sub' = [x \in Subs |-> IF x \in smpActive[s] THEN Received(x, smpTick[s], ok) ELSE sub[x]]
    /\ smpRunner' = [smpRunner EXCEPT ![s] = "waiting"]
    /\ smpActive' = [smpActive EXCEPT ![s] = {}]
    /\ UNCHANGED <<now, smpDone, smpRunning, smpNext, smpTick, subs>>

\* run, after the callback: fanOut skips subscriptions closed meanwhile.
FanOut(s) ==
    /\ smpRunner[s] = "callback"
    /\ \E ok \in BOOLEAN :
          sub' = [x \in Subs |-> IF x \in smpActive[s] \cap subs[s]
                                 THEN Received(x, smpTick[s], ok) ELSE sub[x]]
    /\ smpRunner' = [smpRunner EXCEPT ![s] = "waiting"]
    /\ smpActive' = [smpActive EXCEPT ![s] = {}]
    /\ UNCHANGED <<now, smpDone, smpRunning, smpNext, smpTick, subs>>

\* run returns: done is closed; the deferred function clears running.
RunnerExit(s) ==
    /\ smpRunner[s] = "waiting" /\ smpDone[s]
    /\ smpRunner' = [smpRunner EXCEPT ![s] = "none"]
    /\ smpRunning' = [smpRunning EXCEPT ![s] = FALSE]
    /\ UNCHANGED <<now, smpDone, smpNext, smpTick, smpActive, subs, sub>>

\* filterByInterval: samples at least interval apart, the first one always.
FilterByInterval(x) ==
    LET Keep(acc, ts) == IF acc = <<>> \/ ts - acc[Len(acc)] >= sub[x].interval
                         THEN Append(acc, ts) ELSE acc
    IN  FoldLeft(Keep, <<>>, sub[x].samples)

\* Sub.Close, the part under the lock.
CloseSub(x) ==
    /\ subs' = [subs EXCEPT ![SamplerOf[x]] = @ \ {x}]
    /\ sub' = [sub EXCEPT ![x].closed = TRUE]

SamplerStep(s) == TickerFires(s) \/ FanOut(s) \/ RunnerExit(s)

-----------------------------------------------------------------------------
(* The Monitor and its records. *)

CONSTANTS
    CgroupRecs,     \* records RecordNamespace creates; each has a sampler of its own
    OpRecs,         \* records RecordOperation creates
    SysSampler,     \* the system sampler
    NsOf,           \* the namespace (or operation ID) each is registered under
    MaxTime,        \* bound on time
    NoRec

Recs == CgroupRecs \cup OpRecs
Names == {NsOf[r] : r \in Recs}

ASSUME ResourceAssumption ==
    /\ CgroupRecs \cap OpRecs = {} /\ NoRec \notin Recs
    /\ Subs = Recs /\ Samplers = CgroupRecs \cup {SysSampler}
    /\ SamplerOf = [r \in Recs |-> IF r \in CgroupRecs THEN r ELSE SysSampler]

VARIABLES
    monClosed,   \* is Monitor.closed closed
    monMap,      \* records and opRecords: the live record of each name
    monPc,       \* Monitor.Close
    monCopy,     \* records it still has to close
    recPc,       \* what the owner of each record does
    recAsync,    \* was it closed by CloseAsync
    recNext,     \* calls of the next callback
    recOnce,     \* progress of the once-only close
    recBusy,     \* somebody has called close
    recDelete,   \* a goroutine is about to delete the entry of the record's name
    recResult,   \* samples or error, available when recOnce = "done"
    recEscaped   \* history: the record's entry was replaced, deleted by another record, or made after
                 \* Monitor.Close copied the map

monVars == <<monClosed, monMap, monPc, monCopy>>
recVars == <<recPc, recAsync, recNext, recOnce, recBusy, recDelete, recResult, recEscaped>>
resVars == <<samplerVars, monVars, recVars>>

ResTypeOK ==
    /\ SamplerTypeOK
    /\ monClosed \in BOOLEAN /\ monCopy \subseteq Recs
    /\ monMap \in [Names -> Recs \cup {NoRec}]
    /\ monPc \in {"open", "copy", "records", "closed"}
    /\ recPc \in [Recs -> {"idle", "checked", "made", "started", "closing", "end", "nop"}]
    /\ recOnce \in [Recs -> {"no", "sub", "finish", "done"}]
    /\ recNext \in [Recs -> 0..1]

ResInit ==
    /\ SamplerInit
    /\ monClosed = FALSE
    /\ monMap = [n \in Names |-> NoRec]
    /\ monPc = "open"
    /\ monCopy = {}
    /\ recPc = [r \in Recs |-> "idle"]
    /\ recAsync = [r \in Recs |-> FALSE]
    /\ recNext = [r \in Recs |-> 0]
    /\ recOnce = [r \in Recs |-> "no"]
    /\ recBusy = [r \in Recs |-> FALSE]
    /\ recDelete = [r \in Recs |-> FALSE]
    /\ recResult = [r \in Recs |-> "none"]
    /\ recEscaped = [r \in Recs |-> FALSE]

RecAt(r, from, to) == recPc[r] = from /\ recPc' = [recPc EXCEPT ![r] = to]
OnceAt(r, from, to) == recOnce[r] = from /\ recOnce' = [recOnce EXCEPT ![r] = to]
\* Registered, and nobody has called close on it.
Live(r) == recPc[r] \in {"made", "started"} /\ ~recBusy[r]

\* RecordNamespace and RecordOperation: the check of closed ...
RecordCheck(r) ==
    /\ RecAt(r, "idle", IF monClosed THEN "nop" ELSE "checked")
    /\ UNCHANGED <<samplerVars, monVars, recAsync, recNext, recOnce, recBusy, recDelete, recResult, recEscaped>>

\* ... and, separately, the insertion under the lock, over whatever has that name.
RecordInsert(r) ==
    LET old == monMap[NsOf[r]] IN
    /\ RecAt(r, "checked", "made")
    /\ monMap' = [monMap EXCEPT ![NsOf[r]] = r]
    /\ recEscaped' = [q \in Recs |-> recEscaped[q] \/ (q = old /\ Live(q))
                                               \/ (q = r /\ monPc \in {"records", "closed"})]
    /\ UNCHANGED <<samplerVars, monClosed, monPc, monCopy, recAsync, recNext, recOnce, recBusy,
                   recDelete, recResult>>

\* Start subscribes to the record's sampler.
RecStart(r) ==
    /\ RecAt(r, "made", "started")
    /\ Record(r)
    /\ UNCHANGED <<monVars, recAsync, recNext, recOnce, recBusy, recDelete, recResult, recEscaped>>

\* The owner ends the record: Close or CloseAsync, also when Start was never reached.
OwnerClose(r) ==
    /\ \/ RecAt(r, "made", "closing")
       \/ RecAt(r, "started", "closing")
    /\ \E async \in BOOLEAN : recAsync' = [recAsync EXCEPT ![r] = async]
    /\ recBusy' = [recBusy EXCEPT ![r] = TRUE]
    /\ UNCHANGED <<samplerVars, monVars, recNext, recOnce, recDelete, recResult, recEscaped>>

\* close returned to the owner, who waited for the once; CloseAsync then calls next.
OwnerDone(r) ==
    /\ recOnce[r] = "done" /\ RecAt(r, "closing", "end")
    /\ recNext' = [recNext EXCEPT ![r] = @ + IF recAsync[r] THEN 1 ELSE 0]
    /\ UNCHANGED <<samplerVars, monVars, recAsync, recOnce, recBusy, recDelete, recResult, recEscaped>>

\* close, inside the once: the entry is deleted in the background; without a
\* subscription there is nothing to collect.
CloseBegin(r) ==
    /\ recBusy[r] /\ OnceAt(r, "no", IF sub[r].made THEN "sub" ELSE "done")
    /\ recDelete' = [recDelete EXCEPT ![r] = r \in CgroupRecs]
    /\ UNCHANGED <<samplerVars, monVars, recPc, recAsync, recNext, recBusy, recResult, recEscaped>>

\* Sub.Close: under the lock the subscription leaves the sampler; one in error yields the
\* error, otherwise the terminal sample is collected, which may fail.
CloseSubscription(r) ==
    /\ OnceAt(r, "sub", "finish")
    /\ CloseSub(r)
    /\ \E res \in {"samples", "error"} :
          /\ sub[r].err => res = "error"
          /\ recResult' = [recResult EXCEPT ![r] = res]
    /\ UNCHANGED <<RunnerVars, monVars, recPc, recAsync, recNext, recBusy, recDelete, recEscaped>>

\* Variant: a cgroup record does not stop its sampler after an error.
CloseFinishOnSuccess(r) ==
    /\ OnceAt(r, "finish", "done")
    /\ IF r \in CgroupRecs /\ recResult[r] = "samples" THEN CloseSampler(r) ELSE UNCHANGED smpDone
    /\ UNCHANGED <<now, smpRunner, smpRunning, smpNext, smpTick, smpActive, subs, sub>>
    /\ UNCHANGED <<monVars, recPc, recAsync, recNext, recBusy, recDelete, recResult, recEscaped>>

\* close ends: a cgroup record stops its own sampler; done is closed.
CloseFinish(r) ==
    /\ OnceAt(r, "finish", "done")
    /\ IF r \in CgroupRecs THEN CloseSampler(r) ELSE UNCHANGED smpDone
    /\ UNCHANGED <<now, smpRunner, smpRunning, smpNext, smpTick, smpActive, subs, sub>>
    /\ UNCHANGED <<monVars, recPc, recAsync, recNext, recBusy, recDelete, recResult, recEscaped>>

\* The background delete removes the entry of its name, whoever's it is by now.
DeleteEntry(r) ==
    LET old == monMap[NsOf[r]] IN
    /\ recDelete[r]
    /\ recDelete' = [recDelete EXCEPT ![r] = FALSE]
    /\ monMap' = [monMap EXCEPT ![NsOf[r]] = NoRec]
    /\ recEscaped' = [q \in Recs |-> recEscaped[q] \/ (q = old /\ q # r /\ Live(q))]
    /\ UNCHANGED <<samplerVars, monClosed, monPc, monCopy, recPc, recAsync, recNext, recOnce,
                   recBusy, recResult>>

-----------------------------------------------------------------------------
\* Monitor.Close: broadcast, ...
MonitorClose ==
    /\ monPc = "open" /\ monPc' = "copy"
    /\ monClosed' = TRUE
    /\ UNCHANGED <<samplerVars, monMap, monCopy, recVars>>

\* ... copy the maps under the lock, ...
MonitorCopy ==
    /\ monPc = "copy" /\ monPc' = "records"
    /\ monCopy' = {monMap[n] : n \in Names} \ {NoRec}
    /\ UNCHANGED <<samplerVars, monClosed, monMap, recVars>>

\* ... close the records of the copy one after the other, each to the end, ...
MonitorCloseRecord(r) ==
    /\ monPc = "records" /\ r \in monCopy
    /\ IF recOnce[r] = "done"
       THEN monCopy' = monCopy \ {r} /\ UNCHANGED recBusy
       ELSE recBusy' = [recBusy EXCEPT ![r] = TRUE] /\ ~recBusy[r] /\ UNCHANGED monCopy
    /\ UNCHANGED <<samplerVars, monClosed, monMap, monPc, recPc, recAsync, recNext, recOnce,
                   recDelete, recResult, recEscaped>>

\* ... and the system sampler.
MonitorFinish ==
    /\ monPc = "records" /\ monCopy = {} /\ monPc' = "closed"
    /\ CloseSampler(SysSampler)
    /\ UNCHANGED <<now, smpRunner, smpRunning, smpNext, smpTick, smpActive, subs, sub>>
    /\ UNCHANGED <<monClosed, monMap, monCopy, recVars>>

PassTime == now < MaxTime /\ now' = now + 1
            /\ UNCHANGED <<smpDone, smpRunner, smpRunning, smpNext, smpTick, smpActive, subs, sub, monVars, recVars>>

RecordStep(r) == RecordCheck(r) \/ RecordInsert(r) \/ RecStart(r)
CloseStep(r) == CloseBegin(r) \/ CloseSubscription(r) \/ CloseFinish(r)
MonitorStep == MonitorCopy \/ (\E r \in Recs : MonitorCloseRecord(r)) \/ MonitorFinish

ResNext ==
    \/ MonitorClose \/ MonitorStep \/ PassTime
    \/ \E r \in Recs : RecordStep(r) \/ OwnerClose(r) \/ OwnerDone(r) \/ CloseStep(r) \/ DeleteEntry(r)
    \/ \E s \in Samplers : SamplerStep(s) /\ UNCHANGED <<monVars, recVars>>

\* Records, their samplers and Monitor.Close beside each other.
ResSpec == ResInit /\ [][ResNext]_resVars

-----------------------------------------------------------------------------
\* A closed subscription's history is final: a value whose collection overlaps
\* Sub.Close is not appended, nor does it turn a success into an error
\* (fanOut's membership test, sampler.go:156-160).
ClosedHistoryFinal ==
    [][\A x \in Subs : sub[x].closed => sub'[x].samples = sub[x].samples /\ sub'[x].err = sub[x].err]_resVars

\* Downsampling keeps a subscription's result bounded however long it runs, and keeps
\* its samples in order and at least one interval apart (filterByInterval and the
\* doubling in fanOut).
HistoryBounded ==
    \A x \in Subs : sub[x].made =>
        LET kept == FilterByInterval(x) IN
        /\ Len(kept) <= MaxSamples + 1
        /\ \A i \in 1..(Len(kept) - 1) : kept[i + 1] - kept[i] >= sub[x].interval

\* After Monitor.Close every record that is still open escaped its copy of the map for
\* a reason: it was inserted after the copy, or another record of the same namespace
\* had replaced or deleted its entry (Close, RecordNamespace, record.go:133).
CloseCoversRegistered ==
    monPc = "closed" => \A r \in Recs : Live(r) => recEscaped[r]

\* A record that is done before it starts can leave a sampler running; otherwise a
\* finished cgroup record has stopped its sampler, so its runner ends (close in
\* record.go).
DoneMeansStopped ==
    \A r \in CgroupRecs : recOnce[r] = "done" /\ sub[r].closed => smpDone[r]

\* Close, Wait and Samples return: every record that somebody closes is done eventually,
\* and CloseAsync has called next, exactly once and only after that.
CloseCompletes ==
    (\E r \in Recs : recBusy[r]) ~>
        \A r \in Recs : (recBusy[r] => recOnce[r] = "done") /\ (recAsync[r] => recNext[r] = 1)

\* Records and their samplers against Monitor.Close: results stay bounded, what is left open
\* escaped for a known reason, and a finished record samples no more.
RecordsSound == ResTypeOK /\ HistoryBounded /\ CloseCoversRegistered /\ DoneMeansStopped
=============================================================================
