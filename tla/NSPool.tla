------------------------------- MODULE NSPool -------------------------------
(***************************************************************************)
(* The pool of pre-created network namespaces of the CNI network provider  *)
(* (pkg/executors/network/cniprovider: pool.go, namespace.go).             *)
(*                                                                         *)
(* Builds (Clients) get and put namespaces while three goroutines of the   *)
(* provider run beside them: Filler (fillLoop), Cleaner (the AfterFunc     *)
(* callback runCleanup) and Closer (close).  What the code does under      *)
(* p.mu is one action; what it does outside the lock (creating and         *)
(* releasing a namespace, stamping lastUsed, the cleanupScheduled CAS) is  *)
(* an action of its own, so it interleaves with the other goroutines.      *)
(*                                                                         *)
(* Time: age[n] is the time since n.lastUsed, capped at Grace (the code    *)
(* only compares it with aboveTargetGracePeriod).                          *)
(***************************************************************************)
EXTENDS Integers, Sequences, FiniteSets

CONSTANTS
    Clients,    \* goroutines that run builds
    Filler,     \* the background prefill goroutine
    Cleaner,    \* the cleanup timer's callback
    Closer,     \* the goroutine that closes the provider
    NS,         \* bound: the namespaces that can be created (identity.NewID)
    NoNS,       \* a nil *cniNS
    TargetSize, \* nsPool.targetSize (Opt.PoolSize)
    Grace       \* aboveTargetGracePeriod, in ticks

Procs == Clients \cup {Filler, Cleaner, Closer}

ASSUME ProcsAssumption ==
    /\ Filler \notin Clients /\ Cleaner \notin Clients /\ Closer \notin Clients
    /\ Filler # Cleaner /\ Filler # Closer /\ Cleaner # Closer
ASSUME ClientsAssumption == IsFiniteSet(Clients)
ASSUME NSAssumption == NoNS \notin NS
ASSUME SizeAssumption == TargetSize \in Nat /\ Grace \in Nat \ {0}

VARIABLES
    actualSize,       \* p.actualSize
    available,        \* p.available, least recently used first
    closed,           \* p.closed
    cleanupScheduled, \* p.cleanupScheduled
    timer,            \* time left on the pending AfterFunc, NoTimer if none
    fillDone,         \* p.fillDone has been closed
    age,              \* time since lastUsed of each namespace, capped at Grace
    created,          \* namespaces newNS has returned
    released,         \* namespaces release() has torn down
    held,             \* the local variable ns of each goroutine
    toRelease,        \* the namespaces a goroutine has still to release
    pc                \* where each goroutine is

vars == <<actualSize, available, closed, cleanupScheduled, timer, fillDone,
          age, created, released, held, toRelease, pc>>

NoTimer == -1

Labels == {"idle", "alloc", "register", "using", "put", "schedule",
           "release", "releaseErr", "check", "backoff", "waitFill", "done"}

SeqRange(s) == {s[i] : i \in DOMAIN s}

TypeOK ==
    /\ actualSize \in Int
    /\ available \in Seq(NS)
    /\ closed \in BOOLEAN
    /\ cleanupScheduled \in BOOLEAN
    /\ timer \in {NoTimer} \cup 0..Grace
    /\ fillDone \in BOOLEAN
    /\ age \in [NS -> 0..Grace]
    /\ created \in SUBSET NS
    /\ released \in SUBSET NS
    /\ held \in [Procs -> NS \cup {NoNS}]
    /\ toRelease \in [Procs -> Seq(NS)]
    /\ pc \in [Procs -> Labels]

-----------------------------------------------------------------------------
(* newNSPool followed by startFill: the filler is running, nothing exists. *)
Init ==
    /\ actualSize = 0
    /\ available = <<>>
    /\ closed = FALSE
    /\ cleanupScheduled = FALSE
    /\ timer = NoTimer
    /\ fillDone = FALSE
    /\ age = [n \in NS |-> 0]
    /\ created = {}
    /\ released = {}
    /\ held = [p \in Procs |-> NoNS]
    /\ toRelease = [p \in Procs |-> <<>>]
    /\ pc = [p \in Procs |-> IF p = Filler THEN "check" ELSE "idle"]

poolVars == <<actualSize, available, closed>>
timeVars == <<cleanupScheduled, timer, age>>
nsVars   == <<created, released>>

(* Where a goroutine goes when get or put returns to it. *)
AfterCall(p) == IF p = Filler THEN "check" ELSE "idle"

(* Where a goroutine goes when get or allocNew returns an error. *)
AfterError(p) == IF p = Filler THEN "backoff" ELSE "idle"

(* Mutant: get leaves the namespace it returns in the pool.                *)
GetPeek(c) ==
    /\ pc[c] = "idle"
    /\ available # <<>>
    /\ held' = [held EXCEPT ![c] = available[Len(available)]]
    /\ pc' = [pc EXCEPT ![c] = "using"]
    /\ UNCHANGED <<available, actualSize, closed, timeVars, fillDone, nsVars,
                   toRelease>>

(* get: pop the most recently used namespace, or allocate a new one. *)
Get(c) ==
    /\ pc[c] = "idle"
    /\ \/ /\ available # <<>>
          /\ held' = [held EXCEPT ![c] = available[Len(available)]]
          /\ available' = SubSeq(available, 1, Len(available) - 1)
          /\ pc' = [pc EXCEPT ![c] = "using"]
       \/ /\ available = <<>>
          /\ pc' = [pc EXCEPT ![c] = "alloc"]
          /\ UNCHANGED <<available, held>>
    /\ UNCHANGED <<actualSize, closed, timeVars, fillDone, nsVars, toRelease>>

(* allocNew, outside the lock: newNS creates a namespace with a fresh id. *)
NewNS(p) ==
    /\ pc[p] = "alloc"
    /\ \E n \in NS \ created :
          /\ created' = created \cup {n}
          /\ held' = [held EXCEPT ![p] = n]
    /\ pc' = [pc EXCEPT ![p] = "register"]
    /\ UNCHANGED <<poolVars, timeVars, fillDone, released, toRelease>>

(* allocNew: newNS fails. *)
NewNSFails(p) ==
    /\ pc[p] = "alloc"
    /\ pc' = [pc EXCEPT ![p] = AfterError(p)]
    /\ UNCHANGED <<poolVars, timeVars, fillDone, nsVars, held, toRelease>>

(* Mutant: the race the comment on allocNew describes, an error returned   *)
(* without a release.                                                      *)
RegisterLeaks(p) ==
    /\ pc[p] = "register"
    /\ IF closed
       THEN /\ held' = [held EXCEPT ![p] = NoNS]
            /\ pc' = [pc EXCEPT ![p] = AfterError(p)]
            /\ UNCHANGED actualSize
       ELSE /\ actualSize' = actualSize + 1
            /\ pc' = [pc EXCEPT ![p] = "using"]
            /\ UNCHANGED held
    /\ UNCHANGED <<available, closed, timeVars, fillDone, nsVars, toRelease>>

(* allocNew, under the lock: count the namespace in, or, if the pool was   *)
(* closed meanwhile, release it and return an error.                       *)
Register(p) ==
    /\ pc[p] = "register"
    /\ \/ /\ closed
          /\ toRelease' = [toRelease EXCEPT ![p] = <<held[p]>>]
          /\ held' = [held EXCEPT ![p] = NoNS]
          /\ pc' = [pc EXCEPT ![p] = "releaseErr"]
          /\ UNCHANGED actualSize
       \/ /\ ~closed
          /\ actualSize' = actualSize + 1
          /\ pc' = [pc EXCEPT ![p] = "using"]
          /\ UNCHANGED <<held, toRelease>>
    /\ UNCHANGED <<available, closed, timeVars, fillDone, nsVars>>

(* put, before it takes the lock: ns.lastUsed = time.Now().  A client gets *)
(* here from cniNS.Close, the filler straight from allocNew.               *)
StampLastUsed(p) ==
    /\ pc[p] = "using"
    /\ age' = [age EXCEPT ![held[p]] = 0]
    /\ pc' = [pc EXCEPT ![p] = "put"]
    /\ UNCHANGED <<poolVars, cleanupScheduled, timer, fillDone, nsVars, held,
                   toRelease>>

(* put, under the lock. *)
Put(p) ==
    /\ pc[p] = "put"
    /\ held' = [held EXCEPT ![p] = NoNS]
    /\ \/ /\ closed
          /\ toRelease' = [toRelease EXCEPT ![p] = <<held[p]>>]
          /\ pc' = [pc EXCEPT ![p] = "release"]
          /\ UNCHANGED available
       \/ /\ ~closed
          /\ available' = Append(available, held[p])
          /\ pc' = [pc EXCEPT ![p] = IF actualSize > TargetSize
                                     THEN "schedule" ELSE AfterCall(p)]
          /\ UNCHANGED toRelease
    /\ UNCHANGED <<actualSize, closed, timeVars, fillDone, nsVars>>

(* put, after the unlock: the CAS that admits at most one pending timer. *)
Schedule(p) ==
    /\ pc[p] = "schedule"
    /\ IF cleanupScheduled
       THEN UNCHANGED <<cleanupScheduled, timer>>
       ELSE cleanupScheduled' = TRUE /\ timer' = Grace
    /\ pc' = [pc EXCEPT ![p] = AfterCall(p)]
    /\ UNCHANGED <<poolVars, age, fillDone, nsVars, held, toRelease>>

(* What follows the last release() of a goroutine: close waits for the     *)
(* filler, allocNew returns its error, put and runCleanup return.          *)
AfterRelease(p) ==
    CASE p = Closer             -> "waitFill"
      [] p = Cleaner            -> "idle"
      [] pc[p] = "releaseErr"   -> AfterError(p)
      [] OTHER                  -> AfterCall(p)

(* One call of ns.release(), outside the lock; after the last one the      *)
(* goroutine goes on, runCleanup through its deferred Store(false).        *)
Release(p) ==
    /\ pc[p] \in {"release", "releaseErr"}
    /\ \/ /\ toRelease[p] # <<>>
          /\ released' = released \cup {Head(toRelease[p])}
          /\ toRelease' = [toRelease EXCEPT ![p] = Tail(@)]
          /\ UNCHANGED <<cleanupScheduled, pc>>
       \/ /\ toRelease[p] = <<>>
          /\ pc' = [pc EXCEPT ![p] = AfterRelease(p)]
          /\ cleanupScheduled' = IF p = Cleaner THEN FALSE ELSE cleanupScheduled
          /\ UNCHANGED <<released, toRelease>>
    /\ UNCHANGED <<poolVars, timer, age, fillDone, created, held>>

(* Mutant: fillLoop does not look at closed. *)
FillCheckBlind ==
    /\ pc[Filler] = "check"
    /\ IF TargetSize - actualSize <= 0
       THEN fillDone' = TRUE /\ pc' = [pc EXCEPT ![Filler] = "done"]
       ELSE pc' = [pc EXCEPT ![Filler] = "alloc"] /\ UNCHANGED fillDone
    /\ UNCHANGED <<poolVars, timeVars, nsVars, held, toRelease>>

-----------------------------------------------------------------------------
(* fillLoop: read closed and the shortfall under the lock; leave the loop  *)
(* (and close fillDone) or allocate one more.                              *)
FillCheck ==
    /\ pc[Filler] = "check"
    /\ \/ /\ closed \/ TargetSize - actualSize <= 0
          /\ fillDone' = TRUE
          /\ pc' = [pc EXCEPT ![Filler] = "done"]
       \/ /\ ~closed /\ TargetSize - actualSize > 0
          /\ pc' = [pc EXCEPT ![Filler] = "alloc"]
          /\ UNCHANGED fillDone
    /\ UNCHANGED <<poolVars, timeVars, nsVars, held, toRelease>>

(* fillLoop: the retry delay after an error has passed. *)
FillRetry ==
    /\ pc[Filler] = "backoff"
    /\ pc' = [pc EXCEPT ![Filler] = "check"]
    /\ UNCHANGED <<poolVars, timeVars, fillDone, nsVars, held, toRelease>>

(* The loop of cleanupToTargetSize removes exactly the first k namespaces. *)
Evictable(k) ==
    /\ actualSize - k > TargetSize
    /\ Len(available) > k
    /\ age[available[k + 1]] >= Grace

EvictsExactly(k) == (\A i \in 0..(k - 1) : Evictable(i)) /\ ~Evictable(k)

(* runCleanup: the timer fires and cleanupToTargetSize collects, under the *)
(* lock, the idle namespaces above the target.                             *)
Cleanup ==
    /\ timer = 0
    /\ pc[Cleaner] = "idle"
    /\ timer' = NoTimer
    /\ \E k \in 0..Len(available) :
          /\ EvictsExactly(k)
          /\ actualSize' = actualSize - k
          /\ toRelease' = [toRelease EXCEPT ![Cleaner] = SubSeq(available, 1, k)]
          /\ available' = SubSeq(available, k + 1, Len(available))
    /\ pc' = [pc EXCEPT ![Cleaner] = "release"]
    /\ UNCHANGED <<closed, cleanupScheduled, age, fillDone, nsVars, held>>

(* close, under the lock. *)
Close ==
    /\ pc[Closer] = "idle"
    /\ closed' = TRUE
    /\ toRelease' = [toRelease EXCEPT ![Closer] = available]
    /\ available' = <<>>
    /\ actualSize' = actualSize - Len(available)
    /\ pc' = [pc EXCEPT ![Closer] = "release"]
    /\ UNCHANGED <<timeVars, fillDone, nsVars, held>>

(* close: <-p.fillDone. *)
CloseWait ==
    /\ pc[Closer] = "waitFill"
    /\ fillDone
    /\ pc' = [pc EXCEPT ![Closer] = "done"]
    /\ UNCHANGED <<poolVars, timeVars, fillDone, nsVars, held, toRelease>>

(* The clock: every namespace ages, the pending timer runs down. *)
Tick ==
    /\ age' = [n \in NS |-> IF age[n] < Grace THEN age[n] + 1 ELSE Grace]
    /\ timer' = IF timer > 0 THEN timer - 1 ELSE timer
    /\ UNCHANGED <<poolVars, cleanupScheduled, fillDone, nsVars, held,
                   toRelease, pc>>

-----------------------------------------------------------------------------
(* The steps a goroutine takes by itself inside get, put and allocNew. *)
CallStep(p) ==
    \/ NewNS(p) \/ NewNSFails(p) \/ Register(p) \/ Put(p) \/ Schedule(p)
    \/ Release(p)

Next ==
    \/ \E c \in Clients : Get(c)
    \/ \E p \in Clients \cup {Filler} : StampLastUsed(p)
    \/ \E p \in Procs : CallStep(p)
    \/ FillCheck \/ FillRetry \/ Cleanup \/ Close \/ CloseWait
    \/ Tick

Spec == Init /\ [][Next]_vars

(* A goroutine that can run does; a build ends some day; time passes.      *)
(* Nobody is obliged to ask for a namespace or to close the provider.      *)
Fairness ==
    /\ \A p \in Procs : WF_vars(CallStep(p))
    /\ \A p \in Clients \cup {Filler} : WF_vars(StampLastUsed(p))
    /\ WF_vars(FillCheck) /\ WF_vars(FillRetry)
    /\ WF_vars(Cleanup) /\ WF_vars(CloseWait) /\ WF_vars(Tick)

FairSpec == Spec /\ Fairness

-----------------------------------------------------------------------------
NoRepeats(s) == \A i, j \in DOMAIN s : s[i] = s[j] => i = j

(* Nothing is owned twice: a namespace that exists is in the pool once, or *)
(* held by one goroutine, or waiting to be released by one, and none of    *)
(* them has been torn down.  Two builds never share a network namespace.   *)
SoleOwner ==
    /\ NoRepeats(available)
    /\ \A p \in Procs : NoRepeats(toRelease[p])
    /\ \A p, q \in Procs :
          /\ p # q /\ held[p] # NoNS => held[p] # held[q]
          /\ p # q => SeqRange(toRelease[p]) \cap SeqRange(toRelease[q]) = {}
          /\ held[p] \notin SeqRange(toRelease[q])
    /\ \A p \in Procs :
          /\ held[p] \notin SeqRange(available) \cup released
          /\ SeqRange(toRelease[p]) \cap (SeqRange(available) \cup released) = {}
    /\ SeqRange(available) \cap released = {}

(* The goroutines whose namespace is counted in actualSize ("in use"). *)
InUse == {p \in Procs : pc[p] \in {"using", "put"}}

(* The ownership invariant of the nsPool comment, while the pool is open:  *)
(* actualSize = len(available) + in_use_count, whatever the interleaving   *)
(* of get, put, allocNew, the filler and an eviction.                      *)
SizeCountsOpenPool ==
    ~closed => actualSize = Len(available) + Cardinality(InUse)

(* close, late put and late allocNew between them release every namespace: *)
(* once close has returned and no goroutine is inside a call or holds a    *)
(* namespace, none is left.                                                *)
NoLeakAfterClose ==
    ( /\ pc[Closer] = "done"
      /\ \A c \in Clients : pc[c] = "idle"
      /\ pc[Cleaner] = "idle" )
    => created \subseteq released

(* The goroutines inside allocNew, whose namespace is still to be counted. *)
Allocating == {p \in Procs : pc[p] \in {"alloc", "register"}}

(* The pool never owns more than the target plus one namespace for each    *)
(* client, those on their way included, although the filler acts on a      *)
(* shortfall that is stale by then (fillLoop, get and allocNew).           *)
SizeBounded ==
    actualSize + (IF closed THEN 0 ELSE Cardinality(Allocating))
        <= TargetSize + Cardinality(Clients)

(* The pool's books are right under every interleaving of builds, filler,  *)
(* eviction and close: its size is what it owns, within the bound, and     *)
(* nothing is left when it is closed.                                      *)
PoolAccounts == TypeOK /\ SizeCountsOpenPool /\ NoLeakAfterClose /\ SizeBounded

(* close returns: the filler notices the closed pool wherever it was.      *)
CloseReturns == closed ~> (pc[Closer] = "done")
=============================================================================
