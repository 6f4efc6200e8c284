---------------------------- MODULE FanoutWriter ----------------------------
(***************************************************************************)
(* The writer that composite stores hand out: a fanoutWriter               *)
(* (core/content/writer/fanout) over one writer of each backing store,     *)
(* some of them wrapped by resilient.Wrap (core/content/writer/resilient). *)
(* The fallback store builds fanout.New(primary, resilient.Wrap(second));  *)
(* the fanout and split stores wrap none.                                  *)
(*                                                                         *)
(* One goroutine writes, truncates and commits; Close may come from any    *)
(* goroutine.  Write visits the writers one after the other; Commit and    *)
(* Close run one goroutine per writer.  The backing writers are external:  *)
(* each call on them can fail, and always fails once they are closed.      *)
(***************************************************************************)
EXTENDS Naturals, Sequences

CONSTANTS
    N,          \* the number of backing writers
    Resilient,  \* those wrapped by resilient.Wrap
    MaxChunks,  \* bound: chunks passed to Write
    MaxCloses   \* bound: calls of Close

Writers == 1..N

ASSUME WritersAssumption == N \in Nat \ {0} /\ Resilient \subseteq Writers
ASSUME BoundsAssumption == MaxChunks \in Nat /\ MaxCloses \in Nat

VARIABLES
    bytes,    \* what each backing writer holds
    st,       \* "open", "committed" or "closed"
    failed,   \* resilientWriter.failed
    acked,    \* the chunks whose Write returned without error
    sent,     \* chunks passed to Write
    errored,  \* a Write or Truncate has returned an error
    at,       \* the writer the loop of Write or Truncate is at, 0 outside
    cut,      \* Truncate's size while its loop runs
    commit,   \* the goroutine of Commit for each writer
    close,    \* the goroutine of Close for each writer
    calls,    \* calls of Close
    result    \* what the last Commit returned

vars == <<bytes, st, failed, acked, sent, errored, at, cut, commit,
          close, calls, result>>

Task == {"none", "begin", "inner", "done", "error"}
NoCut == MaxChunks + 1

TypeOK ==
    /\ bytes \in [Writers -> Seq(1..MaxChunks)]
    /\ st \in [Writers -> {"open", "committed", "closed"}]
    /\ failed \in [Writers -> BOOLEAN]
    /\ \A w \in Writers \ Resilient : ~failed[w]
    /\ acked \in Seq(1..MaxChunks)
    /\ sent \in 0..MaxChunks
    /\ errored \in BOOLEAN
    /\ at \in 0..N
    /\ cut \in 0..NoCut
    /\ commit \in [Writers -> Task]
    /\ close \in [Writers -> Task]
    /\ calls \in 0..MaxCloses
    /\ result \in {"none", "nil", "error"}

Idle(task) == task = [w \in Writers |-> "none"]

Init ==
    /\ bytes = [w \in Writers |-> <<>>]
    /\ st = [w \in Writers |-> "open"]
    /\ failed = [w \in Writers |-> FALSE]
    /\ acked = <<>>
    /\ sent = 0
    /\ errored = FALSE
    /\ at = 0
    /\ cut = NoCut
    /\ Idle(commit)
    /\ Idle(close)
    /\ calls = 0
    /\ result = "none"

callVars == <<commit, close, calls, result>>
ioVars   == <<bytes, st, failed>>

(* inner.Close: the first close of an open writer discards its bytes. *)
InnerClose(w) ==
    st' = [st EXCEPT ![w] = IF @ = "open" THEN "closed" ELSE @]

(* markFailed: the goroutine that flips failed closes the inner writer. *)
MarkFailed(w) ==
    IF failed[w]
    THEN UNCHANGED <<failed, st>>
    ELSE failed' = [failed EXCEPT ![w] = TRUE] /\ InnerClose(w)

-----------------------------------------------------------------------------
(* Write begins with the first writer. *)
Write ==
    /\ at = 0 /\ Idle(commit)
    /\ sent < MaxChunks
    /\ sent' = sent + 1
    /\ at' = 1
    /\ UNCHANGED <<ioVars, acked, errored, cut, callVars>>

(* Truncate begins with the first writer. *)
Truncate ==
    /\ at = 0 /\ Idle(commit)
    /\ \E k \in 0..Len(acked) : cut' = k
    /\ at' = 1
    /\ UNCHANGED <<ioVars, acked, sent, errored, callVars>>

Truncating == cut # NoCut

(* The loop moves on; after the last writer the call returns. *)
Advance ==
    IF at < N
    THEN at' = at + 1 /\ UNCHANGED <<acked, cut>>
    ELSE /\ at' = 0
         /\ cut' = NoCut
         /\ acked' = IF errored THEN acked
                     ELSE IF Truncating THEN SubSeq(acked, 1, cut)
                     ELSE Append(acked, sent)

Applied(w) == IF Truncating THEN SubSeq(bytes[w], 1, cut)
                            ELSE Append(bytes[w], sent)

(* The current writer accepts the call.  A resilient writer that has       *)
(* failed accepts it without passing it on.                                *)
Accept ==
    /\ at # 0
    /\ \/ /\ ~failed[at]
          /\ st[at] = "open"
          /\ Truncating => cut <= Len(bytes[at])
          /\ bytes' = [bytes EXCEPT ![at] = Applied(at)]
       \/ failed[at] /\ UNCHANGED bytes
    /\ Advance
    /\ UNCHANGED <<st, failed, sent, errored, callVars>>

(* Mutant: the resilient writer swallows the error without degrading. *)
AbsorbForgets ==
    /\ at # 0
    /\ at \in Resilient /\ ~failed[at]
    /\ Advance
    /\ UNCHANGED <<bytes, st, failed, sent, errored, callVars>>

(* A resilient writer absorbs the error of its inner writer. *)
Absorb ==
    /\ at # 0
    /\ at \in Resilient /\ ~failed[at]
    /\ MarkFailed(at)
    /\ Advance
    /\ UNCHANGED <<bytes, sent, errored, callVars>>

(* Any other error ends Write at once; Truncate goes on to the other       *)
(* writers and returns the error at the end.                               *)
Fail ==
    /\ at # 0
    /\ at \notin Resilient
    /\ errored' = TRUE
    /\ IF Truncating /\ at < N
       THEN at' = at + 1 /\ UNCHANGED cut
       ELSE at' = 0 /\ cut' = NoCut
    /\ UNCHANGED <<ioVars, acked, sent, callVars>>

-----------------------------------------------------------------------------
(* Commit starts one goroutine for each writer. *)
Commit ==
    /\ at = 0 /\ Idle(commit)
    /\ result # "nil"
    /\ commit' = [w \in Writers |-> "begin"]
    /\ UNCHANGED <<ioVars, acked, sent, errored, at, cut, close, calls, result>>

(* Mutant: a writer that failed commits what it got so far. *)
CommitBeginSalvages(w) ==
    /\ commit[w] = "begin"
    /\ commit' = [commit EXCEPT ![w] = IF failed[w] THEN "done" ELSE "inner"]
    /\ st' = IF failed[w] THEN [st EXCEPT ![w] = "committed"] ELSE st
    /\ UNCHANGED <<bytes, failed, acked, sent, errored, at, cut, close, calls, result>>

(* resilientWriter.Commit does nothing once the writer has failed. *)
CommitBegin(w) ==
    /\ commit[w] = "begin"
    /\ commit' = [commit EXCEPT ![w] = IF failed[w] THEN "done" ELSE "inner"]
    /\ UNCHANGED <<ioVars, acked, sent, errored, at, cut, close, calls, result>>

(* inner.Commit succeeds, ... *)
InnerCommit(w) ==
    /\ commit[w] = "inner"
    /\ st[w] # "closed"
    /\ st' = [st EXCEPT ![w] = "committed"]
    /\ commit' = [commit EXCEPT ![w] = "done"]
    /\ UNCHANGED <<bytes, failed, acked, sent, errored, at, cut, close,
                   calls, result>>

(* ... or fails, which a resilient writer absorbs. *)
InnerCommitFails(w) ==
    /\ commit[w] = "inner"
    /\ IF w \in Resilient
       THEN MarkFailed(w) /\ commit' = [commit EXCEPT ![w] = "done"]
       ELSE /\ commit' = [commit EXCEPT ![w] = "error"]
            /\ UNCHANGED <<failed, st>>
    /\ UNCHANGED <<bytes, acked, sent, errored, at, cut, close, calls, result>>

(* wg.Wait, then the joined errors. *)
CommitReturns ==
    /\ \A w \in Writers : commit[w] \in {"done", "error"}
    /\ result' = IF \E w \in Writers : commit[w] = "error" THEN "error" ELSE "nil"
    /\ commit' = [w \in Writers |-> "none"]
    /\ UNCHANGED <<ioVars, acked, sent, errored, at, cut, close, calls>>

(* Close, from any goroutine, starts one goroutine for each writer. *)
Close ==
    /\ Idle(close)
    /\ calls < MaxCloses
    /\ calls' = calls + 1
    /\ close' = [w \in Writers |-> "begin"]
    /\ UNCHANGED <<ioVars, acked, sent, errored, at, cut, commit, result>>

(* resilientWriter.Close: already closed by markFailed? *)
CloseBegin(w) ==
    /\ close[w] = "begin"
    /\ close' = [close EXCEPT ![w] = IF failed[w] THEN "done" ELSE "inner"]
    /\ UNCHANGED <<ioVars, acked, sent, errored, at, cut, commit, calls, result>>

CloseInner(w) ==
    /\ close[w] = "inner"
    /\ InnerClose(w)
    /\ close' = [close EXCEPT ![w] = "done"]
    /\ UNCHANGED <<bytes, failed, acked, sent, errored, at, cut, commit, calls,
                   result>>

CloseReturns ==
    /\ close = [w \in Writers |-> "done"]
    /\ close' = [w \in Writers |-> "none"]
    /\ UNCHANGED <<ioVars, acked, sent, errored, at, cut, commit, calls, result>>

Next ==
    \/ Write \/ Truncate \/ Accept \/ Absorb \/ Fail
    \/ Commit \/ CommitReturns \/ Close \/ CloseReturns
    \/ \E w \in Writers :
          \/ CommitBegin(w) \/ InnerCommit(w) \/ InnerCommitFails(w)
          \/ CloseBegin(w) \/ CloseInner(w)

Spec == Init /\ [][Next]_vars

-----------------------------------------------------------------------------
(* "All writers have received exactly the same byte sequence up to the     *)
(* point of failure": between calls, and until one has returned an error,  *)
(* every writer that has not been degraded holds what the caller wrote,    *)
(* and during a call each holds it with or without the call's effect.      *)
SameBytes ==
    ~errored =>
        \A w \in Writers \ {v \in Resilient : failed[v]} :
            bytes[w] = IF w >= at THEN acked
                       ELSE IF Truncating THEN SubSeq(acked, 1, cut)
                       ELSE Append(acked, sent)

(* A secondary that lost bytes is never committed: until a call has        *)
(* returned an error, a writer that becomes committed holds exactly what   *)
(* the caller wrote.                                                       *)
CommitsWhatWasWritten ==
    [][\A w \in Writers :
          /\ ~errored
          /\ st[w] # "committed"
          /\ st'[w] = "committed"
          => bytes[w] = acked]_vars

(* A Commit that returned nil has committed every writer that is not       *)
(* best-effort, and left no best-effort writer open: it is committed, or   *)
(* degraded and closed.                                                    *)
NilMeansCommitted ==
    result = "nil" =>
        \A w \in Writers :
            IF w \in Resilient
            THEN st[w] = "committed" \/ failed[w]
            ELSE st[w] = "committed"

(* The backing writers agree with each other and with what Commit says.    *)
WritersAgree == TypeOK /\ SameBytes /\ NilMeansCommitted
=============================================================================
