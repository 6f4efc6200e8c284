-------------------------- MODULE CompositeProofs --------------------------
(***************************************************************************)
(* Proofs about the composite content stores and the gates of the LLB      *)
(* client.  The writer the stores hand out: its backing writers agree with *)
(* each other and with what Commit says, for any number of writers, any    *)
(* choice of best-effort ones and any number of chunks (WritersAgree and   *)
(* CommitsWhatWasWritten of FanoutWriter).  The stores: a composite store  *)
(* behaves as one store, for any number of stores, clients and digests,    *)
(* whichever stores are down (OneStore of CompositeStores).  The gates:    *)
(* one opens only for a reason and no answer is lost or used twice, for    *)
(* any number of waits and of answers (GatesDecide of LLBGate).            *)
(***************************************************************************)
EXTENDS FanoutWriter, CompositeStores, LLBGate, TLAPS, SequenceTheorems, FiniteSetTheorems,
        WellFoundedInduction

-----------------------------------------------------------------------------
(* The writer. *)

(* Write and Truncate run while no Commit does, and cut is Truncate's own: *)
(* it is set only in the loop and lies within what has been written.  No   *)
(* more chunks are acknowledged than were passed to Write.                 *)
LoopInv ==
    /\ at = 0 => ~Truncating
    /\ at # 0 => Idle(commit)
    /\ Truncating => cut <= Len(acked)
    /\ Len(acked) <= sent
    /\ at # 0 /\ ~Truncating => Len(acked) < sent

(* A commit that has passed the test of failed is on a writer that has not *)
(* failed, and one that is done has committed the writer or lost it.       *)
TaskInv ==
    \A w \in Writers :
        /\ commit[w] = "inner" => ~failed[w]
        /\ commit[w] = "done" => st[w] = "committed" \/ failed[w]

FanoutInv == WritersAgree /\ LoopInv /\ TaskInv

-----------------------------------------------------------------------------
(* A prefix of a sequence is a sequence over the same set. *)
LEMMA PrefixType ==
    ASSUME NEW S, NEW s \in Seq(S), NEW k \in 0..Len(s)
    PROVE  SubSeq(s, 1, k) \in Seq(S)
BY SubSeqProperties

(* What the caller has written after the loop's last step is a sequence of *)
(* chunks, and so is what a writer holds that has taken part in the call.  *)
LEMMA AdvanceType ==
    ASSUME TypeOK, LoopInv, at # 0, Advance
    PROVE  /\ acked' \in Seq(1..MaxChunks)
           /\ at' \in 0..N
           /\ cut' \in 0..NoCut
<1> USE WritersAssumption, BoundsAssumption
<1>1. CASE at < N
  BY <1>1 DEF Advance, TypeOK, NoCut
<1>2. CASE ~(at < N)
  <2>1. at' = 0 /\ cut' = NoCut
    BY <1>2 DEF Advance
  <2>2. CASE errored
    BY <1>2, <2>1, <2>2 DEF Advance, TypeOK, NoCut
  <2>3. CASE ~errored /\ Truncating
    <3>1. cut \in 0..Len(acked)
      BY <2>3 DEF TypeOK, LoopInv, NoCut
    <3>2. acked' = SubSeq(acked, 1, cut)
      BY <1>2, <2>3 DEF Advance
    <3>3. acked' \in Seq(1..MaxChunks)
      BY <3>1, <3>2, PrefixType DEF TypeOK
    <3>4. QED
      BY <2>1, <3>3 DEF NoCut
  <2>4. CASE ~errored /\ ~Truncating
    <3>1. sent \in 1..MaxChunks
      BY <2>4, LenProperties DEF TypeOK, LoopInv
    <3>2. acked' = Append(acked, sent)
      BY <1>2, <2>4 DEF Advance
    <3>3. QED
      BY <2>1, <3>1, <3>2 DEF TypeOK, NoCut
  <2>5. QED
    BY <2>2, <2>3, <2>4
<1>3. QED
  BY <1>1, <1>2

LEMMA AcceptType ==
    ASSUME TypeOK, LoopInv, Accept
    PROVE  bytes' \in [Writers -> Seq(1..MaxChunks)]
<1> USE WritersAssumption, BoundsAssumption DEF TypeOK
<1>1. at \in Writers
  BY DEF Accept, Writers
<1>2. CASE UNCHANGED bytes
  BY <1>2
<1>3. CASE /\ Truncating => cut <= Len(bytes[at])
           /\ bytes' = [bytes EXCEPT ![at] = Applied(at)]
  <2>1. CASE Truncating
    <3>1. cut \in 0..Len(bytes[at])
      BY <1>1, <1>3, <2>1 DEF NoCut
    <3>2. Applied(at) \in Seq(1..MaxChunks)
      BY <1>1, <2>1, <3>1, PrefixType DEF Applied
    <3>3. QED
      BY <1>3, <3>2
  <2>2. CASE ~Truncating
    <3>1. sent \in 1..MaxChunks
      BY <2>2, LenProperties DEF LoopInv, Accept
    <3>2. Applied(at) \in Seq(1..MaxChunks)
      BY <1>1, <2>2, <3>1 DEF Applied
    <3>3. QED
      BY <1>3, <3>2
  <2>3. QED
    BY <2>1, <2>2
<1>4. QED
  BY <1>2, <1>3 DEF Accept

-----------------------------------------------------------------------------
(* The initial states satisfy the invariant. *)
LEMMA FanoutInit == Init => FanoutInv
<1> SUFFICES ASSUME Init PROVE FanoutInv
  OBVIOUS
<1> USE WritersAssumption, BoundsAssumption DEF Init, Idle, NoCut, Truncating
<1>1. TypeOK
  <2>1. <<>> \in Seq(1..MaxChunks)
    OBVIOUS
  <2>2. bytes \in [Writers -> Seq(1..MaxChunks)] /\ acked \in Seq(1..MaxChunks)
    BY <2>1
  <2>3. failed \in [Writers -> BOOLEAN] /\ errored \in BOOLEAN
    OBVIOUS
  <2>4. sent \in 0..MaxChunks /\ at \in 0..N /\ cut \in 0..NoCut /\ calls \in 0..MaxCloses
    OBVIOUS
  <2>5. /\ st \in [Writers -> {"open", "committed", "closed"}]
        /\ commit \in [Writers -> Task]
        /\ close \in [Writers -> Task]
    BY DEF Task
  <2>6. \A w \in Writers \ Resilient : ~failed[w]
    OBVIOUS
  <2>7. QED
    BY <2>2, <2>3, <2>4, <2>5, <2>6 DEF TypeOK
<1>2. SameBytes
  BY DEF SameBytes, Writers
<1>3. QED
  BY <1>1, <1>2 DEF FanoutInv, WritersAgree, NilMeansCommitted, LoopInv, TaskInv

(* Each step keeps the types. *)
LEMMA FanoutTypeNext == FanoutInv /\ [Next]_vars => TypeOK'
<1> SUFFICES ASSUME FanoutInv, [Next]_vars PROVE TypeOK'
  OBVIOUS
<1> USE WritersAssumption, BoundsAssumption DEF ioVars, callVars
<1>t. TypeOK /\ LoopInv
  BY DEF FanoutInv, WritersAgree
<1>1. CASE Write
  BY <1>t, <1>1 DEF TypeOK, Write
<1>2. CASE Truncate
  <2>1. cut' \in 0..NoCut
    BY <1>t, <1>2, LenProperties DEF TypeOK, LoopInv, Truncate, NoCut
  <2>2. QED
    BY <1>t, <1>2, <2>1 DEF TypeOK, Truncate
<1>3. CASE Accept
  <2>1. Advance /\ at # 0
    BY <1>3 DEF Accept
  <2>2. bytes' \in [Writers -> Seq(1..MaxChunks)]
    BY <1>t, <1>3, AcceptType
  <2>3. QED
    BY <1>t, <1>3, <2>1, <2>2, AdvanceType DEF TypeOK, Accept
<1>4. CASE Absorb
  <2>1. Advance /\ at # 0 /\ at \in Resilient
    BY <1>4 DEF Absorb
  <2>2. /\ st' \in [Writers -> {"open", "committed", "closed"}]
        /\ failed' \in [Writers -> BOOLEAN]
        /\ \A w \in Writers \ Resilient : ~failed'[w]
    BY <1>t, <1>4, <2>1 DEF TypeOK, Absorb, MarkFailed, InnerClose
  <2>3. QED
    BY <1>t, <1>4, <2>1, <2>2, AdvanceType DEF TypeOK, Absorb
<1>5. CASE Fail
  BY <1>t, <1>5 DEF TypeOK, Fail, NoCut
<1>6. CASE Commit
  BY <1>t, <1>6 DEF TypeOK, Commit, Task
<1>7. CASE CommitReturns
  BY <1>t, <1>7 DEF TypeOK, CommitReturns, Task
<1>8. CASE Close
  BY <1>t, <1>8 DEF TypeOK, Close, Task
<1>9. CASE CloseReturns
  BY <1>t, <1>9 DEF TypeOK, CloseReturns, Task
<1>10. ASSUME NEW w \in Writers, CommitBegin(w) PROVE TypeOK'
  BY <1>t, <1>10 DEF TypeOK, CommitBegin, Task
<1>11. ASSUME NEW w \in Writers, InnerCommit(w) PROVE TypeOK'
  BY <1>t, <1>11 DEF TypeOK, InnerCommit, Task
<1>12. ASSUME NEW w \in Writers, InnerCommitFails(w) PROVE TypeOK'
  <2>1. /\ st' \in [Writers -> {"open", "committed", "closed"}]
        /\ failed' \in [Writers -> BOOLEAN]
        /\ \A v \in Writers \ Resilient : ~failed'[v]
    BY <1>t, <1>12 DEF TypeOK, InnerCommitFails, MarkFailed, InnerClose
  <2>2. commit' \in [Writers -> Task]
    BY <1>t, <1>12 DEF TypeOK, InnerCommitFails, Task
  <2>3. QED
    BY <1>t, <1>12, <2>1, <2>2 DEF TypeOK, InnerCommitFails
<1>13. ASSUME NEW w \in Writers, CloseBegin(w) PROVE TypeOK'
  BY <1>t, <1>13 DEF TypeOK, CloseBegin, Task
<1>14. ASSUME NEW w \in Writers, CloseInner(w) PROVE TypeOK'
  BY <1>t, <1>14 DEF TypeOK, CloseInner, InnerClose, Task
<1>15. CASE UNCHANGED vars
  BY <1>t, <1>15 DEF TypeOK, vars
<1>16. QED
  BY <1>1, <1>2, <1>3, <1>4, <1>5, <1>6, <1>7, <1>8, <1>9, <1>10, <1>11,
     <1>12, <1>13, <1>14, <1>15 DEF Next

(* Each step keeps the loop of Write and Truncate in order. *)
LEMMA LoopNext == FanoutInv /\ [Next]_vars => LoopInv'
<1> SUFFICES ASSUME FanoutInv, [Next]_vars PROVE LoopInv'
  OBVIOUS
<1> USE WritersAssumption, BoundsAssumption, LenProperties
    DEF ioVars, callVars, LoopInv, Truncating, Idle
<1>t. TypeOK /\ LoopInv
  BY DEF FanoutInv, WritersAgree
<1>1. CASE Write
  BY <1>t, <1>1 DEF TypeOK, Write
<1>2. CASE Truncate
  BY <1>t, <1>2 DEF TypeOK, Truncate, NoCut
<1>3. ASSUME Advance, at # 0, UNCHANGED <<sent, commit, errored>> PROVE LoopInv'
  <2>1. CASE at < N
    BY <1>t, <1>3, <2>1 DEF TypeOK, Advance
  <2>2. CASE ~(at < N) /\ (errored \/ ~Truncating)
    BY <1>t, <1>3, <2>2 DEF TypeOK, Advance, NoCut
  <2>3. CASE ~(at < N) /\ ~errored /\ Truncating
    <3>1. Len(SubSeq(acked, 1, cut)) <= sent
      BY <1>t, <2>3, SubSeqProperties DEF TypeOK, NoCut
    <3>2. QED
      BY <1>t, <1>3, <2>3, <3>1 DEF TypeOK, Advance
  <2>4. QED
    BY <2>1, <2>2, <2>3
<1>4. CASE Accept
  BY <1>3, <1>4 DEF Accept
<1>5. CASE Absorb
  BY <1>3, <1>5 DEF Absorb
<1>6. CASE Fail
  BY <1>t, <1>6 DEF TypeOK, Fail, NoCut
<1>7. CASE Commit \/ CommitReturns
  BY <1>t, <1>7 DEF Commit, CommitReturns
<1>8. CASE Close \/ CloseReturns \/ UNCHANGED vars
  BY <1>t, <1>8 DEF Close, CloseReturns, vars
<1>9. ASSUME NEW w \in Writers,
             CommitBegin(w) \/ InnerCommit(w) \/ InnerCommitFails(w)
      PROVE  LoopInv'
  <2>1. commit[w] # "none" /\ UNCHANGED <<at, cut, acked, sent>>
    BY <1>9 DEF CommitBegin, InnerCommit, InnerCommitFails
  <2>2. QED
    BY <1>t, <2>1
<1>10. ASSUME NEW w \in Writers, CloseBegin(w) \/ CloseInner(w)
       PROVE  LoopInv'
  BY <1>t, <1>10 DEF CloseBegin, CloseInner
<1>11. QED
  BY <1>1, <1>2, <1>4, <1>5, <1>6, <1>7, <1>8, <1>9, <1>10 DEF Next

(* Each step keeps what a commit goroutine has established. *)
LEMMA TaskNext == FanoutInv /\ [Next]_vars => TaskInv'
<1> SUFFICES ASSUME FanoutInv, [Next]_vars PROVE TaskInv'
  OBVIOUS
<1> USE DEF ioVars, callVars, TaskInv, Idle
<1>t. TypeOK /\ LoopInv /\ TaskInv
  BY DEF FanoutInv, WritersAgree
<1>1. CASE Write \/ Truncate \/ Accept \/ Fail
  BY <1>t, <1>1 DEF Write, Truncate, Accept, Fail
<1>2. CASE Absorb
  <2>1. \A w \in Writers : commit'[w] = "none"
    BY <1>t, <1>2 DEF LoopInv, Absorb
  <2>2. QED
    BY <2>1
<1>3. CASE Commit \/ CommitReturns
  BY <1>3 DEF Commit, CommitReturns
<1>4. CASE Close \/ CloseReturns \/ UNCHANGED vars
  BY <1>t, <1>4 DEF Close, CloseReturns, vars
<1>5. ASSUME NEW w \in Writers, CommitBegin(w) PROVE TaskInv'
  BY <1>t, <1>5 DEF TypeOK, CommitBegin
<1>6. ASSUME NEW w \in Writers, InnerCommit(w) PROVE TaskInv'
  BY <1>t, <1>6 DEF TypeOK, InnerCommit
<1>7. ASSUME NEW w \in Writers, InnerCommitFails(w) PROVE TaskInv'
  BY <1>t, <1>7 DEF TypeOK, InnerCommitFails, MarkFailed, InnerClose
<1>8. ASSUME NEW w \in Writers, CloseBegin(w) PROVE TaskInv'
  BY <1>t, <1>8 DEF CloseBegin
<1>9. ASSUME NEW w \in Writers, CloseInner(w) PROVE TaskInv'
  BY <1>t, <1>9 DEF TypeOK, CloseInner, InnerClose
<1>10. QED
  BY <1>1, <1>2, <1>3, <1>4, <1>5, <1>6, <1>7, <1>8, <1>9 DEF Next

(* Each step keeps the promise of a nil result: a committed writer stays   *)
(* committed, a failed one stays failed.                                   *)
LEMMA NilNext == FanoutInv /\ [Next]_vars => NilMeansCommitted'
<1> SUFFICES ASSUME FanoutInv, [Next]_vars PROVE NilMeansCommitted'
  OBVIOUS
<1> USE DEF ioVars, callVars, NilMeansCommitted
<1>t. TypeOK /\ TaskInv /\ NilMeansCommitted
  BY DEF FanoutInv, WritersAgree
<1>1. CASE CommitReturns
  <2>1. ASSUME result' = "nil" PROVE \A w \in Writers : commit[w] = "done"
    BY <1>1, <2>1 DEF CommitReturns
  <2>2. QED
    BY <1>t, <1>1, <2>1 DEF CommitReturns, TaskInv, TypeOK
<1>2. ASSUME result' = result,
             \A w \in Writers : st[w] = "committed" => st'[w] = "committed",
             \A w \in Writers : failed[w] => failed'[w]
      PROVE  NilMeansCommitted'
  <2> SUFFICES ASSUME result' = "nil", NEW w \in Writers
               PROVE  IF w \in Resilient THEN st'[w] = "committed" \/ failed'[w]
                                         ELSE st'[w] = "committed"
    OBVIOUS
  <2>1. IF w \in Resilient THEN st[w] = "committed" \/ failed[w]
                           ELSE st[w] = "committed"
    BY <1>t, <1>2
  <2>2. /\ st[w] = "committed" => st'[w] = "committed"
        /\ failed[w] => failed'[w]
    BY <1>2
  <2>3. CASE w \in Resilient
    BY <2>1, <2>2, <2>3
  <2>4. CASE w \notin Resilient
    BY <2>1, <2>2, <2>4
  <2>5. QED
    BY <2>3, <2>4
<1>3. CASE Write \/ Truncate \/ Accept \/ Fail \/ Commit \/ Close \/ CloseReturns \/ UNCHANGED vars
  BY <1>t, <1>3 DEF Write, Truncate, Accept, Fail, Commit, Close, CloseReturns, vars
<1>4. CASE Absorb
  BY <1>t, <1>2, <1>4 DEF TypeOK, Absorb, MarkFailed, InnerClose
<1>5. ASSUME NEW w \in Writers, CommitBegin(w) \/ CloseBegin(w) PROVE NilMeansCommitted'
  BY <1>t, <1>5 DEF CommitBegin, CloseBegin
<1>6. ASSUME NEW w \in Writers, InnerCommit(w) PROVE NilMeansCommitted'
  BY <1>t, <1>2, <1>6 DEF TypeOK, InnerCommit
<1>7. ASSUME NEW w \in Writers, InnerCommitFails(w) PROVE NilMeansCommitted'
  BY <1>t, <1>2, <1>7 DEF TypeOK, InnerCommitFails, MarkFailed, InnerClose
<1>8. ASSUME NEW w \in Writers, CloseInner(w) PROVE NilMeansCommitted'
  BY <1>t, <1>2, <1>8 DEF TypeOK, CloseInner, InnerClose
<1>9. QED
  BY <1>1, <1>3, <1>4, <1>5, <1>6, <1>7, <1>8 DEF Next

(* What a writer that has taken part in the running call holds. *)
AfterCall == IF Truncating THEN SubSeq(acked, 1, cut) ELSE Append(acked, sent)

(* When the loop moves on from a writer that has taken part, or that has   *)
(* failed, all writers hold what they should.                              *)
LEMMA AdvanceBytes ==
    ASSUME FanoutInv, Advance, at # 0,
           UNCHANGED <<sent, errored>>,
           \A w \in Writers : failed[w] => failed'[w],
           \A w \in Writers \ {at} : bytes'[w] = bytes[w],
           \/ at \in Resilient /\ failed'[at]
           \/ bytes[at] = acked /\ ~errored => bytes'[at] = AfterCall
    PROVE  SameBytes'
<1> USE WritersAssumption DEF Writers, Truncating
<1>1. SUFFICES ASSUME ~errored, NEW w \in Writers, ~(w \in Resilient /\ failed'[w])
               PROVE  bytes'[w] = IF w >= at' THEN acked'
                                  ELSE IF Truncating' THEN SubSeq(acked', 1, cut')
                                  ELSE Append(acked', sent')
  BY DEF SameBytes
<1>2. at \in Writers /\ ~(w \in Resilient /\ failed[w])
  BY <1>1 DEF FanoutInv, WritersAgree, TypeOK
<1>3. bytes[w] = IF w >= at THEN acked ELSE AfterCall
  BY <1>1, <1>2 DEF FanoutInv, WritersAgree, SameBytes, AfterCall
<1>4. bytes'[w] = IF w > at THEN acked ELSE AfterCall
  <2>1. CASE w = at
    BY <1>1, <1>2, <1>3, <2>1
  <2>2. CASE w # at
    BY <1>1, <1>2, <1>3, <2>2
  <2>3. QED
    BY <2>1, <2>2
<1>5. CASE at < N
  BY <1>1, <1>2, <1>4, <1>5 DEF Advance, AfterCall
<1>6. CASE ~(at < N)
  <2>1. ~(w > at) /\ w >= 0
    BY <1>2, <1>6
  <2>2. at' = 0 /\ acked' = AfterCall
    BY <1>1, <1>6 DEF Advance, AfterCall
  <2>3. QED
    BY <1>4, <2>1, <2>2
<1>7. QED
  BY <1>5, <1>6

(* Each step keeps the writers' bytes equal. *)
LEMMA BytesNext == FanoutInv /\ [Next]_vars => SameBytes'
<1> SUFFICES ASSUME FanoutInv, [Next]_vars PROVE SameBytes'
  OBVIOUS
<1> USE WritersAssumption DEF ioVars, callVars
<1>t. TypeOK /\ LoopInv /\ SameBytes
  BY DEF FanoutInv, WritersAgree
<1>1. CASE Write
  BY <1>t, <1>1 DEF TypeOK, Write, SameBytes, Writers
<1>2. CASE Truncate
  BY <1>t, <1>2 DEF TypeOK, Truncate, SameBytes, Writers
<1>3. CASE Accept
  <2>1. at \in Writers
    BY <1>t, <1>3 DEF TypeOK, Accept, Writers
  <2>2. CASE failed[at] /\ UNCHANGED bytes
    <3>1. at \in Resilient /\ failed'[at]
      BY <1>t, <1>3, <2>1, <2>2 DEF TypeOK, Accept
    <3>2. QED
      BY <1>3, <2>2, <3>1, AdvanceBytes DEF Accept
  <2>3. CASE bytes' = [bytes EXCEPT ![at] = Applied(at)]
    <3>1. bytes[at] = acked => bytes'[at] = AfterCall
      BY <1>t, <2>1, <2>3 DEF TypeOK, Applied, AfterCall
    <3>2. \A w \in Writers \ {at} : bytes'[w] = bytes[w]
      BY <1>t, <2>1, <2>3 DEF TypeOK
    <3>3. QED
      BY <1>3, <3>1, <3>2, AdvanceBytes DEF Accept
  <2>4. QED
    BY <1>3, <2>2, <2>3 DEF Accept
<1>4. CASE Absorb
  <2>1. at \in Writers /\ at \in Resilient
    BY <1>4 DEF Absorb
  <2>2. failed' = [failed EXCEPT ![at] = TRUE]
    BY <1>4 DEF Absorb, MarkFailed
  <2>3. failed'[at] /\ \A w \in Writers : failed[w] => failed'[w]
    BY <1>t, <2>1, <2>2 DEF TypeOK
  <2>4. QED
    BY <1>4, <2>1, <2>3, AdvanceBytes DEF Absorb
<1>5. CASE Fail
  BY <1>5 DEF Fail, SameBytes
<1>6. ASSUME UNCHANGED <<bytes, acked, sent, errored, at, cut>>,
             \A w \in Writers : failed[w] => failed'[w]
      PROVE  SameBytes'
  BY <1>t, <1>6 DEF SameBytes, Truncating
<1>7. CASE Commit \/ CommitReturns \/ Close \/ CloseReturns \/ UNCHANGED vars
  BY <1>6, <1>7 DEF Commit, CommitReturns, Close, CloseReturns, vars
<1>8. ASSUME NEW w \in Writers, CommitBegin(w) \/ InnerCommit(w) \/ CloseBegin(w) \/ CloseInner(w)
      PROVE  SameBytes'
  BY <1>6, <1>8 DEF CommitBegin, InnerCommit, CloseBegin, CloseInner
<1>9. ASSUME NEW w \in Writers, InnerCommitFails(w) PROVE SameBytes'
  BY <1>t, <1>6, <1>9 DEF TypeOK, InnerCommitFails, MarkFailed
<1>10. QED
  BY <1>1, <1>2, <1>3, <1>4, <1>5, <1>7, <1>8, <1>9 DEF Next

-----------------------------------------------------------------------------
(* The invariant holds throughout. *)
LEMMA FanoutInvariant == Spec => []FanoutInv
<1>1. FanoutInv /\ [Next]_vars => FanoutInv'
  BY FanoutTypeNext, LoopNext, TaskNext, NilNext, BytesNext DEF FanoutInv, WritersAgree
<1>2. QED
  BY <1>1, FanoutInit, PTL DEF Spec

(* The backing writers hold the same bytes until a call has returned an    *)
(* error, and a Commit that returned nil has committed every required      *)
(* writer and committed or given up every best-effort one                  *)
(* (fanoutWriter.Write, Truncate, Commit; resilientWriter).                *)
THEOREM WritersAgreeAlways == Spec => []WritersAgree
BY FanoutInvariant, PTL DEF FanoutInv

(* A best-effort writer that lost bytes is never committed: while no call  *)
(* has returned an error, what a step commits is exactly what the caller   *)
(* wrote (resilientWriter.Commit after markFailed).                        *)
THEOREM CommitsOnlyWhatWasWritten == Spec => CommitsWhatWasWritten
<1>1. FanoutInv /\ [Next]_vars =>
         [\A w \in Writers :
             /\ ~errored
             /\ st[w] # "committed"
             /\ st'[w] = "committed"
             => bytes[w] = acked]_vars
  <2> SUFFICES ASSUME FanoutInv, [Next]_vars, NEW w \in Writers,
                      ~errored, st[w] # "committed", st'[w] = "committed"
               PROVE  bytes[w] = acked
    OBVIOUS
  <2> USE DEF ioVars, callVars
  <2>t. TypeOK /\ LoopInv /\ TaskInv /\ SameBytes
    BY DEF FanoutInv, WritersAgree
  <2>1. InnerCommit(w)
    <3>1. st' # st
      OBVIOUS
    <3>2. ASSUME NEW v \in Writers, InnerCommit(v) PROVE v = w
      BY <2>t, <3>2 DEF InnerCommit, TypeOK
    <3>3. ASSUME NEW v \in Writers, InnerClose(v) PROVE FALSE
      BY <2>t, <3>3 DEF InnerClose, TypeOK
    <3>4. ASSUME NEW v \in Writers PROVE ~InnerCommitFails(v) /\ ~CloseInner(v)
      BY <3>1, <3>3 DEF InnerCommitFails, MarkFailed, CloseInner
    <3>5. ~Absorb
      BY <2>t, <3>1, <3>3, WritersAssumption DEF Absorb, MarkFailed
    <3>6. QED
      BY <3>1, <3>2, <3>4, <3>5
      DEF Next, Write, Truncate, Accept, Fail, Commit, CommitReturns, Close,
          CloseReturns, CommitBegin, CloseBegin, vars
  <2>2. at = 0 /\ ~failed[w]
    BY <2>t, <2>1 DEF InnerCommit, LoopInv, TaskInv, Idle
  <2>3. QED
    BY <2>t, <2>2 DEF SameBytes, Writers
<1>2. QED
  BY <1>1, FanoutInvariant, PTL DEF Spec, CommitsWhatWasWritten

-----------------------------------------------------------------------------
(* The stores. *)
Kinds == {"fanout", "split", "fallback"}
Ops == {"put", "delete", "update"}
Answers == {"nil", "notfound", "err"}
Calls == [op : Ops, d : CsDigests, v : Nat \ {0}]

StoresType ==
    /\ csOf.kind \in Kinds /\ csOf.n \in Nat \ {0}
    /\ csVer \in [Stores -> [CsDigests -> Nat]]
    /\ csCall \in [CsClients -> Calls \cup {NoCall}]
    /\ csTodo \in [CsClients -> SUBSET Stores]
    /\ csRes \in [CsClients -> [Stores -> Answers \cup {"skip"}]]
    /\ csMade \in Nat
    /\ csPut \in SUBSET CsDigests /\ csGone \in SUBSET CsDigests

(* Two clients in calls on one digest have mixed it. *)
Alone ==
    \A b, c \in CsClients :
        b # c /\ csCall[b].op # "none" /\ csCall[c].op # "none" /\ csCall[b].d = csCall[c].d
        => csCall[c].d \in csMixed

(* What a call knows of the stores it has asked: each of its targets is    *)
(* still to be asked or has answered, and a digest that nobody else        *)
(* changes is where a write was accepted and where a delete was not        *)
(* refused it is not.                                                      *)
CallInv(c) ==
    csCall[c].op # "none" =>
        /\ csTodo[c] \subseteq Targets(csCall[c].op)
        /\ csOf.kind # "fallback" => \A s \in Targets(csCall[c].op) : s \in csTodo[c] \/ csRes[c][s] # "skip"
        /\ \A s \in Stores : csRes[c][s] = "nil" => ~Down(s)
        /\ csCall[c].op = "put" /\ csCall[c].d \notin csMixed =>
              csCall[c].d \notin csGone /\ \A s \in Stores : csRes[c][s] = "nil" => csVer[s][csCall[c].d] # 0
        /\ csCall[c].op = "delete" /\ csCall[c].d \notin csMixed =>
              /\ csCall[c].d \notin csPut
              /\ \A s \in Stores : csRes[c][s] \in {"nil", "notfound"} => csVer[s][csCall[c].d] = 0
CallsInv == \A c \in CsClients : CallInv(c)

(* A digest that was written is in a store that answers, and of a fallback *)
(* store in the primary.                                                   *)
Found(d) == IF csOf.kind = "fallback" THEN Has(1, d) ELSE \E s \in Stores : Has(s, d)
PutInv == \A d \in csPut \ csMixed : Found(d)

(* The walk's function was called with the digests that were seen. *)
WalkInv == \A d \in CsDigests : csFn[d] = IF d \in csSeen THEN 1 ELSE 0
WalkType == csFn \in [CsDigests -> Nat] /\ csSeen \in SUBSET CsDigests

StoreInv == StoresType /\ Alone /\ CallsInv /\ PutInv /\ DeletedIsGone /\ WalkType /\ WalkInv

-----------------------------------------------------------------------------
(* A set of natural numbers has a least element. *)
Less == {p \in Nat \X Nat : p[1] < p[2]}
LEMMA LessFacts == \A i, j \in Nat : <<i, j>> \in Less <=> i < j
BY DEF Less
LEMMA LessWF == IsWellFoundedOn(Less, Nat)
<1>1. Less = OpToRel(<, Nat)
  BY Zenon DEF Less, OpToRel
<1>2. QED
  BY <1>1, NatLessThanWellFounded, Zenon
LEMMA LeastOf == ASSUME NEW T \in SUBSET Nat, T # {} PROVE \E x \in T : \A y \in T : x <= y
<1>1. PICK x \in T : \A y \in T : <<y, x>> \notin Less
  BY LessWF, WFMin
<1>2. ASSUME NEW y \in T PROVE x <= y
  <2>1. ~(y < x) /\ x \in Nat /\ y \in Nat
    BY <1>1, <1>2, LessFacts
  <2>2. QED
    BY <2>1
<1>3. QED
  BY <1>2

(* A call that succeeds has had no error, and, unless it is a write, no    *)
(* store of a split one or of a fallback has not found its digest.         *)
LEMMA SuccessFacts ==
  ASSUME csOf.kind \in Kinds, csOf.n \in Nat \ {0}, NEW res \in [Stores -> Answers \cup {"skip"}],
         NEW op \in Ops, CallResult(op, res) = "nil"
  PROVE  /\ op = "put" => /\ \E s \in Stores : res[s] = "nil"
                          /\ csOf.kind = "fallback" => res[1] = "nil"
         /\ op # "put" => IF csOf.kind = "fallback" THEN res[1] = "nil" ELSE \A s \in Stores : res[s] # "err"
<1>1. CASE op = "put"
  <2>1. PutResult(res) = "nil"
    BY <1>1 DEF CallResult
  <2>2. QED
    BY <1>1, <2>1 DEF PutResult, AnsweredBy
<1>2. CASE op # "put" /\ csOf.kind = "fanout"
  <2>1. FilterNotFound(res) = "nil"
    BY <1>2 DEF CallResult
  <2>2. QED
    BY <1>2, <2>1 DEF FilterNotFound, AnsweredBy
<1>3. CASE op # "put" /\ csOf.kind = "split"
  <2> DEFINE bad == AnsweredBy(res, "err") \cup AnsweredBy(res, "notfound")
  <2>1. FirstError(res) = "nil"
    BY <1>3 DEF CallResult
  <2>2. bad \in SUBSET Nat /\ \A s \in bad : res[s] \in {"err", "notfound"}
    BY DEF AnsweredBy, Stores
  <2>3. bad = {}
    <3> SUFFICES ASSUME bad # {} PROVE FALSE
      OBVIOUS
    <3> DEFINE first == CHOOSE s \in bad : \A t \in bad : s <= t
    <3>1. res[first] = "nil"
      BY <2>1 DEF FirstError
    <3> HIDE DEF bad
    <3>2. \E s \in bad : \A t \in bad : s <= t
      BY <2>2, LeastOf
    <3>3. first \in bad
      BY <3>2
    <3>4. QED
      BY <2>2, <3>1, <3>3
  <2>4. QED
    BY <1>3, <2>3 DEF AnsweredBy
<1>4. CASE op # "put" /\ csOf.kind = "fallback"
  BY <1>4 DEF CallResult
<1>5. QED
  BY <1>1, <1>2, <1>3, <1>4 DEF Kinds, Ops

-----------------------------------------------------------------------------
LEMMA StoresInitial == CsInit => StoreInv
<1> SUFFICES ASSUME CsInit PROVE StoreInv
  OBVIOUS
<1>1. /\ csOf.kind \in Kinds /\ csOf.n \in Nat \ {0}
      /\ csVer \in [Stores -> [CsDigests -> Nat]]
  BY StoresAssumption DEF CsInit, Kinds, Stores
<1>2. StoresType
  BY <1>1 DEF CsInit, StoresType
<1>3. Alone /\ CallsInv
  BY DEF CsInit, Alone, CallsInv, CallInv, NoCall
<1>4. PutInv /\ DeletedIsGone /\ WalkType /\ WalkInv
  BY DEF CsInit, PutInv, DeletedIsGone, WalkType, WalkInv
<1>5. QED
  BY <1>2, <1>3, <1>4 DEF StoreInv

(* Whether and where a store answers depends on the world, which stays.    *)
LEMMA SameWorld ==
  ASSUME csOf' = csOf
  PROVE  /\ Stores' = Stores /\ DeleteStores' = DeleteStores
         /\ \A s : Down(s)' = Down(s)
         /\ \A op : Targets(op)' = Targets(op)
BY DEF Stores, DeleteStores, Down, Targets, WriteStores, UpdateStores

(* A call goes to stores there are, and an update nowhere a delete does    *)
(* not go.                                                                 *)
LEMMA TargetFacts ==
  ASSUME csOf.kind \in Kinds, csOf.n \in Nat \ {0}
  PROVE  /\ 1 \in Stores /\ \A op : Targets(op) \subseteq Stores
         /\ Targets("update") \cap Stores \subseteq DeleteStores
         /\ Targets("delete") = DeleteStores /\ DeleteStores \subseteq Stores
         /\ csOf.kind = "fallback" => DeleteStores = {1}
BY DEF Kinds, Stores, DeleteStores, Targets, WriteStores, UpdateStores

LEMMA BeginKeeps ==
  ASSUME StoreInv, NEW c \in CsClients, NEW op \in Ops, NEW d \in CsDigests, CsBegin(c, op, d)
  PROVE  StoresType' /\ Alone' /\ CallsInv' /\ PutInv' /\ DeletedIsGone'
<1>0. StoresType /\ Alone /\ CallsInv /\ PutInv /\ DeletedIsGone
  BY DEF StoreInv
<1>1. csOf' = csOf /\ csVer' = csVer /\ csCall[c].op = "none" /\ csMade' = csMade + 1
  BY DEF CsBegin
<1>2. /\ Stores' = Stores /\ DeleteStores' = DeleteStores /\ \A s : Down(s)' = Down(s)
      /\ \A o : Targets(o)' = Targets(o)
  BY <1>1, SameWorld
<1>3. CASE csOf.readonly
  <2>1. UNCHANGED <<csCall, csTodo, csRes, csMixed, csPut, csGone>>
    BY <1>3 DEF CsBegin
  <2>2. StoresType'
    BY <1>0, <1>1, <1>2, <2>1 DEF StoresType
  <2>3. Alone'
    BY <1>0, <2>1 DEF Alone
  <2>4. CallsInv'
    BY <1>0, <1>1, <1>2, <2>1 DEF CallsInv, CallInv
  <2>5. PutInv' /\ DeletedIsGone'
    BY <1>0, <1>1, <1>2, <2>1 DEF PutInv, DeletedIsGone, Found, Has
  <2>6. QED
    BY <2>2, <2>3, <2>4, <2>5
<1>4. CASE ~csOf.readonly
  <2> DEFINE call == [op |-> op, d |-> d, v |-> csMade + 2]
             none == [s \in Stores |-> "skip"]
  <2>1. /\ csCall' = [csCall EXCEPT ![c] = call] /\ csTodo' = [csTodo EXCEPT ![c] = Targets(op)]
        /\ csRes' = [csRes EXCEPT ![c] = none]
        /\ csMixed' = IF Busy(d) THEN csMixed \cup {d} ELSE csMixed
        /\ csPut' = (IF op = "delete" THEN csPut \ {d} ELSE csPut)
        /\ csGone' = (IF op = "put" THEN csGone \ {d} ELSE csGone)
    BY <1>4 DEF CsBegin
  <2>2. call \in Calls /\ call.op = op /\ call.d = d
    BY <1>0 DEF StoresType, Calls
  <2>3. none \in [Stores -> Answers \cup {"skip"}] /\ \A s \in Stores : none[s] = "skip"
    OBVIOUS
  <2>4. Targets(op) \subseteq Stores
    BY <1>0, TargetFacts DEF StoresType
  <2> HIDE DEF call, none
  <2>5. StoresType'
    BY <1>0, <1>1, <1>2, <2>1, <2>2, <2>3, <2>4 DEF StoresType
  <2>6. /\ csCall'[c] = call /\ csTodo'[c] = Targets(op) /\ csRes'[c] = none
        /\ \A b \in CsClients : b # c => csCall'[b] = csCall[b] /\ csTodo'[b] = csTodo[b] /\ csRes'[b] = csRes[b]
    BY <1>0, <2>1 DEF StoresType
  <2>7. csMixed \subseteq csMixed' /\ csPut' \subseteq csPut /\ csGone' \subseteq csGone
    BY <2>1
  <2>8. Alone'
    <3> SUFFICES ASSUME NEW a \in CsClients, NEW b \in CsClients, a # b,
                        csCall'[a].op # "none", csCall'[b].op # "none", csCall'[a].d = csCall'[b].d
                 PROVE  csCall'[b].d \in csMixed'
      BY DEF Alone
    <3>1. CASE a = c
      <4>1. csCall[b].op # "none" /\ csCall[b].d = d
        BY <2>2, <2>6, <3>1
      <4>2. Busy(d)
        BY <4>1 DEF Busy
      <4>3. QED
        BY <2>1, <2>2, <2>6, <3>1, <4>2
    <3>2. CASE b = c
      <4>1. csCall[a].op # "none" /\ csCall[a].d = d
        BY <2>2, <2>6, <3>2
      <4>2. Busy(d)
        BY <4>1 DEF Busy
      <4>3. QED
        BY <2>1, <2>2, <2>6, <3>2, <4>2
    <3>3. CASE a # c /\ b # c
      BY <1>0, <2>6, <2>7, <3>3 DEF Alone
    <3>4. QED
      BY <3>1, <3>2, <3>3
  <2>9. CallsInv'
    <3> SUFFICES ASSUME NEW b \in CsClients PROVE CallInv(b)'
      BY DEF CallsInv
    <3>1. CASE b = c
      BY <1>1, <1>2, <2>1, <2>2, <2>3, <2>4, <2>6, <3>1 DEF CallInv
    <3>2. CASE b # c
      <4>1. CallInv(b)
        BY <1>0 DEF CallsInv
      <4>2. QED
        BY <1>1, <1>2, <2>6, <2>7, <3>2, <4>1 DEF CallInv
    <3>3. QED
      BY <3>1, <3>2
  <2>10. PutInv' /\ DeletedIsGone'
    BY <1>0, <1>1, <1>2, <2>7 DEF PutInv, DeletedIsGone, Found, Has
  <2>11. QED
    BY <2>5, <2>8, <2>9, <2>10
<1>5. QED
  BY <1>3, <1>4

LEMMA AskKeeps ==
  ASSUME StoreInv, NEW c \in CsClients, NEW s \in Stores, CsAsk(c, s)
  PROVE  StoresType' /\ Alone' /\ CallsInv' /\ PutInv' /\ DeletedIsGone'
<1>0. StoresType /\ Alone /\ CallsInv /\ PutInv /\ DeletedIsGone
  BY DEF StoreInv
<1> DEFINE call == csCall[c]
           op == csCall[c].op
           d == csCall[c].d
           a == Answer(s, call)
           left == IF csOf.kind = "fallback" /\ a # "nil" THEN {} ELSE csTodo[c] \ {s}
           new == IF op = "delete" THEN 0 ELSE call.v
<1>1. csOf' = csOf /\ op # "none" /\ s \in csTodo[c]
      /\ UNCHANGED <<csCall, csMade, csMixed, csPut, csGone>>
  BY DEF CsAsk
<1>2. /\ Stores' = Stores /\ DeleteStores' = DeleteStores /\ \A t : Down(t)' = Down(t)
      /\ \A o : Targets(o)' = Targets(o)
  BY <1>1, SameWorld
<1>3. op \in Ops /\ d \in CsDigests /\ call.v \in Nat \ {0}
  BY <1>0, <1>1 DEF StoresType, Calls, NoCall
<1>4. /\ csTodo' = [csTodo EXCEPT ![c] = left] /\ csRes' = [csRes EXCEPT ![c][s] = a]
      /\ csVer' = IF a = "nil" THEN [csVer EXCEPT ![s][d] = new] ELSE csVer
  BY DEF CsAsk
<1>5. /\ a \in Answers /\ (a = "nil" => ~Down(s))
      /\ a = "notfound" => op # "put" /\ csVer[s][d] = 0
      /\ csVer[s][d] = 0 /\ op # "put" => a # "nil"
      /\ new \in Nat /\ (op = "delete" => new = 0) /\ (op # "delete" => new # 0)
  BY <1>3 DEF Answer, Answers
<1>6. left \subseteq csTodo[c] /\ left \in SUBSET Stores /\ (csOf.kind # "fallback" => csTodo[c] \subseteq left \cup {s})
  BY <1>0 DEF StoresType
<1> HIDE DEF call, op, d, a, left, new
<1>7. /\ csTodo'[c] = left /\ csRes'[c][s] = a /\ \A t \in Stores : t # s => csRes'[c][t] = csRes[c][t]
      /\ \A b \in CsClients : b # c => csTodo'[b] = csTodo[b] /\ csRes'[b] = csRes[b]
  BY <1>0, <1>4 DEF StoresType
<1>8. /\ \A t \in Stores, e \in CsDigests : t # s \/ e # d => csVer'[t][e] = csVer[t][e]
      /\ csVer'[s][d] = IF a = "nil" THEN new ELSE csVer[s][d]
  BY <1>0, <1>3, <1>4 DEF StoresType
<1>9. StoresType'
  <2>1. csRes' \in [CsClients -> [Stores -> Answers \cup {"skip"}]]
    BY <1>0, <1>4, <1>5 DEF StoresType
  <2>2. csTodo' \in [CsClients -> SUBSET Stores]
    BY <1>0, <1>4, <1>6 DEF StoresType
  <2>3. csVer' \in [Stores -> [CsDigests -> Nat]]
    BY <1>0, <1>3, <1>4, <1>5 DEF StoresType
  <2>4. QED
    BY <1>0, <1>1, <1>2, <2>1, <2>2, <2>3 DEF StoresType
<1>10. Alone'
  BY <1>0, <1>1 DEF Alone
<1>11. CallsInv'
  <2> SUFFICES ASSUME NEW b \in CsClients PROVE CallInv(b)'
    BY DEF CallsInv
  <2>1. CallInv(b) /\ CallInv(c)
    BY <1>0 DEF CallsInv
  <2>2. CASE b = c
    <3>1. csTodo'[c] \subseteq Targets(op) /\ (csOf.kind # "fallback" => \A t \in Targets(op) : t \in csTodo'[c] \/ csRes'[c][t] # "skip")
      <4>1. csTodo[c] \subseteq Targets(op) /\ Targets(op) \subseteq Stores
        BY <1>0, <1>1, <2>1, TargetFacts DEF StoresType, CallInv, op
      <4>2. ASSUME csOf.kind # "fallback", NEW t \in Targets(op) PROVE t \in csTodo'[c] \/ csRes'[c][t] # "skip"
        <5>1. t \in csTodo[c] \/ csRes[c][t] # "skip"
          BY <1>1, <2>1, <4>2 DEF CallInv, op
        <5>2. QED
          BY <1>5, <1>6, <1>7, <4>1, <4>2, <5>1 DEF Answers
      <4>3. QED
        BY <1>6, <1>7, <4>1, <4>2
    <3>2. \A t \in Stores : csRes'[c][t] = "nil" => ~Down(t)
      BY <1>1, <1>5, <1>7, <2>1 DEF CallInv, op
    <3>3. ASSUME op = "put", d \notin csMixed
          PROVE  d \notin csGone /\ \A t \in Stores : csRes'[c][t] = "nil" => csVer'[t][d] # 0
      BY <1>1, <1>3, <1>5, <1>7, <1>8, <2>1, <3>3 DEF CallInv, op, d
    <3>4. ASSUME op = "delete", d \notin csMixed
          PROVE  d \notin csPut /\ \A t \in Stores : csRes'[c][t] \in {"nil", "notfound"} => csVer'[t][d] = 0
      BY <1>1, <1>3, <1>5, <1>7, <1>8, <2>1, <3>4 DEF CallInv, op, d
    <3>5. QED
      BY <1>1, <1>2, <2>2, <3>1, <3>2, <3>3, <3>4 DEF CallInv, op, d
  <2>3. CASE b # c
    <3>1. csTodo'[b] = csTodo[b] /\ csRes'[b] = csRes[b] /\ csCall'[b] = csCall[b]
      BY <1>1, <1>7, <2>3
    <3>2. ASSUME csCall[b].op # "none", csCall[b].d \notin csMixed
          PROVE  csCall[b].d \in CsDigests /\ \A t \in Stores : csVer'[t][csCall[b].d] = csVer[t][csCall[b].d]
      <4>1. csCall[b].d # d
        BY <1>0, <1>1, <2>3, <3>2 DEF Alone, op, d
      <4>2. csCall[b].d \in CsDigests
        BY <1>0, <3>2 DEF StoresType, Calls, NoCall
      <4>3. QED
        BY <1>8, <4>1, <4>2
    <3>3. QED
      BY <1>1, <1>2, <2>1, <3>1, <3>2 DEF CallInv
  <2>4. QED
    BY <2>2, <2>3
<1>12. PutInv'
  <2> SUFFICES ASSUME NEW e \in csPut, e \notin csMixed PROVE Found(e)'
    BY <1>1 DEF PutInv
  <2>1. Found(e) /\ e \in CsDigests
    BY <1>0 DEF PutInv, StoresType
  <2>2. \A t \in Stores : csVer[t][e] # 0 => csVer'[t][e] # 0
    <3>1. CASE e # d
      BY <1>8, <2>1, <3>1
    <3>2. CASE e = d
      <4>1. op # "delete"
        BY <1>0, <1>1, <3>2 DEF CallsInv, CallInv, op, d
      <4>2. QED
        BY <1>5, <1>8, <2>1, <3>2, <4>1
    <3>3. QED
      BY <3>1, <3>2
  <2>3. 1 \in Stores
    BY <1>0, TargetFacts DEF StoresType
  <2>4. QED
    BY <1>1, <1>2, <2>1, <2>2, <2>3 DEF Found, Has
<1>13. DeletedIsGone'
  <2> SUFFICES ASSUME NEW e \in csGone, e \notin csMixed, NEW t \in DeleteStores PROVE csVer'[t][e] = 0
    BY <1>1, <1>2 DEF DeletedIsGone
  <2>1. csVer[t][e] = 0 /\ e \in CsDigests /\ t \in Stores
    BY <1>0, TargetFacts DEF DeletedIsGone, StoresType
  <2>2. CASE e # d \/ t # s
    BY <1>8, <2>1, <2>2
  <2>3. CASE e = d /\ t = s
    <3>1. op # "put"
      BY <1>0, <1>1, <2>3 DEF CallsInv, CallInv, op, d
    <3>2. QED
      BY <1>5, <1>8, <2>1, <2>3, <3>1
  <2>4. QED
    BY <2>2, <2>3
<1>14. QED
  BY <1>9, <1>10, <1>11, <1>12, <1>13

LEMMA ReturnKeeps ==
  ASSUME StoreInv, NEW c \in CsClients, CsReturn(c)
  PROVE  StoresType' /\ Alone' /\ CallsInv' /\ PutInv' /\ DeletedIsGone'
<1>0. StoresType /\ Alone /\ CallsInv /\ PutInv /\ DeletedIsGone
  BY DEF StoreInv
<1> DEFINE op == csCall[c].op
           d == csCall[c].d
           res == csRes[c]
           r == CallResult(op, res)
           none == [s \in Stores |-> "skip"]
<1>1. /\ csOf' = csOf /\ op # "none" /\ csTodo[c] = {} /\ UNCHANGED <<csVer, csTodo, csMade, csMixed>>
      /\ csCall' = [csCall EXCEPT ![c] = NoCall] /\ csRes' = [csRes EXCEPT ![c] = none]
      /\ csPut' = (IF op = "put" /\ r = "nil" /\ d \notin csMixed THEN csPut \cup {d} ELSE csPut)
      /\ csGone' = (IF op = "delete" /\ r = "nil" /\ d \notin csMixed THEN csGone \cup {d} ELSE csGone)
  BY DEF CsReturn
<1>2. /\ Stores' = Stores /\ DeleteStores' = DeleteStores /\ \A t : Down(t)' = Down(t)
      /\ \A o : Targets(o)' = Targets(o)
  BY <1>1, SameWorld
<1>3. op \in Ops /\ d \in CsDigests /\ res \in [Stores -> Answers \cup {"skip"}]
  BY <1>0, <1>1 DEF StoresType, Calls, NoCall
<1>4. none \in [Stores -> Answers \cup {"skip"}]
  OBVIOUS
<1>5. r = "nil" =>
          /\ op = "put" => /\ \E s \in Stores : res[s] = "nil"
                           /\ csOf.kind = "fallback" => res[1] = "nil"
          /\ op # "put" => IF csOf.kind = "fallback" THEN res[1] = "nil" ELSE \A s \in Stores : res[s] # "err"
  BY <1>0, <1>3, SuccessFacts DEF StoresType
<1> HIDE DEF op, d, res, r, none
<1>6. CallInv(c)
  BY <1>0 DEF CallsInv
<1>7. NoCall.op = "none"
  BY DEF NoCall
<1>8. /\ csCall'[c] = NoCall
      /\ \A b \in CsClients : b # c => csCall'[b] = csCall[b] /\ csTodo'[b] = csTodo[b] /\ csRes'[b] = csRes[b]
  BY <1>0, <1>1 DEF StoresType
<1>9. StoresType'
  <2>1. csCall' \in [CsClients -> Calls \cup {NoCall}]
    BY <1>0, <1>1 DEF StoresType
  <2>2. csRes' \in [CsClients -> [Stores -> Answers \cup {"skip"}]]
    BY <1>0, <1>1, <1>4 DEF StoresType
  <2>3. QED
    BY <1>0, <1>1, <1>2, <1>3, <2>1, <2>2 DEF StoresType
<1>10. Alone'
  BY <1>0, <1>1, <1>7, <1>8 DEF Alone
<1>11. \A b \in CsClients : b # c /\ csCall[b].op # "none" /\ csCall[b].d = d => d \in csMixed
  BY <1>0, <1>1 DEF Alone, op, d
<1>12. CallsInv'
  <2> SUFFICES ASSUME NEW b \in CsClients PROVE CallInv(b)'
    BY DEF CallsInv
  <2>1. CASE b = c
    BY <1>7, <1>8, <2>1 DEF CallInv
  <2>2. CASE b # c
    <3>1. CallInv(b)
      BY <1>0 DEF CallsInv
    <3>2. csCall[b].op # "none" /\ csCall[b].d \notin csMixed =>
             (csCall[b].d \in csPut' => csCall[b].d \in csPut) /\ (csCall[b].d \in csGone' => csCall[b].d \in csGone)
      BY <1>1, <1>11, <2>2
    <3>3. QED
      BY <1>1, <1>2, <1>8, <2>2, <3>1, <3>2 DEF CallInv
  <2>3. QED
    BY <2>1, <2>2
<1>13. PutInv'
  <2> SUFFICES ASSUME NEW e \in csPut', e \notin csMixed PROVE Found(e)'
    BY <1>1 DEF PutInv
  <2>1. Found(e)
    <3>1. CASE e \in csPut
      BY <1>0, <3>1 DEF PutInv
    <3>2. CASE e \notin csPut
      <4>1. e = d /\ op = "put" /\ r = "nil"
        BY <1>1, <3>2
      <4>2. \A s \in Stores : res[s] = "nil" => ~Down(s) /\ csVer[s][d] # 0
        BY <1>1, <1>6, <4>1 DEF CallInv, op, d, res
      <4>3. 1 \in Stores
        BY <1>0, TargetFacts DEF StoresType
      <4>4. QED
        BY <1>5, <4>1, <4>2, <4>3 DEF Found, Has
    <3>3. QED
      BY <3>1, <3>2
  <2>2. QED
    BY <1>1, <1>2, <2>1 DEF Found, Has
<1>14. DeletedIsGone'
  <2> SUFFICES ASSUME NEW e \in csGone', e \notin csMixed, NEW t \in DeleteStores PROVE csVer[t][e] = 0
    BY <1>1, <1>2 DEF DeletedIsGone
  <2>1. CASE e \in csGone
    BY <1>0, <2>1 DEF DeletedIsGone
  <2>2. CASE e \notin csGone
    <3>1. e = d /\ op = "delete" /\ r = "nil"
      BY <1>1, <2>2
    <3>2. \A s \in Stores : res[s] \in {"nil", "notfound"} => csVer[s][d] = 0
      BY <1>1, <1>6, <3>1 DEF CallInv, op, d, res
    <3>3. t \in Stores /\ t \in Targets("delete") /\ (csOf.kind = "fallback" => t = 1)
      BY <1>0, TargetFacts DEF StoresType
    <3>4. res[t] \in {"nil", "notfound"}
      <4>1. CASE csOf.kind = "fallback"
        BY <1>5, <3>1, <3>3, <4>1
      <4>2. CASE csOf.kind # "fallback"
        <5>1. res[t] # "skip"
          BY <1>1, <1>6, <3>1, <3>3, <4>2 DEF CallInv, op, res
        <5>2. res[t] # "err"
          BY <1>5, <3>1, <3>3, <4>2
        <5>3. QED
          BY <1>3, <3>3, <5>1, <5>2 DEF Answers
      <4>3. QED
        BY <4>1, <4>2
    <3>5. QED
      BY <3>1, <3>2, <3>3, <3>4
  <2>3. QED
    BY <2>1, <2>2
<1>15. QED
  BY <1>9, <1>10, <1>12, <1>13, <1>14

LEMMA WalkKeeps ==
  ASSUME StoreInv, UNCHANGED <<csOf, csVer, csCall, csTodo, csRes, csMade, csMixed, csPut, csGone>>
  PROVE  StoresType' /\ Alone' /\ CallsInv' /\ PutInv' /\ DeletedIsGone'
<1>0. StoresType /\ Alone /\ CallsInv /\ PutInv /\ DeletedIsGone
  BY DEF StoreInv
<1>1. /\ Stores' = Stores /\ DeleteStores' = DeleteStores /\ \A s : Down(s)' = Down(s)
      /\ \A o : Targets(o)' = Targets(o)
  BY SameWorld
<1>2. StoresType' /\ Alone'
  BY <1>0, <1>1 DEF StoresType, Alone
<1>3. CallsInv'
  BY <1>0, <1>1 DEF CallsInv, CallInv
<1>4. PutInv' /\ DeletedIsGone'
  BY <1>0, <1>1 DEF PutInv, DeletedIsGone, Found, Has
<1>5. QED
  BY <1>2, <1>3, <1>4

LEMMA StoresNext == StoreInv /\ [CsNext]_csVars => StoreInv'
<1> SUFFICES ASSUME StoreInv, [CsNext]_csVars PROVE StoreInv'
  OBVIOUS
<1>0. WalkType /\ WalkInv
  BY DEF StoreInv
<1>1. ASSUME UNCHANGED walkVars PROVE WalkType' /\ WalkInv'
  BY <1>0, <1>1 DEF WalkType, WalkInv, walkVars
<1>2. ASSUME NEW c \in CsClients, NEW d \in CsDigests, NEW op \in Ops, CsBegin(c, op, d) PROVE StoreInv'
  <2>1. UNCHANGED walkVars
    BY <1>2 DEF CsBegin
  <2>2. QED
    BY <1>1, <1>2, <2>1, BeginKeeps DEF StoreInv
<1>3. ASSUME NEW c \in CsClients, NEW s \in Stores, CsAsk(c, s) PROVE StoreInv'
  <2>1. UNCHANGED walkVars
    BY <1>3 DEF CsAsk
  <2>2. QED
    BY <1>1, <1>3, <2>1, AskKeeps DEF StoreInv
<1>4. ASSUME NEW c \in CsClients, CsReturn(c) PROVE StoreInv'
  <2>1. UNCHANGED walkVars
    BY <1>4 DEF CsReturn
  <2>2. QED
    BY <1>1, <1>4, <2>1, ReturnKeeps DEF StoreInv
<1>5. CASE WalkBegin
  <2>1. UNCHANGED <<csOf, csVer, csCall, csTodo, csRes, csMade, csMixed, csPut, csGone, csSeen, csFn>>
    BY <1>5 DEF WalkBegin
  <2>2. WalkType' /\ WalkInv'
    BY <1>0, <2>1 DEF WalkType, WalkInv
  <2>3. QED
    BY <2>1, <2>2, WalkKeeps DEF StoreInv
<1>6. ASSUME NEW s \in Stores, NEW d \in CsDigests, WalkVisit(s, d) PROVE StoreInv'
  <2>1. UNCHANGED <<csOf, csVer, csCall, csTodo, csRes, csMade, csMixed, csPut, csGone>>
    BY <1>6 DEF WalkVisit
  <2>2. csSeen' = csSeen \cup {d} /\ csFn' = IF d \in csSeen THEN csFn ELSE [csFn EXCEPT ![d] = @ + 1]
    BY <1>6 DEF WalkVisit, AlreadySeen
  <2>3. WalkType' /\ WalkInv'
    BY <1>0, <2>2 DEF WalkType, WalkInv
  <2>4. QED
    BY <2>1, <2>3, WalkKeeps DEF StoreInv
<1>7. CASE UNCHANGED csVars
  <2>1. UNCHANGED <<csOf, csVer, csCall, csTodo, csRes, csMade, csMixed, csPut, csGone>> /\ UNCHANGED walkVars
    BY <1>7 DEF csVars, walkVars
  <2>2. QED
    BY <1>1, <2>1, WalkKeeps DEF StoreInv
<1>8. QED
  BY <1>2, <1>3, <1>4, <1>5, <1>6, <1>7 DEF CsNext, Ops

(* What was written is found by Info and by ReaderAt until it is deleted,  *)
(* what was deleted is gone, and a walk visits each digest once, whichever *)
(* stores are down and in whatever order they answer (filterNotFound, the  *)
(* Writer, Delete, Info and Walk of the composite stores).                 *)
THEOREM OneStoreAlways == CsSpec => []OneStore
<1>1. StoreInv => OneStore
  <2> SUFFICES ASSUME StoreInv PROVE OneStore
    OBVIOUS
  <2>1. StoresType /\ PutInv /\ DeletedIsGone /\ WalkType /\ WalkInv
    BY DEF StoreInv
  <2>2. PutIsRead
    <3> SUFFICES ASSUME NEW d \in csPut \ csMixed PROVE InfoFinds(d) /\ ReaderFinds(d)
      BY DEF PutIsRead
    <3>1. Found(d)
      BY <2>1 DEF PutInv
    <3>2. CASE csOf.kind = "fallback"
      BY <3>1, <3>2 DEF Found, InfoFinds, ReaderFinds
    <3>3. CASE csOf.kind # "fallback"
      <4>1. PICK s \in Stores : Has(s, d)
        BY <3>1, <3>3 DEF Found
      <4>2. \E i \in Stores : InfoOrder[i] = s
        <5>1. csOf.n \in Nat \ {0} /\ s \in 1..csOf.n
          BY <2>1 DEF StoresType, Stores
        <5>2. CASE csOf.kind = "split" /\ s = 1
          <6>1. csOf.n \in Stores
            BY <5>1 DEF Stores
          <6>2. InfoOrder[csOf.n] = s
            BY <5>2, <6>1 DEF InfoOrder
          <6>3. QED
            BY <6>1, <6>2
        <5>3. CASE csOf.kind = "split" /\ s # 1
          <6>1. s - 1 \in Stores /\ s - 1 # csOf.n /\ (s - 1) + 1 = s
            BY <5>1, <5>3 DEF Stores
          <6>2. InfoOrder[s - 1] = s
            BY <5>3, <6>1 DEF InfoOrder
          <6>3. QED
            BY <6>1, <6>2
        <5>4. CASE csOf.kind # "split"
          BY <5>4 DEF InfoOrder
        <5>5. QED
          BY <5>2, <5>3, <5>4
      <4>3. QED
        BY <3>3, <4>1, <4>2 DEF InfoFinds, ReaderFinds
    <3>4. QED
      BY <3>2, <3>3
  <2>3. WalkOncePerDigest
    BY <2>1 DEF WalkOncePerDigest, WalkInv, WalkType
  <2>4. QED
    BY <2>1, <2>2, <2>3 DEF OneStore
<1>2. QED
  BY StoresInitial, StoresNext, <1>1, PTL DEF CsSpec

-----------------------------------------------------------------------------

(* The gates. *)

WaitType == [pc : {"idle", "select", "post", "poll", "done"}, err : {"", "canceled", "deadline"},
             got : NoAnswer \cup DOMAIN GtAnswers, yes : BOOLEAN]
GateType ==
    /\ gtOf \in GtWorlds
    /\ gtWait \in [GtWaits -> WaitType]
    /\ gtSent \in SUBSET DOMAIN GtAnswers
    /\ gtChan = << >> \/ \E a \in gtSent : gtChan = <<a>>

(* A wait that goes on has decided nothing; only one that asks the         *)
(* channel's approver takes an answer.                                     *)
WaitInv ==
    \A w \in GtWaits :
        /\ gtWait[w].pc # "done" => gtWait[w].got = "" /\ ~gtWait[w].yes
        /\ gtWait[w].pc = "select" => gtOf.approver = "channel"

(* An answer that was sent is in the channel, or one wait has it and the   *)
(* channel does not; an answer that was not sent is nowhere.               *)
Kept(given, queued, got) ==
    /\ \A a \in given : a \in queued \/ \E w \in GtWaits : got[w] = a
    /\ \A w \in GtWaits : got[w] \in DOMAIN GtAnswers => got[w] \in given /\ got[w] \notin queued
    /\ \A v, w \in GtWaits : got[v] \in given /\ got[v] = got[w] => v = w
Queued == {a \in gtSent : gtChan = <<a>>}
Got == [w \in GtWaits |-> gtWait[w].got]
AnswerInv == Kept(gtSent, Queued, Got)

GateInv == GateType /\ WaitInv /\ AnswerInv /\ OpensForReason

-----------------------------------------------------------------------------
(* What holds of the answers stays true when a wait moves on without one,  *)
(* and when a wait takes the one that is queued.                           *)
LEMMA KeptWithout ==
    ASSUME NEW given \in SUBSET DOMAIN GtAnswers, NEW queued, NEW g, NEW h, NEW w \in GtWaits,
           Kept(given, queued, g), \A v \in GtWaits : v # w => h[v] = g[v],
           g[w] \notin DOMAIN GtAnswers, h[w] \notin DOMAIN GtAnswers
    PROVE  Kept(given, queued, h)
<1>1. ASSUME NEW a \in given, a \notin queued PROVE \E v \in GtWaits : h[v] = a
  <2>1. PICK v \in GtWaits : g[v] = a
    BY <1>1 DEF Kept
  <2>2. QED
    BY <2>1
<1>2. QED
  BY <1>1 DEF Kept
LEMMA KeptTaken ==
    ASSUME NEW given \in SUBSET DOMAIN GtAnswers, NEW a \in given, NEW g, NEW h, NEW w \in GtWaits,
           Kept(given, {a}, g), \A v \in GtWaits : v # w => h[v] = g[v],
           g[w] \notin DOMAIN GtAnswers, h[w] = a
    PROVE  Kept(given, {}, h)
<1>1. ASSUME NEW b \in given PROVE \E v \in GtWaits : h[v] = b
  <2>1. CASE b = a
    BY <2>1
  <2>2. CASE b # a
    <3>1. PICK v \in GtWaits : g[v] = b
      BY <2>2 DEF Kept
    <3>2. QED
      BY <3>1
  <2>3. QED
    BY <2>1, <2>2
<1>2. \A v \in GtWaits : g[v] # a
  BY DEF Kept
<1>3. \A u, v \in GtWaits : h[u] \in given /\ h[u] = h[v] => u = v
  BY <1>2 DEF Kept
<1>4. QED
  BY <1>1, <1>3 DEF Kept

LEMMA GotOf == \A v \in GtWaits : Got[v] = gtWait[v].got /\ Got'[v] = gtWait'[v].got
BY DEF Got

(* The answers are where the invariant says they are counted. *)
LEMMA AnswersCounted == GateInv => AnswersKept
<1> SUFFICES ASSUME GateInv, NEW a \in gtSent
             PROVE  Cardinality({w \in GtWaits : gtWait[w].got = a})
                        + Cardinality({i \in DOMAIN gtChan : gtChan[i] = a}) = 1
  BY DEF AnswersKept
<1> DEFINE W == {w \in GtWaits : gtWait[w].got = a}
           I == {i \in DOMAIN gtChan : gtChan[i] = a}
<1>t. GateType /\ AnswerInv /\ a \in DOMAIN GtAnswers
  BY DEF GateInv, GateType
<1>1. CASE gtChan = <<a>>
  <2>1. I = {1}
    BY <1>1
  <2>2. W = {}
    BY <1>1, <1>t DEF AnswerInv, Kept, Queued, Got
  <2> HIDE DEF W, I
  <2>3. Cardinality(I) = 1 /\ Cardinality(W) = 0
    BY <2>1, <2>2, FS_Singleton, FS_EmptySet
  <2>4. QED
    BY <2>3 DEF W, I
<1>2. CASE gtChan # <<a>>
  <2>1. I = {}
    BY <1>2, <1>t DEF GateType
  <2>2. PICK w \in GtWaits : gtWait[w].got = a
    BY <1>2, <1>t DEF AnswerInv, Kept, Queued, Got
  <2>3. W = {w}
    BY <2>2, <1>t DEF AnswerInv, Kept, Got
  <2> HIDE DEF W, I
  <2>4. Cardinality(I) = 0 /\ Cardinality(W) = 1
    BY <2>1, <2>3, FS_Singleton, FS_EmptySet
  <2>5. QED
    BY <2>4 DEF W, I
<1>3. QED
  BY <1>1, <1>2

(* A wait goes on to another place, its context is done, or it is decided, *)
(* for a reason, without an answer.                                        *)
LEMMA StepKeeps ==
    ASSUME GateInv, NEW w \in GtWaits, gtWait[w].pc # "done", UNCHANGED <<gtOf, gtChan, gtSent, gtHook>>,
           NEW r \in WaitType, gtWait' = [gtWait EXCEPT ![w] = r], r.got \in NoAnswer,
           r.pc # "done" => r.got = "" /\ ~r.yes,
           r.pc = "select" => gtOf.approver = "channel",
           r.yes => \/ gtOf.approver = "auto"
                    \/ r.got = "hook" /\ gtHook = "approved"
                    \/ r.got = "timeout" /\ gtOf.auto /\ r.err = "deadline"
    PROVE  GateInv'
<1> USE DEF GateInv
<1>0. DOMAIN GtAnswers \cap NoAnswer = {}
  BY GateAssumption
<1>1. GateType'
  BY DEF GateType
<1>2. gtWait'[w] = r /\ \A v \in GtWaits : v # w => gtWait'[v] = gtWait[v]
  BY DEF GateType
<1>3. gtWait[w].got = "" /\ "" \notin gtSent /\ r.got \notin gtSent /\ r.got \notin DOMAIN GtAnswers
  BY <1>0 DEF WaitInv, GateType, NoAnswer
<1>4. WaitInv'
  BY <1>2 DEF WaitInv
<1>5. AnswerInv'
  <2>1. Queued' = Queued
    BY DEF Queued
  <2>2. Got[w] = "" /\ Got'[w] = r.got /\ \A v \in GtWaits : v # w => Got'[v] = Got[v]
    BY <1>2, <1>3, GotOf
  <2>3. gtSent \in SUBSET DOMAIN GtAnswers /\ "" \notin DOMAIN GtAnswers
    BY <1>0 DEF GateType, NoAnswer
  <2>4. Kept(gtSent, Queued, Got')
    BY <1>3, <2>2, <2>3, KeptWithout DEF AnswerInv
  <2>5. QED
    BY <2>1, <2>4 DEF AnswerInv
<1>6. OpensForReason'
  <2>1. ASSUME NEW v \in GtWaits, v # w, gtWait'[v].pc = "done", gtWait'[v].yes
        PROVE  \/ gtOf.approver = "auto"
               \/ gtOf.approver = "channel" /\ gtWait'[v].got \in {a \in gtSent : GtAnswers[a]}
               \/ gtWait'[v].got = "hook" /\ gtHook = "approved"
               \/ gtWait'[v].got = "timeout" /\ gtOf.auto /\ gtWait'[v].err = "deadline"
    <3>1. gtWait'[v] = gtWait[v]
      BY <1>2, <2>1
    <3>2. QED
      BY <2>1, <3>1 DEF OpensForReason
  <2>2. r.yes => \/ gtOf.approver = "auto"
                 \/ r.got = "hook" /\ gtHook = "approved"
                 \/ r.got = "timeout" /\ gtOf.auto /\ r.err = "deadline"
    OBVIOUS
  <2>3. gtWait'[w] = r /\ gtOf' = gtOf /\ gtSent' = gtSent /\ gtHook' = gtHook
    BY <1>2
  <2>4. QED
    BY <2>1, <2>2, <2>3 DEF OpensForReason
<1>7. QED
  BY <1>1, <1>4, <1>5, <1>6

LEMMA DecidedKeeps ==
    ASSUME GateInv, NEW w \in GtWaits, gtWait[w].pc # "done", UNCHANGED <<gtOf, gtChan, gtSent, gtHook>>,
           NEW got \in NoAnswer, NEW yes \in BOOLEAN, Decided(w, got, yes),
           yes => \/ gtOf.approver = "auto"
                  \/ got = "hook" /\ gtHook = "approved"
                  \/ got = "timeout" /\ gtOf.auto /\ gtWait[w].err = "deadline"
    PROVE  GateInv'
<1> DEFINE r == [gtWait[w] EXCEPT !.pc = "done", !.got = got, !.yes = yes]
<1>1. gtWait[w] \in WaitType
  BY DEF GateInv, GateType
<1>2. gtWait' = [gtWait EXCEPT ![w] = r]
  BY DEF Decided
<1>3. r \in WaitType /\ r.pc = "done" /\ r.got = got /\ r.yes = yes /\ r.err = gtWait[w].err
  BY <1>1 DEF WaitType
<1> HIDE DEF r
<1>4. QED
  BY <1>2, <1>3, StepKeeps

(* The approver of a wait returns the wait's error. *)
LEMMA FailsKeeps ==
    ASSUME GateInv, NEW w \in GtWaits, gtWait[w].pc # "done", UNCHANGED <<gtOf, gtChan, gtSent, gtHook>>,
           NEW err, err = "deadline" => gtWait[w].err = "deadline", Fails(w, err)
    PROVE  GateInv'
<1>1. gtOf.auto \in BOOLEAN
  BY GateAssumption DEF GateInv, GateType
<1>2. CASE gtOf.wrapped /\ err = "deadline"
  <2>1. Decided(w, "timeout", gtOf.auto)
    BY <1>2 DEF Fails
  <2>2. QED
    BY <1>1, <1>2, <2>1, DecidedKeeps DEF NoAnswer
<1>3. CASE ~(gtOf.wrapped /\ err = "deadline")
  <2>1. Decided(w, "error", FALSE)
    BY <1>3 DEF Fails
  <2>2. QED
    BY <2>1, DecidedKeeps DEF NoAnswer
<1>4. QED
  BY <1>2, <1>3

-----------------------------------------------------------------------------
LEMMA GateInit == GtInit => GateInv
<1> SUFFICES ASSUME GtInit PROVE GateInv
  OBVIOUS
<1> USE GateAssumption DEF GtInit, NoAnswer
<1>1. GateType
  BY DEF GateType, WaitType
<1>2. WaitInv /\ AnswerInv /\ OpensForReason
  BY DEF WaitInv, AnswerInv, Kept, Queued, Got, OpensForReason
<1>3. QED
  BY <1>1, <1>2 DEF GateInv

LEMMA GateNext == GateInv /\ [GtNext]_gtVars => GateInv'
<1> SUFFICES ASSUME GateInv, [GtNext]_gtVars PROVE GateInv'
  OBVIOUS
<1>t. GateType /\ WaitInv /\ AnswerInv /\ OpensForReason
  BY DEF GateInv
<1>0. DOMAIN GtAnswers \cap NoAnswer = {} /\ GtAnswers \in [DOMAIN GtAnswers -> BOOLEAN]
  BY GateAssumption
<1>1. ASSUME NEW w \in GtWaits, GtBegin(w) PROVE GateInv'
  <2>1. CASE gtOf.approver = "auto"
    <3>1. Decided(w, "auto", TRUE)
      BY <1>1, <2>1 DEF GtBegin
    <3>2. QED
      BY <1>1, <2>1, <3>1, DecidedKeeps DEF GtBegin, NoAnswer
  <2>2. CASE gtOf.approver # "auto"
    <3> DEFINE r == [gtWait[w] EXCEPT !.pc = IF gtOf.approver = "channel" THEN "select" ELSE "post"]
    <3>1. gtWait' = [gtWait EXCEPT ![w] = r]
      BY <1>1, <1>t, <2>2 DEF GtBegin
    <3>2. gtWait[w] \in WaitType /\ gtWait[w].pc = "idle" /\ gtWait[w].got = "" /\ ~gtWait[w].yes
      BY <1>1, <1>t DEF GateType, WaitInv, GtBegin
    <3>3. r \in WaitType /\ r.got = "" /\ ~r.yes /\ r.pc # "done" /\ (r.pc = "select" => gtOf.approver = "channel")
      BY <3>2 DEF WaitType
    <3> HIDE DEF r
    <3>4. QED
      BY <1>1, <3>1, <3>2, <3>3, StepKeeps DEF GtBegin, NoAnswer
  <2>3. QED
    BY <2>1, <2>2
<1>2. ASSUME NEW w \in GtWaits, GtCtxDone(w) PROVE GateInv'
  <2>1. PICK err \in {"canceled", "deadline"} : gtWait' = [gtWait EXCEPT ![w].err = err]
    BY <1>2 DEF GtCtxDone
  <2> DEFINE r == [gtWait[w] EXCEPT !.err = err]
  <2>2. gtWait' = [gtWait EXCEPT ![w] = r]
    BY <2>1
  <2>3. gtWait[w] \in WaitType /\ gtWait[w].pc # "done" /\ gtWait[w].got = "" /\ ~gtWait[w].yes
    BY <1>2, <1>t DEF GateType, WaitInv, GtCtxDone, Waiting
  <2>4. r \in WaitType /\ r.got = "" /\ ~r.yes /\ r.pc = gtWait[w].pc
    BY <2>3 DEF WaitType
  <2> HIDE DEF r
  <2>5. QED
    BY <1>2, <1>t, <2>2, <2>3, <2>4, StepKeeps DEF GtCtxDone, WaitInv, NoAnswer
<1>3. ASSUME NEW a \in DOMAIN GtAnswers, GtAnswer(a) PROVE GateInv'
  <2>1. gtChan = << >> /\ a \notin gtSent
    BY <1>3, <1>t DEF GtAnswer, ChanCap, GateType
  <2>2. gtChan' = <<a>> /\ gtSent' = gtSent \cup {a} /\ UNCHANGED <<gtOf, gtWait, gtHook>>
    BY <1>3, <2>1 DEF GtAnswer
  <2>3. GateType' /\ WaitInv'
    BY <1>t, <2>2 DEF GateType, WaitInv
  <2>4. Queued = {} /\ Queued' = {a} /\ Got' = Got
    BY <1>3, <2>1, <2>2 DEF Queued, Got
  <2>5. AnswerInv'
    <3>1. Kept(gtSent, {}, Got)
      BY <1>t, <2>4 DEF AnswerInv
    <3>2. Kept(gtSent \cup {a}, {a}, Got)
      BY <1>3, <2>1, <3>1 DEF Kept
    <3>3. QED
      BY <2>2, <2>4, <3>2 DEF AnswerInv
  <2>6. OpensForReason'
    BY <1>t, <2>2 DEF OpensForReason
  <2>7. QED
    BY <2>3, <2>5, <2>6 DEF GateInv
<1>4. ASSUME NEW w \in GtWaits, GtReceive(w) PROVE GateInv'
  <2>1. PICK a \in gtSent : gtChan = <<a>>
    BY <1>4, <1>t DEF GtReceive, GateType
  <2>2. /\ gtWait' = [gtWait EXCEPT ![w].pc = "done", ![w].got = a, ![w].yes = GtAnswers[a]]
        /\ gtChan' = << >> /\ UNCHANGED <<gtOf, gtSent, gtHook>> /\ gtWait[w].pc = "select"
    BY <1>4, <2>1 DEF GtReceive, Decided
  <2>3. a \in DOMAIN GtAnswers /\ GtAnswers[a] \in BOOLEAN /\ gtOf.approver = "channel" /\ gtWait[w].got = ""
    BY <1>0, <1>t, <2>2 DEF GateType, WaitInv
  <2>4. GateType'
    <3> DEFINE r == [gtWait[w] EXCEPT !.pc = "done", !.got = a, !.yes = GtAnswers[a]]
    <3>1. gtWait' = [gtWait EXCEPT ![w] = r]
      BY <2>2
    <3>2. r \in WaitType
      BY <1>t, <2>3 DEF GateType, WaitType
    <3> HIDE DEF r
    <3>3. QED
      BY <1>t, <2>2, <3>1, <3>2 DEF GateType
  <2>5. /\ gtWait'[w].got = a /\ gtWait'[w].yes = GtAnswers[a] /\ gtWait'[w].pc = "done"
        /\ \A v \in GtWaits : v # w => gtWait'[v] = gtWait[v]
    BY <1>t, <2>2 DEF GateType, WaitType
  <2>6. WaitInv'
    BY <1>t, <2>2, <2>5 DEF WaitInv
  <2>7. Queued = {a} /\ Queued' = {}
    BY <2>1, <2>2 DEF Queued
  <2>8. AnswerInv'
    <3>1. Got[w] = "" /\ Got'[w] = a /\ \A v \in GtWaits : v # w => Got'[v] = Got[v]
      BY <2>3, <2>5, GotOf
    <3>2. gtSent \in SUBSET DOMAIN GtAnswers /\ "" \notin DOMAIN GtAnswers
      BY <1>0, <1>t DEF GateType, NoAnswer
    <3>3. Kept(gtSent, {a}, Got)
      BY <1>t, <2>7 DEF AnswerInv
    <3>4. Kept(gtSent, {}, Got')
      BY <3>1, <3>2, <3>3, KeptTaken
    <3>5. QED
      BY <2>2, <2>7, <3>4 DEF AnswerInv
  <2>9. OpensForReason'
    <3>1. ASSUME NEW v \in GtWaits, v # w, gtWait'[v].pc = "done", gtWait'[v].yes
          PROVE  \/ gtOf.approver = "auto"
                 \/ gtOf.approver = "channel" /\ gtWait'[v].got \in {b \in gtSent : GtAnswers[b]}
                 \/ gtWait'[v].got = "hook" /\ gtHook = "approved"
                 \/ gtWait'[v].got = "timeout" /\ gtOf.auto /\ gtWait'[v].err = "deadline"
      <4>1. gtWait'[v] = gtWait[v]
        BY <2>5, <3>1
      <4>2. OpensForReason
        BY <1>t
      <4>3. QED
        BY <3>1, <4>1, <4>2 DEF OpensForReason
    <3>2. gtWait'[w].yes => a \in {b \in gtSent : GtAnswers[b]}
      BY <2>5
    <3>3. gtWait'[w].yes => gtOf.approver = "channel" /\ gtWait'[w].got \in {b \in gtSent : GtAnswers[b]}
      BY <2>3, <2>5, <3>2
    <3>4. gtOf' = gtOf /\ gtSent' = gtSent /\ gtHook' = gtHook
      BY <2>2
    <3>5. QED
      BY <3>1, <3>3, <3>4 DEF OpensForReason
  <2>10. QED
    BY <2>4, <2>6, <2>8, <2>9 DEF GateInv
<1>5. ASSUME NEW w \in GtWaits, GtGiveUp(w) PROVE GateInv'
  BY <1>5, FailsKeeps DEF GtGiveUp
<1>6. ASSUME NEW w \in GtWaits, GtPost(w) PROVE GateInv'
  <2>0. gtWait[w].pc = "post" /\ UNCHANGED <<gtOf, gtChan, gtSent, gtHook>>
    BY <1>6 DEF GtPost
  <2>9. gtWait[w] \in WaitType /\ gtWait[w].got = "" /\ ~gtWait[w].yes
    BY <1>t, <2>0 DEF GateType, WaitInv
  <2>1. CASE gtWait' = [gtWait EXCEPT ![w].pc = "poll"]
    <3> DEFINE r == [gtWait[w] EXCEPT !.pc = "poll"]
    <3>1. gtWait' = [gtWait EXCEPT ![w] = r]
      BY <2>1
    <3>2. r \in WaitType /\ r.got = "" /\ r.pc = "poll" /\ ~r.yes
      BY <2>9 DEF WaitType
    <3> HIDE DEF r
    <3>3. QED
      BY <1>6, <2>0, <3>1, <3>2, StepKeeps DEF NoAnswer
  <2>2. CASE gtWait[w].err # "" /\ Fails(w, gtWait[w].err)
    BY <1>6, <2>0, <2>2, FailsKeeps
  <2>3. CASE gtWait[w].err = "" /\ Fails(w, "refused")
    BY <1>6, <2>0, <2>3, FailsKeeps
  <2>4. CASE /\ gtWait[w].err = ""
             /\ LET late == [gtWait[w] EXCEPT !.pc = "done", !.err = "deadline"]
                IN  gtWait' = [gtWait EXCEPT ![w] = IF gtOf.wrapped THEN [late EXCEPT !.got = "timeout", !.yes = gtOf.auto]
                                                    ELSE [late EXCEPT !.got = "error"]]
    <3> DEFINE late == [gtWait[w] EXCEPT !.pc = "done", !.err = "deadline"]
               r == IF gtOf.wrapped THEN [late EXCEPT !.got = "timeout", !.yes = gtOf.auto] ELSE [late EXCEPT !.got = "error"]
    <3>1. gtWait' = [gtWait EXCEPT ![w] = r]
      BY <2>4
    <3>2. gtOf.auto \in BOOLEAN
      BY <1>t, GateAssumption DEF GateType
    <3>3. r \in WaitType /\ r.pc = "done" /\ r.got \in {"timeout", "error"} /\ r.err = "deadline"
      BY <2>9, <3>2 DEF WaitType, NoAnswer
    <3>4. r.yes => r.got = "timeout" /\ gtOf.auto
      BY <2>9, <3>2 DEF WaitType
    <3> HIDE DEF r
    <3>5. QED
      BY <1>6, <2>0, <3>1, <3>3, <3>4, StepKeeps DEF NoAnswer
  <2>5. QED
    BY <1>6, <2>1, <2>2, <2>3, <2>4 DEF GtPost
<1>7. CASE GtHookSet
  BY <1>7, <1>t DEF GtHookSet, GateInv, GateType, WaitInv, AnswerInv, Queued, Got, OpensForReason
<1>8. ASSUME NEW w \in GtWaits, GtPoll(w) PROVE GateInv'
  BY <1>8, DecidedKeeps DEF GtPoll, NoAnswer
<1>9. CASE UNCHANGED gtVars
  BY <1>9, <1>t DEF gtVars, GateInv, GateType, WaitInv, AnswerInv, Queued, Got, OpensForReason
<1>10. QED
  BY <1>1, <1>2, <1>3, <1>4, <1>5, <1>6, <1>7, <1>8, <1>9 DEF GtNext

(* Nobody passes a gate on less than an answer, and an answer lets one     *)
(* pass: what GateOp.Wait returns, however many wait at the gate and       *)
(* whatever the approver, its deadlines and the people who answer do.      *)
THEOREM GatesDecideAlways == GtSpec => []GatesDecide
<1>1. GateInv => GatesDecide
  BY AnswersCounted DEF GateInv, GatesDecide
<1>2. QED
  BY <1>1, GateInit, GateNext, PTL DEF GtSpec
=============================================================================
