--------------------------- MODULE ContentProofs ---------------------------
(***************************************************************************)
(* Proofs about the content stores.  Of the registry store, for any number *)
(* of goroutines, writers, refs and chunks: a writer is committed at most  *)
(* once, the local content is what was accepted however the pipe to the    *)
(* registry fails, and nothing is written locally after the local commit;  *)
(* Info's cache follows the local store, a closed reader leaves the whole  *)
(* blob there, and the connection pool dials an entry once.  Of the B2     *)
(* store: a commit has put the whole blob there, and labels stay.          *)
(***************************************************************************)
EXTENDS MCContent, TLAPS, SequenceTheorems

(* The part of the type invariant that the argument needs. *)
CommitTypes ==
    /\ tracker \in [Refs -> Writers \cup {None}]
    /\ ref \in [Writers -> Refs \cup {None}]
    /\ owner \in [Writers -> Procs \cup {None}]
    /\ returned \in SUBSET Writers
    /\ committed \in [Writers -> BOOLEAN]
    /\ remoteSt \in [Writers -> IOStates]
    /\ pushed \in [Writers -> Nat]
    /\ pc \in [Procs -> Labels]
    /\ cur \in [Procs -> Writers \cup {None}]
    /\ todo \in [Procs -> SUBSET Writers]
    /\ \A p \in Procs :
          pc[p] \notin {"idle", "close", "panic"} => cur[p] \in Writers

(* A writer that is being opened belongs to one goroutine, and nobody else *)
(* can reach it before Store.Writer returns it.                            *)
Opening ==
    /\ \A w \in returned : ref[w] # None
    /\ \A p \in Procs : pc[p] \in {"push", "add"} =>
          /\ cur[p] \in Writers \ returned
          /\ ref[cur[p]] # None
          /\ owner[cur[p]] = p

(* The goroutine past the compare-and-swap is alone, holds the flag, and   *)
(* has not announced the push; past the remote commit the remote writer is *)
(* committed.                                                              *)
Claimed ==
    /\ \A p, q \in Procs : \A w \in Writers :
          Committing(p, w) /\ Committing(q, w) => p = q
    /\ \A p \in Procs : \A w \in Writers :
          Committing(p, w) =>
             /\ w \in returned
             /\ committed[w] = TRUE
             /\ pushed[w] = 0
             /\ pc[p] # "remoteCommit" => remoteSt[w] = "committed"

(* After the announcement the flag stays set, so no commit can begin. *)
Announced ==
    \A w \in Writers :
        /\ pushed[w] \in {0, 1}
        /\ pushed[w] = 1 => /\ w \in returned
                            /\ committed[w] = TRUE
                            /\ remoteSt[w] = "committed"
                            /\ \A p \in Procs : ~Committing(p, w)

CommitInv == CommitTypes /\ Opening /\ Claimed /\ Announced

(* No writer has been opened and no goroutine has called the store. *)
LEMMA CommitInit == Init => CommitInv
BY NoneAssumption
DEF Init, CommitInv, CommitTypes, Opening, Claimed, Announced, Committing,
    IOStates, Labels

(* Closing takes writers off the goroutine's list and adds none. *)
LEMMA TodoShrinks ==
    ASSUME NEW p \in Procs, CommitTypes, CloseCh(p)
    PROVE  todo' \in [Procs -> SUBSET Writers]
<1>1. ASSUME NEW w \in todo[p], todo' = [todo EXCEPT ![p] = @ \ {w}]
      PROVE  todo' \in [Procs -> SUBSET Writers]
  BY <1>1 DEF CommitTypes
<1>2. QED
  BY <1>1 DEF CommitTypes, CloseCh

(* Every step of the store keeps the invariant. *)
LEMMA CommitNext == CommitInv /\ [Next]_vars => CommitInv'
<1> SUFFICES ASSUME CommitInv, [Next]_vars PROVE CommitInv'
  OBVIOUS
<1> USE NoneAssumption
    DEF CommitInv, CommitTypes, Opening, Claimed, Announced, Committing,
        IOStates, Labels, Goto, Call, Return, Remove, RemoveAll, chanVars,
        remoteVars, localVars, openVars, commitVars
<1>1. ASSUME NEW p \in Procs, Writer(p) PROVE CommitInv'
  BY <1>1 DEF Writer
<1>2. ASSUME NEW p \in Procs, Push(p) PROVE CommitInv'
  BY <1>2 DEF Push
<1>3. ASSUME NEW p \in Procs, PushFails(p) PROVE CommitInv'
  BY <1>3 DEF PushFails
<1>4. ASSUME NEW p \in Procs, Add(p) PROVE CommitInv'
  BY <1>4 DEF Add
<1>5. ASSUME NEW p \in Procs, Write(p) PROVE CommitInv'
  <2>1. UNCHANGED <<ref, owner, returned, committed, remoteSt,
                   pushed, tracker, todo>>
    BY <1>5 DEF Write
  <2>2. pc[p] = "idle"
    BY <1>5 DEF Write
  <2>3. CASE UNCHANGED <<pc, cur>>
    BY <2>1, <2>3
  <2>4. CASE \E w \in returned : Call(p, w, "enqueue")
    BY <2>1, <2>2, <2>4
  <2>5. QED
    BY <1>5, <2>3, <2>4 DEF Write
<1>6. ASSUME NEW p \in Procs, Enqueue(p) PROVE CommitInv'
  <2>1. UNCHANGED <<ref, owner, returned, committed, remoteSt,
                   pushed, tracker, todo>>
    BY <1>6 DEF Enqueue
  <2>2. pc[p] = "enqueue"
    BY <1>6 DEF Enqueue
  <2>3. CASE Goto(p, "panic") /\ UNCHANGED cur
    BY <2>1, <2>2, <2>3
  <2>4. CASE Return(p)
    BY <2>1, <2>2, <2>4
  <2>5. QED
    BY <1>6, <2>3, <2>4 DEF Enqueue
<1>7. ASSUME NEW p \in Procs, Truncate(p) PROVE CommitInv'
  BY <1>7 DEF Truncate
<1>8. ASSUME NEW p \in Procs, Commit(p) PROVE CommitInv'
  BY <1>8 DEF Commit
<1>9. ASSUME NEW p \in Procs, RemoteCommit(p) PROVE CommitInv'
  <2>1. CommitTypes'
    BY <1>9 DEF RemoteCommit
  <2>2. Opening'
    BY <1>9 DEF RemoteCommit
  <2>3. Claimed'
    BY <1>9 DEF RemoteCommit
  <2>4. Announced'
    BY <1>9 DEF RemoteCommit
  <2>5. QED
    BY <2>1, <2>2, <2>3, <2>4
<1>10. ASSUME NEW p \in Procs, RemoteCommitFails(p) PROVE CommitInv'
  <2>1. CommitTypes'
    BY <1>10 DEF RemoteCommitFails
  <2>2. Opening'
    BY <1>10 DEF RemoteCommitFails
  <2>3. Claimed'
    BY <1>10 DEF RemoteCommitFails
  <2>4. Announced'
    BY <1>10 DEF RemoteCommitFails
  <2>5. QED
    BY <2>1, <2>2, <2>3, <2>4
<1>11. ASSUME NEW p \in Procs, Drain(p) PROVE CommitInv'
  BY <1>11 DEF Drain
<1>12. ASSUME NEW p \in Procs, CommitLocal(p) PROVE CommitInv'
  BY <1>12 DEF CommitLocal
<1>13. ASSUME NEW p \in Procs, Finish(p) PROVE CommitInv'
  <2>1. CommitTypes'
    <3>1. pushed' \in [Writers -> Nat]
      <4>1. cur[p] \in Writers /\ pushed[cur[p]] + 1 \in Nat
        BY <1>13 DEF Finish
      <4>2. pushed' = [pushed EXCEPT ![cur[p]] = pushed[cur[p]] + 1]
        BY <1>13 DEF Finish
      <4>3. QED
        BY <4>1, <4>2
    <3>2. tracker' \in [Refs -> Writers \cup {None}]
      BY <1>13 DEF Finish
    <3>3. QED
      BY <1>13, <3>1, <3>2 DEF Finish
  <2>2. Opening'
    BY <1>13 DEF Finish
  <2>3. Claimed'
    BY <1>13 DEF Finish
  <2>4. Announced'
    BY <1>13 DEF Finish
  <2>5. QED
    BY <2>1, <2>2, <2>3, <2>4
<1>14. ASSUME NEW p \in Procs, Close(p) PROVE CommitInv'
  BY <1>14 DEF Close
<1>15. ASSUME NEW p \in Procs, Abort(p) PROVE CommitInv'
  BY <1>15 DEF Abort
<1>16. ASSUME NEW p \in Procs, StoreClose(p) PROVE CommitInv'
  BY <1>16 DEF StoreClose
<1>17. ASSUME NEW p \in Procs, CloseCh(p) PROVE CommitInv'
  <2>1. UNCHANGED <<ref, owner, returned, committed, remoteSt, pushed, tracker>>
    BY <1>17 DEF CloseCh
  <2>2. pc[p] = "close" /\ todo' \in [Procs -> SUBSET Writers]
    BY <1>17, TodoShrinks DEF CloseCh
  <2>3. ASSUME NEW w \in Writers, Call(p, w, "waitClose")
        PROVE  CommitInv'
    BY <2>1, <2>2, <2>3
  <2>4. CASE Return(p)
    <3>1. CommitTypes' /\ Opening'
      BY <2>1, <2>2, <2>4
    <3>2. Claimed'
      BY <2>1, <2>2, <2>4
    <3>3. Announced'
      BY <2>1, <2>2, <2>4
    <3>4. QED
      BY <3>1, <3>2, <3>3
  <2>5. todo[p] \subseteq Writers
    OBVIOUS
  <2>6. QED
    BY <1>17, <2>3, <2>4, <2>5 DEF CloseCh
<1>18. ASSUME NEW p \in Procs, CloseLocal(p) PROVE CommitInv'
  <2>1. UNCHANGED <<ref, owner, returned, committed, remoteSt, pushed, cur, todo>>
    BY <1>18 DEF CloseLocal
  <2>2. tracker' \in [Refs -> Writers \cup {None}]
    BY <1>18 DEF CloseLocal
  <2>3. pc[p] = "waitClose" /\ Goto(p, "closeRemote")
    BY <1>18 DEF CloseLocal
  <2>4. QED
    BY <2>1, <2>2, <2>3
<1>19. ASSUME NEW p \in Procs, CloseRemote(p) PROVE CommitInv'
  <2>1. \A w \in Writers :
           remoteSt[w] = "committed" => remoteSt'[w] = "committed"
    <3>1. CASE remoteSt[cur[p]] = "open"
      BY <1>19, <3>1 DEF CloseRemote
    <3>2. CASE remoteSt[cur[p]] # "open"
      BY <1>19, <3>2 DEF CloseRemote
    <3>3. QED
      BY <3>1, <3>2
  <2>2. CommitTypes'
    BY <1>19 DEF CloseRemote
  <2>3. Opening'
    BY <1>19 DEF CloseRemote
  <2>4. Claimed'
    BY <1>19, <2>1 DEF CloseRemote
  <2>5. Announced'
    <3>1. UNCHANGED <<pushed, returned, committed>> /\ Call(p, None, "close")
      BY <1>19 DEF CloseRemote
    <3>2. QED
      BY <2>1, <3>1
  <2>6. QED
    BY <2>2, <2>3, <2>4, <2>5
<1>20. ASSUME NEW w \in Writers, Work(w) PROVE CommitInv'
  BY <1>20 DEF Work, WorkerWrite, WorkerExit
<1>21. CASE UNCHANGED vars
  BY <1>21 DEF vars
<1>22. QED
  BY <1>1, <1>2, <1>3, <1>4, <1>5, <1>6, <1>7, <1>8, <1>9, <1>10, <1>11, <1>12, <1>13, <1>14, <1>15, <1>16, <1>17, <1>18, <1>19, <1>20, <1>21 DEF Next, Running, Begin

(* "Prevents double-commit without a mutex" (contentWriter.Commit): at     *)
(* most one goroutine is past the compare-and-swap of a writer, and its    *)
(* push is announced at most once.                                         *)
THEOREM CommitOnceAlways == Spec => []CommitOnce
<1>1. CommitInv => CommitOnce
  BY DEF CommitInv, CommitTypes, Claimed, Announced, CommitOnce
<1>2. QED
  BY CommitInit, CommitNext, <1>1, PTL DEF Spec

(* A tracked writer has been returned, is tracked under its own ref, and   *)
(* has not announced its push.                                             *)
Tracked ==
    \A r \in Refs : tracker[r] # None =>
        /\ tracker[r] \in returned
        /\ ref[tracker[r]] = r
        /\ pushed[tracker[r]] = 0

(* Only Add puts a writer into the tracker, before anyone can commit it,   *)
(* and Finish clears the ref of the writer it announces.                   *)
LEMMA TrackedNext == CommitInv /\ Tracked /\ [Next]_vars => Tracked'
<1> SUFFICES ASSUME CommitInv, Tracked, [Next]_vars PROVE Tracked'
  OBVIOUS
<1> USE NoneAssumption
    DEF CommitInv, CommitTypes, Opening, Tracked, Remove, RemoveAll, openVars,
        commitVars
<1>1. ASSUME NEW p \in Procs, Writer(p) PROVE Tracked'
  BY <1>1 DEF Writer
<1>2. ASSUME NEW p \in Procs, PushFails(p) PROVE Tracked'
  BY <1>2 DEF PushFails
<1>3. ASSUME NEW p \in Procs, Add(p) PROVE Tracked'
  <2>1. pushed[cur[p]] = 0 /\ cur[p] \in Writers /\ ref[cur[p]] \in Refs
    BY <1>3 DEF Add, Announced
  <2>2. QED
    BY <1>3, <2>1 DEF Add
<1>4. ASSUME NEW p \in Procs, Finish(p) PROVE Tracked'
  <2>1. cur[p] \in Writers /\ ref[cur[p]] \in Refs
    BY <1>4 DEF Finish, Claimed, Committing
  <2>2. QED
    BY <1>4, <2>1 DEF Finish
<1>5. ASSUME NEW p \in Procs, Abort(p) \/ StoreClose(p) \/ CloseLocal(p)
      PROVE  Tracked'
  BY <1>5 DEF Abort, StoreClose, CloseLocal
<1>6. CASE UNCHANGED <<tracker, returned, ref, pushed>>
  BY <1>6
<1>7. QED
  BY <1>1, <1>2, <1>3, <1>4, <1>5, <1>6
  DEF Next, Running, Begin, Work, vars, Push, Write, Enqueue, Truncate, Commit,
      RemoteCommit, RemoteCommitFails, Drain, CommitLocal, Close, CloseCh,
      CloseRemote, WorkerWrite, WorkerExit

(* Whatever Writer, Commit, Abort and Close calls on the same ref do, a    *)
(* committed writer is not found in the ingestion tracker.                 *)
THEOREM CommittedUntrackedAlways == Spec => []CommittedUntracked
<1>1. Init => Tracked
  BY DEF Init, Tracked
<1>2. Tracked => CommittedUntracked
  BY DEF Tracked, CommittedUntracked
<1>3. QED
  BY CommitInit, CommitNext, TrackedNext, <1>1, <1>2, PTL DEF Spec

-----------------------------------------------------------------------------
(* The local copy.                                                         *)

Increasing(s) == \A i, j \in DOMAIN s : i < j => s[i] < s[j]

(* A goroutine between the remote write and the send is the writer's       *)
(* owner, and its chunk is newer than all the worker has or will get.      *)
Sending ==
    \A p \in Procs : pc[p] = "enqueue" =>
        /\ cur[p] \in returned
        /\ owner[cur[p]] = p
        /\ sent[cur[p]] # 0
        /\ \A i \in DOMAIN queue[cur[p]] : queue[cur[p]][i] < sent[cur[p]]
        /\ \A i \in DOMAIN local[cur[p]] : local[cur[p]][i] < sent[cur[p]]

(* What the local writer holds, followed by what is queued for it, is in   *)
(* the order of writing, and nothing in it is newer than the last chunk.   *)
InOrder ==
    \A w \in Writers :
        /\ Increasing(local[w])
        /\ Increasing(queue[w])
        /\ \A i \in DOMAIN local[w], j \in DOMAIN queue[w] : local[w][i] < queue[w][j]
        /\ \A i \in DOMAIN local[w] : local[w][i] <= sent[w]
        /\ \A i \in DOMAIN queue[w] : queue[w][i] <= sent[w]

(* A local writer that is committed or closed has no worker; when it is    *)
(* committed, the remote writer is too, and no commit is about to try it.  *)
Drained ==
    \A w \in Writers :
        /\ localSt[w] \in {"committed", "closed"} => worker[w] = FALSE
        /\ localSt[w] = "committed" =>
              /\ w \in returned
              /\ committed[w] = TRUE
              /\ remoteSt[w] = "committed"
              /\ \A p \in Procs : ~(cur[p] = w /\ pc[p] = "remoteCommit")

LocalInv == CommitInv /\ TypeOK /\ Sending /\ InOrder /\ Drained /\ CacheFaithful

(* Sending a chunk that is newer than all others keeps the order. *)
LEMMA AppendIncreasing ==
    ASSUME NEW s \in Seq(Nat), NEW x \in Nat, Increasing(s),
           \A i \in DOMAIN s : s[i] < x
    PROVE  /\ Increasing(Append(s, x))
           /\ \A i \in DOMAIN Append(s, x) :
                 IF i \in DOMAIN s THEN Append(s, x)[i] = s[i] ELSE Append(s, x)[i] = x
<1>1. /\ Len(Append(s, x)) = Len(s) + 1
      /\ \A i \in 1..Len(s) : Append(s, x)[i] = s[i]
      /\ Append(s, x)[Len(s) + 1] = x
      /\ DOMAIN Append(s, x) = 1..(Len(s) + 1)
      /\ DOMAIN s = 1..Len(s)
      /\ Len(s) \in Nat
      /\ \A i \in 1..Len(s) : s[i] \in Nat
  OBVIOUS
<1>2. \A i \in 1..(Len(s) + 1) : i \in 1..Len(s) \/ i = Len(s) + 1
  BY <1>1
<1>3. QED
  BY <1>1, <1>2 DEF Increasing

(* Taking the first chunk leaves newer ones, in order. *)
LEMMA TailIncreasing ==
    ASSUME NEW s \in Seq(Nat), s # <<>>, Increasing(s)
    PROVE  /\ Increasing(Tail(s))
           /\ Head(s) = s[1]
           /\ 1 \in DOMAIN s
           /\ \A i \in DOMAIN Tail(s) :
                 i + 1 \in DOMAIN s /\ Tail(s)[i] = s[i + 1] /\ s[1] < Tail(s)[i]
<1>1. /\ Len(s) \in Nat \ {0}
      /\ DOMAIN s = 1..Len(s)
      /\ DOMAIN Tail(s) = 1..(Len(s) - 1)
      /\ \A i \in 1..(Len(s) - 1) : Tail(s)[i] = s[i + 1]
  BY HeadTailProperties
<1>2. \A i \in 1..(Len(s) - 1) : i + 1 \in 1..Len(s) /\ 1 < i + 1
  BY <1>1
<1>3. \A i \in DOMAIN Tail(s) : i + 1 \in DOMAIN s /\ Tail(s)[i] = s[i + 1] /\ s[1] < Tail(s)[i]
  BY <1>1, <1>2 DEF Increasing
<1>4. Increasing(Tail(s))
  <2>1. SUFFICES ASSUME NEW i \in DOMAIN Tail(s), NEW j \in DOMAIN Tail(s), i < j
                 PROVE  Tail(s)[i] < Tail(s)[j]
    BY DEF Increasing
  <2>2. i + 1 \in DOMAIN s /\ j + 1 \in DOMAIN s /\ i + 1 < j + 1
    BY <1>1, <2>1
  <2>3. s[i + 1] < s[j + 1]
    BY <2>2 DEF Increasing
  <2>4. QED
    BY <1>3, <2>3
<1>5. Head(s) = s[1] /\ 1 \in DOMAIN s
  BY <1>1
<1>6. QED
  BY <1>3, <1>4, <1>5

-----------------------------------------------------------------------------
(* The initial states satisfy the invariant. *)
LEMMA LocalInit == Init => LocalInv
<1> SUFFICES ASSUME Init PROVE LocalInv
  OBVIOUS
<1>1. CommitInv
  BY CommitInit
<1>2. TypeOK
  <2>1. <<>> \in Seq(Chunks) /\ Len(<<>>) = 0 /\ 0 \in 0..MaxChunks
    BY BoundAssumption
  <2>2. /\ remote \in [Writers -> Seq(Chunks)]
        /\ queue \in [Writers -> Seq(Chunks)]
        /\ local \in [Writers -> Seq(Chunks)]
        /\ sent \in [Writers -> 0..MaxChunks]
        /\ \A w \in Writers : Len(queue[w]) <= ChanCap
    BY <2>1, BoundAssumption DEF Init
  <2>3. /\ verify \in [Writers -> BOOLEAN]
        /\ hasLocal \in [Writers -> BOOLEAN]
        /\ chClosed \in [Writers -> BOOLEAN]
        /\ worker \in [Writers -> BOOLEAN]
        /\ localSt \in [Writers -> IOStates]
    BY DEF Init, IOStates
  <2>4. QED
    BY <1>1, <2>2, <2>3 DEF TypeOK, CommitInv, CommitTypes
<1>3. Sending /\ Drained /\ CacheFaithful
  BY DEF Init, Sending, Drained, CacheFaithful
<1>4. InOrder
  BY DEF Init, InOrder, Increasing
<1>5. QED
  BY <1>1, <1>2, <1>3, <1>4 DEF LocalInv

(* Each step keeps the types. *)
LEMMA IngestTypeNext == LocalInv /\ [Next]_vars => TypeOK'
<1> SUFFICES ASSUME LocalInv, [Next]_vars PROVE TypeOK'
  OBVIOUS
<1> DEFINE Rest ==
        /\ verify \in [Writers -> BOOLEAN]
        /\ sent \in [Writers -> 0..MaxChunks]
        /\ remote \in [Writers -> Seq(Chunks)]
        /\ hasLocal \in [Writers -> BOOLEAN]
        /\ queue \in [Writers -> Seq(Chunks)]
        /\ \A w \in Writers : Len(queue[w]) <= ChanCap
        /\ chClosed \in [Writers -> BOOLEAN]
        /\ worker \in [Writers -> BOOLEAN]
        /\ local \in [Writers -> Seq(Chunks)]
        /\ localSt \in [Writers -> IOStates]
<1> USE NoneAssumption, BoundAssumption
    DEF chanVars, remoteVars, localVars, openVars, commitVars, Chunks
<1>c. CommitInv'
  BY CommitNext DEF LocalInv
<1>t. CommitTypes /\ Rest
  BY DEF LocalInv, CommitInv, TypeOK
<1>r. SUFFICES Rest'
  BY <1>c DEF CommitInv, CommitTypes, TypeOK
<1>1. ASSUME NEW p \in Procs, Push(p) PROVE Rest'
  <2>1. cur[p] \in Writers
    BY <1>t, <1>1 DEF CommitTypes, Push
  <2>2. PICK lw \in BOOLEAN : NewContentWriter(cur[p], lw)
    BY <1>1 DEF Push
  <2>3. /\ hasLocal' \in [Writers -> BOOLEAN]
        /\ worker' \in [Writers -> BOOLEAN]
    BY <1>t, <2>1, <2>2 DEF NewContentWriter
  <2>4. localSt' \in [Writers -> IOStates]
    BY <1>t, <2>1, <2>2 DEF NewContentWriter, IOStates
  <2>5. QED
    BY <1>t, <1>1, <2>3, <2>4 DEF Push
<1>2. ASSUME NEW p \in Procs, Write(p) PROVE Rest'
  <2>1. PICK w \in returned :
           /\ sent[w] < MaxChunks
           /\ sent' = [sent EXCEPT ![w] = @ + 1]
           /\ remote' = [remote EXCEPT ![w] = Append(@, sent[w] + 1)]
    BY <1>2 DEF Write
  <2>2. w \in Writers /\ sent[w] + 1 \in Chunks
    BY <1>t, <2>1 DEF CommitTypes
  <2>3. sent' \in [Writers -> 0..MaxChunks]
    BY <1>t, <2>1, <2>2
  <2>4. remote' \in [Writers -> Seq(Chunks)]
    BY <1>t, <2>1, <2>2
  <2>5. QED
    BY <1>t, <1>2, <2>3, <2>4 DEF Write
<1>3. ASSUME NEW p \in Procs, Enqueue(p) PROVE Rest'
  <2>1. cur[p] \in Writers /\ sent[cur[p]] \in Chunks
    BY <1>t, <1>3 DEF CommitTypes, Enqueue, LocalInv, Sending
  <2>2. CASE UNCHANGED queue
    BY <1>t, <1>3, <2>2 DEF Enqueue
  <2>3. CASE /\ Len(queue[cur[p]]) < ChanCap
             /\ queue' = [queue EXCEPT ![cur[p]] = Append(@, sent[cur[p]])]
    <3>1. /\ Append(queue[cur[p]], sent[cur[p]]) \in Seq(Chunks)
          /\ Len(Append(queue[cur[p]], sent[cur[p]])) = Len(queue[cur[p]]) + 1
          /\ Len(queue[cur[p]]) \in Nat
      BY <1>t, <2>1
    <3>2. queue' \in [Writers -> Seq(Chunks)]
      BY <1>t, <2>3, <3>1
    <3>3. \A w \in Writers : Len(queue'[w]) <= ChanCap
      BY <1>t, <2>1, <2>3, <3>1
    <3>4. QED
      BY <1>t, <1>3, <3>2, <3>3 DEF Enqueue
  <2>4. QED
    BY <1>3, <2>2, <2>3 DEF Enqueue
<1>4. ASSUME NEW p \in Procs, Truncate(p) PROVE Rest'
  <2>1. PICK w \in returned :
           \E k \in 0..(Len(remote[w]) - 1) : remote' = [remote EXCEPT ![w] = SubSeq(@, 1, k)]
    BY <1>4 DEF Truncate
  <2>2. PICK k \in 0..(Len(remote[w]) - 1) : remote' = [remote EXCEPT ![w] = SubSeq(@, 1, k)]
    BY <2>1
  <2>3. SubSeq(remote[w], 1, k) \in Seq(Chunks)
    <3>1. w \in Writers /\ remote[w] \in Seq(Chunks)
      BY <1>t DEF CommitTypes
    <3>2. QED
      BY <3>1, SubSeqProperties, LenProperties
  <2>4. remote' \in [Writers -> Seq(Chunks)]
    BY <1>t, <2>2, <2>3
  <2>5. QED
    BY <1>t, <1>4, <2>4 DEF Truncate
<1>5. ASSUME NEW w \in Writers, WorkerWrite(w) PROVE Rest'
  <2>1. /\ Head(queue[w]) \in Chunks
        /\ Tail(queue[w]) \in Seq(Chunks)
        /\ Len(Tail(queue[w])) <= Len(queue[w])
        /\ Len(queue[w]) \in Nat /\ Len(Tail(queue[w])) \in Nat
    BY <1>t, <1>5, HeadTailProperties DEF WorkerWrite
  <2>2. queue' \in [Writers -> Seq(Chunks)]
    BY <1>t, <1>5, <2>1 DEF WorkerWrite
  <2>3. \A v \in Writers : Len(queue'[v]) <= ChanCap
    BY <1>t, <1>5, <2>1 DEF WorkerWrite
  <2>4. local' \in [Writers -> Seq(Chunks)]
    <3>1. CASE UNCHANGED local
      BY <1>t, <3>1
    <3>2. CASE local' = [local EXCEPT ![w] = Append(@, Head(queue[w]))]
      <4>1. Append(local[w], Head(queue[w])) \in Seq(Chunks)
        BY <1>t, <2>1
      <4>2. QED
        BY <1>t, <3>2, <4>1
    <3>3. QED
      BY <1>5, <3>1, <3>2 DEF WorkerWrite
  <2>5. QED
    BY <1>t, <1>5, <2>2, <2>3, <2>4 DEF WorkerWrite
<1>6. ASSUME NEW w \in Writers, WorkerExit(w) PROVE Rest'
  BY <1>t, <1>6 DEF WorkerExit
<1>7. ASSUME NEW p \in Procs, Commit(p) PROVE Rest'
  BY <1>t, <1>7 DEF Commit
<1>8. ASSUME NEW p \in Procs, Drain(p) PROVE Rest'
  BY <1>t, <1>8 DEF Drain
<1>9. ASSUME NEW p \in Procs, CommitLocal(p) PROVE Rest'
  <2>1. localSt' = localSt \/ localSt' = [localSt EXCEPT ![cur[p]] = "committed"]
    BY <1>9 DEF CommitLocal, LocalCommit
  <2>2. localSt' \in [Writers -> IOStates]
    BY <1>t, <2>1 DEF IOStates
  <2>3. QED
    BY <1>t, <1>9, <2>2 DEF CommitLocal
<1>10. ASSUME NEW p \in Procs, CloseCh(p) PROVE Rest'
  <2>1. chClosed' \in [Writers -> BOOLEAN]
    BY <1>t, <1>10 DEF CloseCh, CommitTypes
  <2>2. QED
    BY <1>t, <1>10, <2>1 DEF CloseCh
<1>11. ASSUME NEW p \in Procs, CloseLocal(p) PROVE Rest'
  <2>1. localSt' \in [Writers -> IOStates]
    BY <1>t, <1>11 DEF CloseLocal, IOStates
  <2>2. QED
    BY <1>t, <1>11, <2>1 DEF CloseLocal
<1>12. CASE UNCHANGED <<verify, sent, remote, hasLocal, queue, chClosed, worker, local, localSt>>
  BY <1>t, <1>12
<1>13. QED
  BY <1>1, <1>2, <1>3, <1>4, <1>5, <1>6, <1>7, <1>8, <1>9, <1>10, <1>11, <1>12
  DEF Next, Running, Begin, Work, vars, Writer, PushFails, Add, RemoteCommit,
      RemoteCommitFails, Finish, Close, Abort, StoreClose, CloseRemote

(* Each step keeps the order: the owner alone sends, one chunk at a time,  *)
(* and the worker takes from the front.                                    *)
LEMMA InOrderNext == LocalInv /\ [Next]_vars => InOrder'
<1> SUFFICES ASSUME LocalInv, [Next]_vars PROVE InOrder'
  OBVIOUS
<1> USE NoneAssumption, BoundAssumption
    DEF chanVars, remoteVars, localVars, openVars, commitVars, Chunks
<1>t. CommitTypes /\ TypeOK /\ Sending /\ InOrder
  BY DEF LocalInv, CommitInv
<1>n. \A w \in Writers : queue[w] \in Seq(Nat) /\ local[w] \in Seq(Nat) /\ sent[w] \in Nat
  BY <1>t DEF TypeOK
<1>1. ASSUME NEW p \in Procs, Write(p) PROVE InOrder'
  <2>1. UNCHANGED <<queue, local>>
    BY <1>1 DEF Write
  <2>2. \A w \in Writers : sent[w] <= sent'[w] /\ sent'[w] \in Nat
    BY <1>t, <1>1 DEF Write, TypeOK
  <2>3. ASSUME NEW w \in Writers
        PROVE  /\ \A i \in DOMAIN local[w] : local[w][i] <= sent'[w]
               /\ \A i \in DOMAIN queue[w] : queue[w][i] <= sent'[w]
    <3>1. /\ \A i \in DOMAIN local[w] : local[w][i] \in Nat /\ local[w][i] <= sent[w]
          /\ \A i \in DOMAIN queue[w] : queue[w][i] \in Nat /\ queue[w][i] <= sent[w]
      BY <1>t, <1>n DEF InOrder
    <3>2. QED
      BY <1>n, <2>2, <3>1
  <2>4. QED
    BY <1>t, <2>1, <2>3 DEF InOrder
<1>2. ASSUME NEW p \in Procs, Enqueue(p) PROVE InOrder'
  <2>1. UNCHANGED <<sent, local>>
    BY <1>2 DEF Enqueue
  <2>2. CASE UNCHANGED queue
    BY <1>t, <2>1, <2>2 DEF InOrder
  <2>3. CASE queue' = [queue EXCEPT ![cur[p]] = Append(@, sent[cur[p]])]
    <3> DEFINE w == cur[p]
    <3>1. w \in Writers /\ \A v \in Writers \ {w} : queue'[v] = queue[v]
      BY <1>t, <1>2, <2>3 DEF CommitTypes, TypeOK, Enqueue
    <3>2. /\ \A i \in DOMAIN queue[w] : queue[w][i] < sent[w]
          /\ \A i \in DOMAIN local[w] : local[w][i] < sent[w]
      BY <1>t, <1>2 DEF Sending, Enqueue
    <3>3. queue'[w] = Append(queue[w], sent[w])
      BY <1>t, <2>3, <3>1 DEF TypeOK
    <3> HIDE DEF w
    <3>4. /\ Increasing(queue'[w])
          /\ \A i \in DOMAIN queue'[w] :
                IF i \in DOMAIN queue[w] THEN queue'[w][i] = queue[w][i]
                                         ELSE queue'[w][i] = sent[w]
      BY <1>t, <1>n, <3>1, <3>2, <3>3, AppendIncreasing DEF InOrder
    <3>5. \A i \in DOMAIN queue'[w] : queue'[w][i] <= sent[w]
      BY <1>t, <1>n, <3>1, <3>4 DEF InOrder
    <3>6. \A i \in DOMAIN local[w], j \in DOMAIN queue'[w] : local[w][i] < queue'[w][j]
      BY <1>t, <3>1, <3>2, <3>4 DEF InOrder
    <3>7. QED
      BY <1>t, <2>1, <3>1, <3>4, <3>5, <3>6 DEF InOrder
  <2>4. QED
    BY <1>2, <2>2, <2>3 DEF Enqueue
<1>3. ASSUME NEW w \in Writers, WorkerWrite(w) PROVE InOrder'
  <2>1. /\ queue[w] # <<>>
        /\ queue'[w] = Tail(queue[w])
        /\ \A v \in Writers \ {w} : queue'[v] = queue[v] /\ local'[v] = local[v]
        /\ local'[w] \in {local[w], Append(local[w], Head(queue[w]))}
        /\ UNCHANGED sent
    <3>1. CASE UNCHANGED local
      BY <1>t, <1>3, <3>1 DEF WorkerWrite, TypeOK
    <3>2. CASE local' = [local EXCEPT ![w] = Append(@, Head(queue[w]))]
      BY <1>t, <1>3, <3>2 DEF WorkerWrite, TypeOK
    <3>3. QED
      BY <1>3, <3>1, <3>2 DEF WorkerWrite
  <2> DEFINE q == queue[w]
             l == local[w]
  <2>2. /\ Increasing(q) /\ Increasing(l)
        /\ \A i \in DOMAIN l, j \in DOMAIN q : l[i] < q[j]
        /\ \A i \in DOMAIN l : l[i] <= sent[w]
        /\ \A i \in DOMAIN q : q[i] <= sent[w]
        /\ q \in Seq(Nat) /\ l \in Seq(Nat) /\ sent[w] \in Nat
    BY <1>t, <1>n DEF InOrder
  <2> HIDE DEF q, l
  <2>3. /\ Increasing(Tail(q))
        /\ Head(q) = q[1] /\ 1 \in DOMAIN q
        /\ \A i \in DOMAIN Tail(q) : i + 1 \in DOMAIN q /\ Tail(q)[i] = q[i + 1] /\ q[1] < Tail(q)[i]
    BY <2>1, <2>2, TailIncreasing DEF q
  <2>4. /\ Increasing(Append(l, Head(q)))
        /\ \A i \in DOMAIN Append(l, Head(q)) :
              IF i \in DOMAIN l THEN Append(l, Head(q))[i] = l[i] ELSE Append(l, Head(q))[i] = q[1]
    <3>1. Head(q) \in Nat /\ \A i \in DOMAIN l : l[i] < Head(q)
      BY <2>2, <2>3
    <3>2. QED
      BY <2>2, <2>3, <3>1, AppendIncreasing
  <2>5. /\ Increasing(local'[w]) /\ Increasing(queue'[w])
        /\ \A i \in DOMAIN local'[w], j \in DOMAIN queue'[w] : local'[w][i] < queue'[w][j]
        /\ \A i \in DOMAIN local'[w] : local'[w][i] <= sent[w]
        /\ \A i \in DOMAIN queue'[w] : queue'[w][i] <= sent[w]
    <3>1. queue'[w] = Tail(q)
      BY <2>1 DEF q
    <3>2. CASE local'[w] = l
      BY <2>2, <2>3, <3>1, <3>2
    <3>3. CASE local'[w] = Append(l, Head(q))
      <4>1. \A i \in DOMAIN local'[w] : (i \in DOMAIN l /\ local'[w][i] = l[i]) \/ local'[w][i] = q[1]
        BY <2>4, <3>3
      <4>2. \A i \in DOMAIN local'[w], j \in DOMAIN queue'[w] : local'[w][i] < queue'[w][j]
        BY <2>2, <2>3, <3>1, <4>1
      <4>3. \A i \in DOMAIN local'[w] : local'[w][i] <= sent[w]
        BY <2>2, <2>3, <4>1
      <4>4. \A j \in DOMAIN queue'[w] : queue'[w][j] <= sent[w]
        BY <2>2, <2>3, <3>1
      <4>5. Increasing(local'[w]) /\ Increasing(queue'[w])
        BY <2>3, <2>4, <3>1, <3>3
      <4>6. QED
        BY <4>2, <4>3, <4>4, <4>5
    <3>4. QED
      BY <2>1, <3>2, <3>3 DEF l, q
  <2>6. QED
    BY <1>t, <2>1, <2>5 DEF InOrder
<1>4. CASE UNCHANGED <<local, queue, sent>>
  BY <1>t, <1>4 DEF InOrder
<1>5. QED
  BY <1>1, <1>2, <1>3, <1>4
  DEF Next, Running, Begin, Work, vars, Writer, Push, PushFails, Add, Truncate,
      Commit, RemoteCommit, RemoteCommitFails, Drain, CommitLocal, Finish, Close,
      Abort, StoreClose, CloseCh, CloseLocal, CloseRemote, WorkerExit

(* Each step keeps the chunk that is about to be sent the newest. *)
LEMMA SendingNext == LocalInv /\ [Next]_vars => Sending'
<1> SUFFICES ASSUME LocalInv, [Next]_vars PROVE Sending'
  OBVIOUS
<1> USE NoneAssumption, BoundAssumption
    DEF chanVars, remoteVars, localVars, openVars, commitVars, Chunks, Goto, Call, Return
<1>t. CommitTypes /\ TypeOK /\ Sending /\ InOrder /\ Opening
  BY DEF LocalInv, CommitInv
<1>n. \A w \in Writers : queue[w] \in Seq(Nat) /\ local[w] \in Seq(Nat) /\ sent[w] \in Nat
  BY <1>t DEF TypeOK
<1> DEFINE Newest(w) == /\ sent[w] # 0
                        /\ \A i \in DOMAIN queue[w] : queue[w][i] < sent[w]
                        /\ \A i \in DOMAIN local[w] : local[w][i] < sent[w]
<1>1. ASSUME NEW p \in Procs, Write(p) PROVE Sending'
  <2>1. PICK w \in returned :
           /\ owner[w] = p
           /\ sent' = [sent EXCEPT ![w] = @ + 1]
           /\ \/ pc' = [pc EXCEPT ![p] = "enqueue"] /\ cur' = [cur EXCEPT ![p] = w]
              \/ UNCHANGED <<pc, cur>>
    BY <1>1 DEF Write
  <2>2. /\ pc[p] = "idle"
        /\ UNCHANGED <<queue, local, owner, returned>>
        /\ w \in Writers
    BY <1>t, <1>1 DEF Write, CommitTypes
  <2>3. Newest(w)'
    BY <1>t, <1>n, <2>1, <2>2 DEF InOrder, TypeOK
  <2>4. SUFFICES ASSUME NEW q \in Procs, pc'[q] = "enqueue"
                 PROVE  cur'[q] \in returned' /\ owner'[cur'[q]] = q /\ Newest(cur[q])'
    BY DEF Sending
  <2>5. CASE q = p
    BY <1>t, <2>1, <2>2, <2>3, <2>4, <2>5 DEF CommitTypes
  <2>6. CASE q # p
    <3>1. pc[q] = "enqueue" /\ cur'[q] = cur[q]
      BY <1>t, <2>1, <2>4, <2>6 DEF CommitTypes
    <3>2. cur[q] # w
      BY <1>t, <2>1, <2>6, <3>1 DEF Sending
    <3>3. sent'[cur[q]] = sent[cur[q]]
      BY <1>t, <2>1, <3>1, <3>2 DEF TypeOK, CommitTypes
    <3>4. QED
      BY <1>t, <2>2, <3>1, <3>3 DEF Sending
  <2>7. QED
    BY <2>5, <2>6
<1>2. ASSUME NEW p \in Procs, Enqueue(p) PROVE Sending'
  <2>1. /\ pc[p] = "enqueue"
        /\ UNCHANGED <<sent, local, owner, returned>>
        /\ pc' \in {[pc EXCEPT ![p] = "panic"], [pc EXCEPT ![p] = "idle"]}
        /\ cur' \in {cur, [cur EXCEPT ![p] = None]}
        /\ queue' \in {queue, [queue EXCEPT ![cur[p]] = Append(@, sent[cur[p]])]}
    BY <1>2 DEF Enqueue
  <2>2. SUFFICES ASSUME NEW q \in Procs, pc'[q] = "enqueue"
                 PROVE  cur'[q] \in returned' /\ owner'[cur'[q]] = q /\ Newest(cur[q])'
    BY DEF Sending
  <2>3. q # p /\ pc[q] = "enqueue" /\ cur'[q] = cur[q]
    BY <1>t, <2>1, <2>2 DEF CommitTypes
  <2>4. cur[q] # cur[p] /\ cur[q] \in Writers
    BY <1>t, <2>1, <2>3 DEF Sending, CommitTypes
  <2>5. queue'[cur[q]] = queue[cur[q]]
    BY <1>t, <2>1, <2>4 DEF TypeOK
  <2>6. QED
    BY <1>t, <2>1, <2>3, <2>5 DEF Sending
<1>3. ASSUME NEW w \in Writers, WorkerWrite(w) PROVE Sending'
  <2>1. /\ queue[w] # <<>>
        /\ queue'[w] = Tail(queue[w])
        /\ \A v \in Writers \ {w} : queue'[v] = queue[v] /\ local'[v] = local[v]
        /\ local'[w] \in {local[w], Append(local[w], Head(queue[w]))}
        /\ UNCHANGED <<sent, owner, returned, pc, cur>>
    <3>1. CASE UNCHANGED local
      BY <1>t, <1>3, <3>1 DEF WorkerWrite, TypeOK
    <3>2. CASE local' = [local EXCEPT ![w] = Append(@, Head(queue[w]))]
      BY <1>t, <1>3, <3>2 DEF WorkerWrite, TypeOK
    <3>3. QED
      BY <1>3, <3>1, <3>2 DEF WorkerWrite
  <2>2. ASSUME Newest(w) PROVE Newest(w)'
    <3> DEFINE q == queue[w]
               l == local[w]
    <3>1. q \in Seq(Nat) /\ l \in Seq(Nat) /\ Increasing(q) /\ Increasing(l)
      BY <1>t, <1>n DEF InOrder
    <3>2. /\ \A i \in DOMAIN l, j \in DOMAIN q : l[i] < q[j]
          /\ \A i \in DOMAIN q : q[i] < sent[w]
          /\ \A i \in DOMAIN l : l[i] < sent[w]
      BY <1>t, <2>2 DEF InOrder
    <3>3. q # <<>> /\ queue'[w] = Tail(q) /\ local'[w] \in {l, Append(l, Head(q))}
      BY <2>1
    <3> HIDE DEF q, l
    <3>4. /\ Head(q) = q[1] /\ 1 \in DOMAIN q
          /\ \A i \in DOMAIN Tail(q) : i + 1 \in DOMAIN q /\ Tail(q)[i] = q[i + 1]
      BY <3>1, <3>3, TailIncreasing
    <3>5. /\ \A i \in DOMAIN Append(l, Head(q)) :
                IF i \in DOMAIN l THEN Append(l, Head(q))[i] = l[i] ELSE Append(l, Head(q))[i] = q[1]
      <4>1. Head(q) \in Nat /\ \A i \in DOMAIN l : l[i] < Head(q)
        BY <3>1, <3>2, <3>4
      <4>2. QED
        BY <3>1, <3>4, <4>1, AppendIncreasing
    <3>6. \A i \in DOMAIN queue'[w] : queue'[w][i] < sent[w]
      BY <3>2, <3>3, <3>4
    <3>7. \A i \in DOMAIN local'[w] : local'[w][i] < sent[w]
      BY <3>2, <3>3, <3>4, <3>5
    <3>8. QED
      BY <2>1, <2>2, <3>6, <3>7
  <2>3. SUFFICES ASSUME NEW q \in Procs, pc[q] = "enqueue"
                 PROVE  Newest(cur[q])'
    BY <1>t, <2>1 DEF Sending
  <2>4. Newest(cur[q]) /\ cur[q] \in Writers
    BY <1>t, <2>3 DEF Sending, CommitTypes
  <2>5. CASE cur[q] = w
    BY <2>1, <2>2, <2>4, <2>5
  <2>6. CASE cur[q] # w
    BY <2>1, <2>4, <2>6
  <2>7. QED
    BY <2>5, <2>6
<1>4. ASSUME UNCHANGED <<queue, local, sent>>, returned \subseteq returned',
             \A q \in Procs : pc'[q] = "enqueue" => pc[q] = "enqueue" /\ cur'[q] = cur[q],
             \A w \in returned : owner'[w] = owner[w]
      PROVE  Sending'
  BY <1>t, <1>4 DEF Sending
<1>5. ASSUME NEW p \in Procs, Writer(p) PROVE Sending'
  BY <1>t, <1>4, <1>5 DEF Writer, CommitTypes, Opening
<1>6. ASSUME NEW p \in Procs, PushFails(p) PROVE Sending'
  BY <1>t, <1>4, <1>6 DEF PushFails, CommitTypes, Opening
<1>7. ASSUME NEW p \in Procs, Push(p) \/ Add(p) PROVE Sending'
  BY <1>t, <1>4, <1>7 DEF Push, Add, CommitTypes
<1>8. ASSUME NEW p \in Procs,
             Commit(p) \/ RemoteCommit(p) \/ RemoteCommitFails(p) \/ Drain(p) \/ CommitLocal(p) \/ Finish(p)
      PROVE  Sending'
  BY <1>t, <1>4, <1>8
  DEF Commit, RemoteCommit, RemoteCommitFails, Drain, CommitLocal, Finish, CommitTypes
<1>9. ASSUME NEW p \in Procs, Close(p) \/ Abort(p) \/ StoreClose(p) \/ CloseCh(p) \/ CloseLocal(p) \/ CloseRemote(p)
      PROVE  Sending'
  BY <1>t, <1>4, <1>9
  DEF Close, Abort, StoreClose, CloseCh, CloseLocal, CloseRemote, CommitTypes
<1>10. CASE UNCHANGED <<queue, local, sent, returned, owner, pc, cur>>
  BY <1>t, <1>10 DEF Sending
<1>11. QED
  BY <1>1, <1>2, <1>3, <1>5, <1>6, <1>7, <1>8, <1>9, <1>10
  DEF Next, Running, Begin, Work, vars, Truncate, WorkerExit

(* A local commit is made, or fails, after the worker has gone and the     *)
(* remote commit has succeeded.                                            *)
LEMMA CommitLocalSteps ==
    ASSUME LocalInv, NEW p \in Procs, CommitLocal(p)
    PROVE  /\ cur[p] \in returned /\ committed[cur[p]] = TRUE /\ remoteSt[cur[p]] = "committed"
           /\ worker[cur[p]] = FALSE
           /\ \A q \in Procs : ~(cur[q] = cur[p] /\ pc[q] = "remoteCommit")
           /\ \A w \in Writers \ {cur[p]} : localSt'[w] = localSt[w]
           /\ \/ localSt' = localSt
              \/ /\ localSt'[cur[p]] = "committed"
                 /\ verify[cur[p]] => local[cur[p]] = remote[cur[p]]
<1>1. pc[p] = "waitDrain" /\ cur[p] \in Writers
  BY DEF CommitLocal, LocalInv, CommitInv, CommitTypes
<1>2. Committing(p, cur[p])
  BY <1>1 DEF Committing
<1>3. /\ cur[p] \in returned /\ committed[cur[p]] = TRUE /\ remoteSt[cur[p]] = "committed"
      /\ \A q \in Procs : ~(cur[q] = cur[p] /\ pc[q] = "remoteCommit")
  <2>1. \A q \in Procs : Committing(q, cur[p]) => q = p
    BY <1>1, <1>2 DEF LocalInv, CommitInv, Claimed
  <2>2. QED
    BY <1>1, <1>2, <2>1 DEF LocalInv, CommitInv, Claimed, Committing
<1>4. worker[cur[p]] = FALSE
  BY <1>1 DEF CommitLocal, LocalInv, TypeOK
<1>5. \/ localSt' = localSt
      \/ /\ localSt' = [localSt EXCEPT ![cur[p]] = "committed"]
         /\ verify[cur[p]] => local[cur[p]] = remote[cur[p]]
  BY DEF CommitLocal, LocalCommit
<1>6. QED
  BY <1>1, <1>3, <1>4, <1>5 DEF LocalInv, TypeOK

(* Each step keeps a finished local writer without a worker. *)
LEMMA DrainedNext == LocalInv /\ [Next]_vars => Drained'
<1> SUFFICES ASSUME LocalInv, [Next]_vars PROVE Drained'
  OBVIOUS
<1> USE NoneAssumption
    DEF chanVars, remoteVars, localVars, openVars, commitVars, Goto, Call, Return
<1>t. CommitTypes /\ TypeOK /\ Drained /\ Opening /\ Claimed
  BY DEF LocalInv, CommitInv
<1>1. ASSUME NEW p \in Procs, Push(p) PROVE Drained'
  <2>1. cur[p] \in Writers /\ cur[p] \notin returned
    BY <1>t, <1>1 DEF Push, Opening
  <2>2. /\ localSt'[cur[p]] \in {"open", "none"}
        /\ \A w \in Writers \ {cur[p]} : /\ localSt'[w] = localSt[w] /\ worker'[w] = worker[w]
                                         /\ remoteSt'[w] = remoteSt[w]
    BY <1>t, <1>1, <2>1 DEF Push, NewContentWriter, TypeOK
  <2>3. \A q \in Procs : pc'[q] = "remoteCommit" => pc[q] = "remoteCommit"
    BY <1>t, <1>1 DEF Push, CommitTypes
  <2>4. UNCHANGED <<returned, committed, cur>>
    BY <1>1 DEF Push
  <2>5. QED
    BY <1>t, <2>2, <2>3, <2>4 DEF Drained
<1>2. ASSUME NEW p \in Procs, CommitLocal(p) PROVE Drained'
  <2>1. UNCHANGED <<returned, committed, remoteSt, worker, cur>>
    BY <1>2 DEF CommitLocal
  <2>2. \A q \in Procs : pc'[q] = "remoteCommit" => pc[q] = "remoteCommit"
    BY <1>t, <1>2 DEF CommitLocal, CommitTypes
  <2>3. /\ cur[p] \in returned /\ committed[cur[p]] = TRUE /\ remoteSt[cur[p]] = "committed"
        /\ worker[cur[p]] = FALSE
        /\ \A q \in Procs : ~(cur[q] = cur[p] /\ pc[q] = "remoteCommit")
        /\ \A w \in Writers \ {cur[p]} : localSt'[w] = localSt[w]
    BY <1>2, CommitLocalSteps
  <2>4. QED
    BY <1>t, <2>1, <2>2, <2>3 DEF Drained
<1>3. ASSUME NEW p \in Procs, CloseLocal(p) PROVE Drained'
  <2>1. worker[cur[p]] = FALSE /\ cur[p] \in Writers
    BY <1>t, <1>3 DEF CloseLocal, TypeOK, CommitTypes
  <2>2. \A q \in Procs : pc'[q] = "remoteCommit" => pc[q] = "remoteCommit"
    BY <1>t, <1>3 DEF CloseLocal, CommitTypes
  <2>3. \A w \in Writers : /\ localSt'[w] = "committed" => localSt[w] = "committed"
                           /\ localSt'[w] = "closed" => localSt[w] = "closed" \/ w = cur[p]
    BY <1>t, <1>3, <2>1 DEF CloseLocal, TypeOK
  <2>4. UNCHANGED <<returned, committed, remoteSt, worker, cur>>
    BY <1>3 DEF CloseLocal
  <2>5. QED
    BY <1>t, <2>1, <2>2, <2>3, <2>4 DEF Drained
<1>4. ASSUME NEW w \in Writers, WorkerExit(w) PROVE Drained'
  BY <1>t, <1>4 DEF WorkerExit, Drained, TypeOK
<1>5. ASSUME NEW p \in Procs, Commit(p) PROVE Drained'
  <2>1. PICK w \in returned : /\ committed[w] = FALSE
                              /\ committed' = [committed EXCEPT ![w] = TRUE]
                              /\ Call(p, w, "remoteCommit")
    BY <1>t, <1>5 DEF Commit, TypeOK
  <2>2. w \in Writers /\ localSt[w] # "committed"
    BY <1>t, <2>1 DEF Drained, CommitTypes
  <2>3. UNCHANGED <<returned, remoteSt, worker, localSt>>
    BY <1>5 DEF Commit
  <2>4. QED
    BY <1>t, <2>1, <2>2, <2>3 DEF Drained, CommitTypes
<1>6. ASSUME NEW p \in Procs, RemoteCommit(p) PROVE Drained'
  BY <1>t, <1>6 DEF RemoteCommit, Drained, CommitTypes
<1>7. ASSUME NEW p \in Procs, RemoteCommitFails(p) PROVE Drained'
  <2>1. cur[p] \in Writers /\ pc[p] = "remoteCommit" /\ localSt[cur[p]] # "committed"
    BY <1>t, <1>7 DEF RemoteCommitFails, Drained, CommitTypes
  <2>2. QED
    BY <1>t, <1>7, <2>1 DEF RemoteCommitFails, Drained, CommitTypes
<1>8. ASSUME NEW p \in Procs, CloseRemote(p) PROVE Drained'
  <2>1. \A w \in Writers : remoteSt[w] = "committed" => remoteSt'[w] = "committed"
    BY <1>t, <1>8 DEF CloseRemote, CommitTypes
  <2>2. \A q \in Procs : pc'[q] = "remoteCommit" => pc[q] = "remoteCommit" /\ cur'[q] = cur[q]
    BY <1>t, <1>8 DEF CloseRemote, CommitTypes
  <2>3. UNCHANGED <<returned, committed, worker, localSt>>
    BY <1>8 DEF CloseRemote
  <2>4. QED
    BY <1>t, <2>1, <2>2, <2>3 DEF Drained
<1>9. ASSUME UNCHANGED <<localSt, worker, committed, remoteSt>>, returned \subseteq returned',
             \A q \in Procs : pc'[q] = "remoteCommit" => pc[q] = "remoteCommit" /\ cur'[q] = cur[q]
      PROVE  Drained'
  BY <1>t, <1>9 DEF Drained
<1>10. ASSUME NEW p \in Procs, Writer(p) \/ PushFails(p) \/ Add(p) PROVE Drained'
  BY <1>t, <1>9, <1>10 DEF Writer, PushFails, Add, CommitTypes
<1>11. ASSUME NEW p \in Procs, Write(p) \/ Enqueue(p) \/ Truncate(p) PROVE Drained'
  BY <1>t, <1>9, <1>11 DEF Write, Enqueue, Truncate, CommitTypes
<1>12. ASSUME NEW p \in Procs, Drain(p) \/ Finish(p) PROVE Drained'
  BY <1>t, <1>9, <1>12 DEF Drain, Finish, CommitTypes
<1>13. ASSUME NEW p \in Procs, Close(p) \/ Abort(p) \/ StoreClose(p) \/ CloseCh(p) PROVE Drained'
  BY <1>t, <1>9, <1>13 DEF Close, Abort, StoreClose, CloseCh, CommitTypes
<1>14. CASE UNCHANGED <<localSt, worker, committed, remoteSt, returned, pc, cur>>
  BY <1>t, <1>14 DEF Drained
<1>15. QED
  BY <1>1, <1>2, <1>3, <1>4, <1>5, <1>6, <1>7, <1>8, <1>10, <1>11, <1>12, <1>13, <1>14
  DEF Next, Running, Begin, Work, vars, WorkerWrite

(* A local writer that is committed or closed is not written to. *)
LEMMA FinishedUntouched ==
    ASSUME LocalInv, [Next]_vars, NEW w \in Writers,
           localSt[w] \in {"committed", "closed"}
    PROVE  local'[w] = local[w]
<1>1. worker[w] = FALSE
  BY DEF LocalInv, Drained
<1>2. ASSUME NEW v \in Writers, WorkerWrite(v) PROVE local'[w] = local[w]
  <2>1. v # w
    BY <1>1, <1>2 DEF WorkerWrite
  <2>2. QED
    BY <1>2, <2>1 DEF WorkerWrite, LocalInv, TypeOK
<1>3. CASE UNCHANGED local
  BY <1>3
<1>4. QED
  BY <1>2, <1>3
  DEF Next, Running, Begin, Work, vars, Writer, Push, PushFails, Add, Write, Enqueue,
      Truncate, Commit, RemoteCommit, RemoteCommitFails, Drain, CommitLocal, Finish,
      Close, Abort, StoreClose, CloseCh, CloseLocal, CloseRemote, WorkerExit, localVars

(* Each step keeps a verified local copy equal to the blob in the          *)
(* registry: neither of them changes any more, nor does the digest.        *)
LEMMA FaithfulNext == LocalInv /\ [Next]_vars => CacheFaithful'
<1> SUFFICES ASSUME LocalInv, [Next]_vars, NEW w \in Writers,
                    localSt'[w] = "committed", verify'[w]
             PROVE  local'[w] = remote'[w]
  BY DEF CacheFaithful
<1> USE DEF chanVars, remoteVars, localVars, openVars, commitVars
<1>t. CommitTypes /\ TypeOK /\ Drained /\ CacheFaithful
  BY DEF LocalInv, CommitInv
<1>1. CASE localSt[w] = "committed"
  <2>1. local'[w] = local[w]
    BY <1>1, FinishedUntouched
  <2>2. remoteSt[w] = "committed" /\ committed[w] = TRUE
    BY <1>t, <1>1 DEF Drained
  <2>3. remote'[w] = remote[w]
    <3>1. ASSUME NEW p \in Procs, Write(p) \/ Truncate(p) PROVE remote'[w] = remote[w]
      BY <1>t, <2>2, <3>1 DEF Write, Truncate, TypeOK
    <3>2. CASE UNCHANGED remote
      BY <3>2
    <3>3. QED
      BY <3>1, <3>2
      DEF Next, Running, Begin, Work, vars, Writer, Push, PushFails, Add, Enqueue,
          Commit, RemoteCommit, RemoteCommitFails, Drain, CommitLocal, Finish, Close,
          Abort, StoreClose, CloseCh, CloseLocal, CloseRemote, WorkerWrite, WorkerExit
  <2>4. verify[w]
    <3>1. ASSUME NEW p \in Procs, Commit(p) PROVE verify'[w] = verify[w]
      BY <1>t, <2>2, <3>1 DEF Commit, TypeOK
    <3>2. CASE UNCHANGED verify
      BY <3>2
    <3>3. verify'[w] = verify[w]
      BY <3>1, <3>2
      DEF Next, Running, Begin, Work, vars, Writer, Push, PushFails, Add, Write, Enqueue,
          Truncate, RemoteCommit, RemoteCommitFails, Drain, CommitLocal, Finish, Close,
          Abort, StoreClose, CloseCh, CloseLocal, CloseRemote, WorkerWrite, WorkerExit
    <3>4. QED
      BY <3>3
  <2>5. QED
    BY <1>t, <1>1, <2>1, <2>3, <2>4 DEF CacheFaithful
<1>2. CASE localSt[w] # "committed"
  <2>1. PICK p \in Procs : CommitLocal(p)
    <3>1. ASSUME NEW p \in Procs, Push(p) PROVE FALSE
      BY <1>t, <1>2, <3>1 DEF Push, NewContentWriter, TypeOK
    <3>2. ASSUME NEW p \in Procs, CloseLocal(p) PROVE FALSE
      BY <1>t, <1>2, <3>2 DEF CloseLocal, TypeOK
    <3>3. ~(UNCHANGED localSt)
      BY <1>2
    <3>4. QED
      BY <3>1, <3>2, <3>3
      DEF Next, Running, Begin, Work, vars, Writer, PushFails, Add, Write, Enqueue,
          Truncate, Commit, RemoteCommit, RemoteCommitFails, Drain, Finish, Close,
          Abort, StoreClose, CloseCh, CloseRemote, WorkerWrite, WorkerExit
  <2>2. w = cur[p]
    BY <1>2, <2>1, CommitLocalSteps
  <2>3. UNCHANGED <<local, remote, verify>>
    BY <2>1 DEF CommitLocal
  <2>4. QED
    BY <1>2, <2>1, <2>2, <2>3, CommitLocalSteps
<1>3. QED
  BY <1>1, <1>2

LEMMA LocalInvariant == Spec => []LocalInv
<1>1. LocalInv /\ [Next]_vars => LocalInv'
  BY CommitNext, IngestTypeNext, InOrderNext, SendingNext, DrainedNext, FaithfulNext DEF LocalInv
<1>2. QED
  BY <1>1, LocalInit, PTL DEF Spec

(* The local copy of a pushed blob has its chunks in the order of writing, *)
(* and once it is committed with a digest it is what the registry has,     *)
(* whatever was dropped, lost or truncated (contentWriter.Write,           *)
(* localWorker, Commit, Close).                                            *)
THEOREM LocalFaithfulAlways == Spec => []LocalFaithful
<1>1. LocalInv => LocalFaithful
  BY DEF LocalInv, LocalFaithful, LocalInOrder, InOrder, Increasing
<1>2. QED
  BY <1>1, LocalInvariant, PTL

(* Commit and Close wait for the worker before they finish the local       *)
(* writer: nothing is written to it afterwards (localWg.Wait).             *)
THEOREM NothingAfterLocalCommit == Spec => NoWriteAfterLocalCommit
<1>1. LocalInv /\ [Next]_vars =>
        [\A w \in Writers :
            localSt[w] \in {"committed", "closed"} => local'[w] = local[w]]_vars
  BY FinishedUntouched
<1>2. QED
  BY <1>1, LocalInvariant, PTL DEF Spec, NoWriteAfterLocalCommit

-----------------------------------------------------------------------------

(* What a lookup has found is something that has been there since it began. *)
Versions == Nat \cup {Remote}
Entries == [ver : Versions, left : Nat, since : SUBSET Versions]
CacheInv ==
    /\ rrLocal \in Nat /\ rrLast \in Nat /\ rrCache \in Entries
    /\ DOMAIN rrAsk = Askers /\ rrGot \in [Askers -> Versions] /\ rrSeen \in [Askers -> SUBSET Versions]
    /\ \A a \in Askers : rrAsk[a] = "remote" => Remote \in rrSeen[a]
    /\ \A a \in Askers : rrAsk[a] = "set" => rrGot[a] \in rrSeen[a]
    /\ CacheIsRegular

(* The local writer has what was taken from the stream, and on the way to  *)
(* the commit a sound stream is taken to its end.                          *)
TeeInv ==
    /\ rdPos \in 0..BlobSize /\ rdTee \in Nat
    /\ rdPc \in {"new", "fetch"} => rdPos = 0 /\ rdTee = 0
    /\ rdPc \in {"read", "drain", "commit", "closed"} /\ rdWriter /\ ~rdBroken => rdTee = rdPos
    /\ rdPc \in {"commit", "closed"} /\ ~rdFast /\ ~rdBroken => rdPos = BlobSize

(* Who dials an entry holds its lock, so nobody else does; an entry that   *)
(* was dialled is connected.                                               *)
PoolInv ==
    /\ cpMade \in 0..MaxEntries /\ cpMap \in 0..cpMade
    /\ cpReg \subseteq 1..MaxEntries
    /\ DOMAIN cpLock = 1..MaxEntries /\ DOMAIN cpPc = Getters /\ DOMAIN cpAt = Getters
    /\ cpDials \in [1..MaxEntries -> Nat]
    /\ \A g \in Getters : cpPc[g] \in {"lock", "dial"} => cpAt[g] \in 1..cpMade
    /\ \A g \in Getters : cpPc[g] = "dial" => cpLock[cpAt[g]] = g /\ cpAt[g] \notin cpReg
    /\ \A e \in 1..MaxEntries : cpDials[e] = 0 \/ (e \in cpReg /\ cpDials[e] = 1)
    /\ NoDeadEntry

Labelled == Updaters \cup {Owner}

(* What is uploaded is what was written, but for the chunk that is just    *)
(* being counted; a commit has seen a whole upload, which stays.           *)
UploadInv ==
    /\ b2Body \in Nat /\ b2Sent \in Nat /\ b2Obj \in [len : Nat, labels : SUBSET Labelled]
    /\ b2Body = IF b2Own = "count" THEN b2Sent + 1 ELSE b2Sent
    /\ b2Live => b2Up = "ok" /\ b2Obj.len = b2Body
    /\ b2Committed \/ b2Own \in {"stat", "copy"} => b2Up = "ok" /\ b2Body = Want

(* Who has read the metadata knows every label that was set, but for those *)
(* set since and those that another one has written over.                  *)
LabelsInv ==
    /\ b2Obj \in [len : Nat, labels : SUBSET Labelled] /\ b2Meta \in [Labelled -> SUBSET Labelled]
    /\ DOMAIN b2After = Labelled /\ LabelsSurvive
    /\ \A p \in Labelled : b2Acked \subseteq b2Meta[p] \cup b2After[p] \cup b2Overtaken
ReadsInv == CacheInv /\ TeeInv /\ PoolInv /\ UploadInv /\ LabelsInv

-----------------------------------------------------------------------------
LEMMA NoEntryTyped == NoEntry \in Entries /\ NoEntry.left = 0
BY DEF NoEntry, Entries, Versions

LEMMA CacheInit == RrInit => CacheInv /\ TeeInv
<1>1. RrInit => CacheInv
  <2> SUFFICES ASSUME RrInit PROVE CacheInv
    OBVIOUS
  <2>1. rrCache \in Entries /\ rrCache.left = 0
    BY NoEntryTyped DEF RrInit
  <2>2. /\ rrLocal \in Nat /\ rrLast \in Nat /\ rrAsk = [a \in Askers |-> "idle"]
        /\ rrGot \in [Askers -> Versions] /\ rrSeen \in [Askers -> SUBSET Versions]
    BY DEF RrInit, Versions
  <2>3. QED
    BY <2>1, <2>2 DEF CacheInv, CacheIsRegular, Cached
<1>2. RrInit => TeeInv
  BY ReadsAssumption DEF RrInit, TeeInv
<1>3. QED
  BY <1>1, <1>2

LEMMA TruthTyped == rrLocal \in Nat => Truth \in Versions
BY DEF Truth, Versions

(* A change that is announced makes what is there afterwards the only      *)
(* value that an entry may still have; one that is not adds it.  Lookups   *)
(* under way may have either.                                              *)
LEMMA ChangeKeeps ==
    ASSUME CacheInv, NEW v \in Nat, NEW announced \in BOOLEAN, Change(v, announced), rrLast' \in Nat
    PROVE  CacheInv'
<1>1. /\ rrLocal' = v /\ rrChange' = (rrChange \/ announced) /\ UNCHANGED <<rrAsk, rrGot>>
      /\ rrSeen' = [a \in Askers |-> IF rrAsk[a] \in {"remote", "set"} THEN rrSeen[a] \cup {Truth'} ELSE rrSeen[a]]
      /\ rrCache' = [rrCache EXCEPT !.since = CASE ~Cached -> {} [] announced -> {Truth'} [] OTHER -> rrCache.since \cup {Truth'}]
  BY DEF Change
<1>2. Truth' \in Versions
  BY <1>1 DEF Truth, Versions
<1>3. rrCache \in Entries /\ rrCache.since \subseteq Versions
  BY DEF CacheInv, Entries
<1>4. rrCache' \in Entries /\ rrCache'.left = rrCache.left /\ rrCache'.ver = rrCache.ver
  <2> DEFINE s == CASE ~Cached -> {} [] announced -> {Truth'} [] OTHER -> rrCache.since \cup {Truth'}
  <2>1. s \subseteq Versions
    BY <1>2, <1>3
  <2>2. rrCache' = [rrCache EXCEPT !.since = s]
    BY <1>1
  <2> HIDE DEF s
  <2>3. QED
    BY <1>3, <2>1, <2>2 DEF Entries
<1>5. Cached /\ ~announced => rrCache'.since = rrCache.since \cup {Truth'}
  BY <1>1, <1>3 DEF Entries
<1>6. CacheIsRegular'
  BY <1>1, <1>4, <1>5 DEF CacheInv, CacheIsRegular, Cached
<1>7. rrSeen' \in [Askers -> SUBSET Versions] /\ \A a \in Askers : rrSeen[a] \subseteq rrSeen'[a]
  BY <1>1, <1>2 DEF CacheInv
<1>8. \A a \in Askers : (rrAsk'[a] = "remote" => Remote \in rrSeen'[a]) /\ (rrAsk'[a] = "set" => rrGot'[a] \in rrSeen'[a])
  BY <1>1, <1>7 DEF CacheInv
<1>9. QED
  BY <1>1, <1>4, <1>6, <1>7, <1>8 DEF CacheInv

LEMMA CacheStep ==
    ASSUME CacheInv, RrNext
    PROVE  CacheInv'
<1>0. /\ rrLocal \in Nat /\ rrLast \in Nat /\ rrCache \in Entries
      /\ DOMAIN rrAsk = Askers /\ rrGot \in [Askers -> Versions] /\ rrSeen \in [Askers -> SUBSET Versions]
      /\ \A a \in Askers : rrAsk[a] = "remote" => Remote \in rrSeen[a]
      /\ \A a \in Askers : rrAsk[a] = "set" => rrGot[a] \in rrSeen[a]
      /\ CacheIsRegular
  BY DEF CacheInv
<1>1. ASSUME NEW a \in Askers, InfoCached(a) PROVE CacheInv'
  BY <1>0, <1>1 DEF InfoCached, CacheInv, CacheIsRegular, Cached
<1>2. ASSUME NEW a \in Askers, InfoLocal(a) PROVE CacheInv'
  <2>1. UNCHANGED <<rrLocal, rrLast, rrCache, rrChange>>
    BY <1>2 DEF InfoLocal
  <2>2. \/ /\ rrAsk' = [rrAsk EXCEPT ![a] = "set"] /\ rrGot' = [rrGot EXCEPT ![a] = rrLocal]
           /\ rrSeen' = [rrSeen EXCEPT ![a] = {rrLocal}]
        \/ /\ rrAsk' = [rrAsk EXCEPT ![a] = "remote"] /\ rrGot' = rrGot
           /\ rrSeen' = [rrSeen EXCEPT ![a] = {Truth, Remote}]
    BY <1>2 DEF InfoLocal
  <2>3. CacheIsRegular'
    BY <1>0, <2>1 DEF CacheIsRegular, Cached
  <2>4. /\ DOMAIN rrAsk' = Askers /\ rrGot' \in [Askers -> Versions] /\ rrSeen' \in [Askers -> SUBSET Versions]
    <3>1. rrLocal \in Versions /\ Remote \in Versions /\ Truth \in Versions
      BY <1>0, TruthTyped DEF Versions
    <3>2. QED
      BY <1>0, <2>2, <3>1
  <2>5. ASSUME NEW b \in Askers
        PROVE  (rrAsk'[b] = "remote" => Remote \in rrSeen'[b]) /\ (rrAsk'[b] = "set" => rrGot'[b] \in rrSeen'[b])
    BY <1>0, <2>2
  <2>6. QED
    BY <1>0, <2>1, <2>3, <2>4, <2>5 DEF CacheInv
<1>3. ASSUME NEW a \in Askers, InfoRemote(a) PROVE CacheInv'
  <2>1. UNCHANGED <<rrLocal, rrLast, rrCache, rrSeen, rrChange>> /\ rrAsk[a] = "remote"
    BY <1>3 DEF InfoRemote
  <2>2. \/ rrAsk' = [rrAsk EXCEPT ![a] = "set"] /\ rrGot' = [rrGot EXCEPT ![a] = Remote]
        \/ (rrAsk' = rrAsk \/ rrAsk' = [rrAsk EXCEPT ![a] = "failed"]) /\ rrGot' = rrGot
    BY <1>3 DEF InfoRemote
  <2>3. CacheIsRegular'
    BY <1>0, <2>1 DEF CacheIsRegular, Cached
  <2>4. DOMAIN rrAsk' = Askers /\ rrGot' \in [Askers -> Versions]
    BY <1>0, <2>2 DEF Versions
  <2>5. ASSUME NEW b \in Askers
        PROVE  (rrAsk'[b] = "remote" => Remote \in rrSeen[b]) /\ (rrAsk'[b] = "set" => rrGot'[b] \in rrSeen[b])
    BY <1>0, <2>1, <2>2
  <2>6. QED
    BY <1>0, <2>1, <2>3, <2>4, <2>5 DEF CacheInv
<1>4. ASSUME NEW a \in Askers, InfoSet(a) PROVE CacheInv'
  <2>1. /\ rrAsk[a] = "set" /\ rrAsk' = [rrAsk EXCEPT ![a] = "done"] /\ rrGot' = [rrGot EXCEPT ![a] = 0]
        /\ rrCache' = [ver |-> rrGot[a], left |-> Ttl, since |-> rrSeen[a]]
        /\ rrSeen' = [rrSeen EXCEPT ![a] = {}] /\ UNCHANGED <<rrLocal, rrLast, rrChange>>
    BY <1>4 DEF InfoSet
  <2>2. rrCache' \in Entries /\ rrCache'.ver \in rrCache'.since
    BY <1>0, <2>1, ReadsAssumption DEF Entries
  <2>3. CacheIsRegular'
    BY <2>2 DEF CacheIsRegular
  <2>4. DOMAIN rrAsk' = Askers /\ rrGot' \in [Askers -> Versions] /\ rrSeen' \in [Askers -> SUBSET Versions]
    BY <1>0, <2>1 DEF Versions
  <2>5. ASSUME NEW b \in Askers
        PROVE  (rrAsk'[b] = "remote" => Remote \in rrSeen'[b]) /\ (rrAsk'[b] = "set" => rrGot'[b] \in rrSeen'[b])
    BY <1>0, <2>1
  <2>6. QED
    BY <1>0, <2>1, <2>2, <2>3, <2>4, <2>5 DEF CacheInv
<1>5. CASE RrTick
  <2>1. rrCache' = NoEntry \/ rrCache' = [rrCache EXCEPT !.left = rrCache.left - 1]
    BY <1>5 DEF RrTick
  <2>2. rrCache.left > 0 /\ rrCache.left - 1 \in Nat
    BY <1>0, <1>5 DEF RrTick, Cached, Entries
  <2>3. rrCache' \in Entries /\ (rrCache'.left = 0 \/ (rrCache'.ver = rrCache.ver /\ rrCache'.since = rrCache.since))
    <3>1. CASE rrCache' = NoEntry
      BY <3>1, NoEntryTyped
    <3>2. CASE rrCache' = [rrCache EXCEPT !.left = rrCache.left - 1]
      BY <1>0, <2>2, <3>2 DEF Entries
    <3>3. QED
      BY <2>1, <3>1, <3>2
  <2>4. UNCHANGED <<rrLocal, rrLast, rrAsk, rrGot, rrSeen, rrChange>>
    BY <1>5 DEF RrTick
  <2>5. CacheIsRegular'
    BY <1>0, <2>2, <2>3, <2>4 DEF CacheIsRegular, Cached
  <2>6. QED
    BY <1>0, <2>3, <2>4, <2>5 DEF CacheInv
<1>6. CASE RrUpdate \/ RrDelete \/ RrIngested
  <2>1. \/ Change(rrLast + 1, TRUE) /\ rrLast' = rrLast + 1
        \/ Change(0, TRUE) /\ rrLast' = rrLast
        \/ (\E expected \in BOOLEAN : Change(rrLast + 1, expected)) /\ rrLast' = rrLast + 1
    BY <1>6 DEF RrUpdate, RrDelete, RrIngested
  <2>2. rrLast + 1 \in Nat
    BY <1>0
  <2>3. QED
    BY <1>0, <2>1, <2>2, ChangeKeeps
<1>7. CASE Invalidate \/ RrClose
  <2>1. rrCache' = NoEntry /\ UNCHANGED <<rrLocal, rrLast, rrAsk, rrGot, rrSeen>>
    BY <1>7 DEF Invalidate, RrClose
  <2>2. QED
    BY <1>0, <2>1, NoEntryTyped DEF CacheInv, CacheIsRegular, Cached
<1>8. CASE UNCHANGED rrVars
  BY <1>8 DEF rrVars, CacheInv, CacheIsRegular, Cached
<1>9. CASE ReaderCommit
  <2>1. UNCHANGED rrVars \/ (Change(Teed, FALSE) /\ rrLast' = rrLast)
    BY <1>9 DEF ReaderCommit
  <2>2. Teed \in Nat
    BY ReadsAssumption DEF Teed
  <2>3. QED
    BY <1>0, <1>8, <2>1, <2>2, ChangeKeeps
<1>10. RdStep \/ ReadAt => ReaderCommit \/ UNCHANGED rrVars
  BY DEF RdStep, ReadAt, ReaderAtOpen, ReaderFetch, ReaderClose, DrainTee
<1>11. QED
  BY <1>1, <1>2, <1>3, <1>4, <1>5, <1>6, <1>7, <1>8, <1>9, <1>10 DEF RrNext, RrAskStep

LEMMA TeeStep ==
    ASSUME TeeInv, RrNext
    PROVE  TeeInv'
<1> USE ReadsAssumption
<1>1. CASE UNCHANGED rdVars
  BY <1>1 DEF rdVars, TeeInv
<1>2. CASE ReaderAtOpen
  BY <1>2 DEF ReaderAtOpen, TeeInv
<1>3. CASE ReaderFetch
  BY <1>3 DEF ReaderFetch, TeeInv
<1>4. ASSUME TeeRead, rdPc \in {"read", "drain"}, UNCHANGED <<rdPc, rdFast, rdWriter>> PROVE TeeInv'
  BY <1>4 DEF TeeRead, TeeInv
<1>5. CASE ReadAt
  BY <1>4, <1>5 DEF ReadAt
<1>6. CASE ReaderClose
  BY <1>6 DEF ReaderClose, TeeInv
<1>7. CASE DrainTee
  <2>1. CASE ~rdBroken /\ TeeRead /\ rdPc' = rdPc
    BY <1>4, <1>7, <2>1 DEF DrainTee
  <2>2. CASE (rdBroken \/ rdPos = BlobSize) /\ rdPc' = "commit" /\ UNCHANGED <<rdPos, rdTee, rdBroken>>
    BY <1>7, <2>2 DEF DrainTee, TeeInv
  <2>3. QED
    BY <1>7, <2>1, <2>2 DEF DrainTee
<1>8. CASE ReaderCommit
  BY <1>8 DEF ReaderCommit, TeeInv
<1>9. ~(RdStep \/ ReadAt) => UNCHANGED rdVars
  BY DEF RrNext, RrAskStep, InfoCached, InfoLocal, InfoRemote, InfoSet, RrTick, RrUpdate, RrDelete, RrIngested, Change, Invalidate, RrClose
<1>10. QED
  BY <1>1, <1>2, <1>3, <1>5, <1>6, <1>7, <1>8, <1>9 DEF RdStep

(* Whatever lookups, changes, commits and readers of the registry store do *)
(* to one another, an entry of the cache holds what there has been since   *)
(* its lookup, and a reader leaves the whole blob in the local store.      *)
THEOREM ReadsAreSound == RrSpec => [](CacheIsRegular /\ TeeCaches)
<1>1. RrInit => CacheInv /\ TeeInv
  BY CacheInit
<1>2. (CacheInv /\ TeeInv) /\ [RrNext]_<<rrVars, rdVars>> => (CacheInv /\ TeeInv)'
  <2>1. CASE RrNext
    BY <2>1, CacheStep, TeeStep
  <2>2. CASE UNCHANGED <<rrVars, rdVars>>
    BY <2>2 DEF rrVars, rdVars, CacheInv, CacheIsRegular, Cached, TeeInv
  <2>3. QED
    BY <2>1, <2>2
<1>3. CacheInv /\ TeeInv => CacheIsRegular /\ TeeCaches
  BY DEF CacheInv, TeeInv, TeeCaches
<1>4. QED
  BY <1>1, <1>2, <1>3, PTL DEF RrSpec

-----------------------------------------------------------------------------
LEMMA PoolStep ==
    ASSUME PoolInv, CpNext
    PROVE  PoolInv'
<1> USE PoolAssumption
<1>1. ASSUME NEW g \in Getters, CpLoad(g) PROVE PoolInv'
  <2>1. /\ cpPc[g] = "idle" /\ UNCHANGED <<cpMap, cpMade, cpReg, cpLock, cpAt, cpDials>>
        /\ cpPc' = [cpPc EXCEPT ![g] = "idle"] \/ cpPc' = [cpPc EXCEPT ![g] = "store"]
    BY <1>1 DEF CpLoad, CpReturn, CpGo
  <2>2. \A h \in Getters : cpPc'[h] \in {"lock", "dial"} <=> cpPc[h] \in {"lock", "dial"}
    BY <2>1 DEF PoolInv
  <2>3. \A h \in Getters : cpPc'[h] = "dial" <=> cpPc[h] = "dial"
    BY <2>1 DEF PoolInv
  <2>4. DOMAIN cpPc' = Getters
    BY <2>1 DEF PoolInv
  <2>5. QED
    BY <2>1, <2>2, <2>3, <2>4 DEF PoolInv, NoDeadEntry
<1>2. ASSUME NEW g \in Getters, CpLoadOrStore(g) PROVE PoolInv'
  <2>1. /\ cpPc[g] = "store" /\ cpPc' = [cpPc EXCEPT ![g] = "lock"] /\ UNCHANGED <<cpReg, cpLock, cpDials>>
        /\ cpMap' \in 1..cpMade' /\ cpAt' = [cpAt EXCEPT ![g] = cpMap'] /\ cpMade' \in cpMade..MaxEntries
    BY <1>2 DEF CpLoadOrStore, CpGo, PoolInv
  <2>2. DOMAIN cpPc' = Getters /\ DOMAIN cpAt' = Getters /\ cpPc'[g] = "lock" /\ cpAt'[g] = cpMap'
    BY <2>1 DEF PoolInv
  <2>3. \A h \in Getters \ {g} : cpPc'[h] = cpPc[h] /\ cpAt'[h] = cpAt[h]
    BY <2>1 DEF PoolInv
  <2>4. cpMade \in 0..MaxEntries /\ cpMade' \in 0..MaxEntries /\ cpMade <= cpMade'
    BY <2>1 DEF PoolInv
  <2>5. \A h \in Getters : cpPc'[h] \in {"lock", "dial"} => cpAt'[h] \in 1..cpMade'
    BY <2>1, <2>2, <2>3, <2>4 DEF PoolInv
  <2>6. \A h \in Getters : cpPc'[h] = "dial" => cpLock'[cpAt'[h]] = h /\ cpAt'[h] \notin cpReg'
    BY <2>1, <2>2, <2>3 DEF PoolInv
  <2>7. NoDeadEntry'
    BY <2>2 DEF NoDeadEntry
  <2>8. QED
    BY <2>1, <2>2, <2>4, <2>5, <2>6, <2>7 DEF PoolInv
<1>3. ASSUME NEW g \in Getters, CpTakeLock(g) PROVE PoolInv'
  <2>1. /\ cpPc[g] = "lock" /\ cpLock[cpAt[g]] = None0 /\ UNCHANGED <<cpMap, cpMade, cpReg, cpAt, cpDials>>
        /\ \/ cpAt[g] \in cpReg /\ cpPc' = [cpPc EXCEPT ![g] = "idle"] /\ cpLock' = cpLock
           \/ cpAt[g] \notin cpReg /\ cpPc' = [cpPc EXCEPT ![g] = "dial"] /\ cpLock' = [cpLock EXCEPT ![cpAt[g]] = g]
    BY <1>3 DEF CpTakeLock, CpReturn, CpGo
  <2>2. DOMAIN cpPc' = Getters /\ DOMAIN cpLock' = 1..MaxEntries
    BY <2>1 DEF PoolInv
  <2>3. \A h \in Getters \ {g} : cpPc'[h] = cpPc[h]
    BY <2>1 DEF PoolInv
  <2>4. cpAt[g] \in 1..MaxEntries
    BY <2>1 DEF PoolInv
  <2>5. \A h \in Getters : cpPc'[h] \in {"lock", "dial"} => cpAt'[h] \in 1..cpMade'
    BY <2>1, <2>3 DEF PoolInv
  <2>6. \A h \in Getters : cpPc'[h] = "dial" => cpLock'[cpAt'[h]] = h /\ cpAt'[h] \notin cpReg'
    <3> SUFFICES ASSUME NEW h \in Getters, cpPc'[h] = "dial" PROVE cpLock'[cpAt[h]] = h /\ cpAt[h] \notin cpReg
      BY <2>1
    <3>1. CASE h = g
      BY <2>1, <2>4, <3>1 DEF PoolInv
    <3>2. CASE h # g
      <4>1. cpPc[h] = "dial" /\ cpLock[cpAt[h]] = h /\ cpAt[h] \notin cpReg
        BY <2>3, <3>2 DEF PoolInv
      <4>2. cpAt[h] # cpAt[g]
        BY <2>1, <4>1
      <4>3. cpAt[h] \in DOMAIN cpLock
        BY <2>5, <4>1, <3>2, <2>1 DEF PoolInv
      <4>4. QED
        BY <2>1, <4>1, <4>2, <4>3
    <3>3. QED
      BY <3>1, <3>2
  <2>7. NoDeadEntry'
    <3>1. CASE cpAt[g] \in cpReg
      BY <2>1, <2>3, <3>1 DEF PoolInv, NoDeadEntry
    <3>2. CASE cpAt[g] \notin cpReg
      <4>1. cpPc'[g] = "dial"
        BY <2>1, <3>2 DEF PoolInv
      <4>2. \A h \in Getters : cpPc[h] \in {"lock", "dial"} => cpPc'[h] \in {"lock", "dial"}
        BY <2>3, <4>1
      <4>3. NoDeadEntry
        BY DEF PoolInv
      <4>4. QED
        BY <2>1, <4>2, <4>3 DEF NoDeadEntry
    <3>3. QED
      BY <3>1, <3>2
  <2>8. QED
    BY <2>1, <2>2, <2>5, <2>6, <2>7 DEF PoolInv
<1>4. ASSUME NEW g \in Getters, CpDial(g) PROVE PoolInv'
  <2> DEFINE e == cpAt[g]
  <2>1. /\ cpPc[g] = "dial" /\ cpPc' = [cpPc EXCEPT ![g] = "idle"] /\ cpLock' = [cpLock EXCEPT ![e] = None0]
        /\ UNCHANGED <<cpMade, cpAt>>
        /\ \/ cpReg' = cpReg \cup {e} /\ cpDials' = [cpDials EXCEPT ![e] = @ + 1] /\ cpMap' = cpMap
           \/ cpMap' = 0 /\ UNCHANGED <<cpReg, cpDials>>
    BY <1>4 DEF CpDial, CpForget, CpReturn, CpGo
  <2>2. e \in 1..MaxEntries /\ e \notin cpReg /\ cpLock[e] = g /\ cpDials[e] = 0
    BY <2>1 DEF PoolInv
  <2>3. DOMAIN cpPc' = Getters /\ DOMAIN cpLock' = 1..MaxEntries /\ cpPc'[g] = "idle"
    BY <2>1 DEF PoolInv
  <2>4. \A h \in Getters \ {g} : cpPc'[h] = cpPc[h]
    BY <2>1 DEF PoolInv
  <2>5. \A h \in Getters : cpPc'[h] \in {"lock", "dial"} => cpAt'[h] \in 1..cpMade'
    BY <2>1, <2>3, <2>4 DEF PoolInv
  <2>6. \A h \in Getters : cpPc'[h] = "dial" => cpLock'[cpAt'[h]] = h /\ cpAt'[h] \notin cpReg'
    <3> SUFFICES ASSUME NEW h \in Getters, cpPc'[h] = "dial" PROVE cpLock'[cpAt[h]] = h /\ cpAt[h] \notin cpReg'
      BY <2>1
    <3>1. cpPc[h] = "dial" /\ h # g
      BY <2>3, <2>4
    <3>2. cpLock[cpAt[h]] = h /\ cpAt[h] \notin cpReg
      BY <3>1 DEF PoolInv
    <3>3. cpAt[h] # e
      BY <2>2, <3>1, <3>2
    <3>4. QED
      BY <2>1, <3>2, <3>3
  <2>7. /\ cpReg' \subseteq 1..MaxEntries /\ cpDials' \in [1..MaxEntries -> Nat]
        /\ \A f \in 1..MaxEntries : cpDials'[f] = 0 \/ (f \in cpReg' /\ cpDials'[f] = 1)
    <3>1. /\ cpReg \subseteq 1..MaxEntries /\ cpDials \in [1..MaxEntries -> Nat]
          /\ \A f \in 1..MaxEntries : cpDials[f] = 0 \/ (f \in cpReg /\ cpDials[f] = 1)
      BY DEF PoolInv
    <3>2. CASE cpReg' = cpReg \cup {e} /\ cpDials' = [cpDials EXCEPT ![e] = @ + 1]
      <4>1. cpDials[e] + 1 = 1
        BY <2>2
      <4>2. cpDials' = [cpDials EXCEPT ![e] = 1]
        BY <3>2, <4>1, Zenon
      <4>3. ASSUME NEW f \in 1..MaxEntries PROVE cpDials'[f] = 0 \/ (f \in cpReg' /\ cpDials'[f] = 1)
        BY <2>2, <3>1, <3>2, <4>2
      <4>4. cpDials' \in [1..MaxEntries -> Nat]
        BY <2>2, <3>1, <4>2
      <4>5. cpReg' \subseteq 1..MaxEntries
        BY <2>2, <3>1, <3>2
      <4>6. QED
        BY <4>3, <4>4, <4>5
    <3>3. QED
      BY <2>1, <3>1, <3>2
  <2>8. NoDeadEntry'
    BY <2>1, <2>4 DEF PoolInv, NoDeadEntry
  <2>9. cpMade' \in 0..MaxEntries /\ cpMap' \in 0..cpMade' /\ DOMAIN cpAt' = Getters
    BY <2>1 DEF PoolInv
  <2>10. QED
    BY <2>3, <2>5, <2>6, <2>7, <2>8, <2>9 DEF PoolInv
<1>5. CASE CpIdle \/ CpEvict \/ CpClose
  <2>1. UNCHANGED <<cpMade, cpReg, cpLock, cpPc, cpAt, cpDials>> /\ cpMap' \in {0, cpMap}
    BY <1>5 DEF CpIdle, CpEvict, CpClose
  <2>2. QED
    BY <2>1 DEF PoolInv, NoDeadEntry
<1>6. QED
  BY <1>1, <1>2, <1>3, <1>4, <1>5 DEF CpNext, CpStep

(* The connection pool dials an entry at most once and leaves none behind  *)
(* that is not connected and that nobody connects.                         *)
THEOREM PoolIsSound == CpSpec => [](OneDialPerEntry /\ NoDeadEntry)
<1>1. CpInit => PoolInv
  BY PoolAssumption DEF CpInit, PoolInv, NoDeadEntry
<1>2. PoolInv /\ [CpNext]_cpVars => PoolInv'
  <2>1. PoolInv /\ UNCHANGED cpVars => PoolInv'
    BY DEF cpVars, PoolInv, NoDeadEntry
  <2>2. QED
    BY <2>1, PoolStep
<1>3. PoolInv => OneDialPerEntry /\ NoDeadEntry
  BY DEF PoolInv, OneDialPerEntry
<1>4. QED
  BY <1>1, <1>2, <1>3, PTL DEF CpSpec

-----------------------------------------------------------------------------
LEMMA UploadStep ==
    ASSUME UploadInv, LabelsInv, B2Next
    PROVE  UploadInv'
<1>0. /\ b2Body \in Nat /\ b2Sent \in Nat /\ b2Obj \in [len : Nat, labels : SUBSET Labelled]
      /\ b2Body = IF b2Own = "count" THEN b2Sent + 1 ELSE b2Sent
      /\ b2Live => b2Up = "ok" /\ b2Obj.len = b2Body
      /\ b2Committed \/ b2Own \in {"stat", "copy"} => b2Up = "ok" /\ b2Body = Want
  BY DEF UploadInv
<1>m. b2Meta \in [Labelled -> SUBSET Labelled]
  BY DEF LabelsInv
<1>1. CASE B2Write \/ B2Close \/ B2Commit
  BY <1>0, <1>1 DEF B2Write, B2Close, B2Commit, Started, metaVars, UploadInv
<1>2. CASE PipeWrite
  BY <1>0, <1>2 DEF PipeWrite, Reads, metaVars, UploadInv
<1>3. CASE CountWrite
  BY <1>0, <1>3 DEF CountWrite, metaVars, UploadInv
<1>4. CASE PutEnds
  <2>1. CASE b2Up' = "ok" /\ b2Obj' = [len |-> b2Body, labels |-> {}]
    <3>1. b2Obj' \in [len : Nat, labels : SUBSET Labelled] /\ b2Obj'.len = b2Body
      BY <1>0, <2>1
    <3>2. b2Up = "run" /\ UNCHANGED <<b2Body, b2Sent, b2Own, b2Committed>>
      BY <1>4 DEF PutEnds
    <3>3. QED
      BY <1>0, <2>1, <3>1, <3>2 DEF UploadInv
  <2>2. CASE b2Up' = "err" /\ UNCHANGED <<b2Obj, b2Live>>
    <3>1. b2Up = "run" /\ UNCHANGED <<b2Body, b2Sent, b2Own, b2Committed>>
      BY <1>4 DEF PutEnds
    <3>2. QED
      BY <1>0, <2>2, <3>1 DEF UploadInv
  <2>3. QED
    BY <1>4, <2>1, <2>2 DEF PutEnds
<1>5. CASE CommitWaits \/ B2CloseReturns
  BY <1>0, <1>5 DEF CommitWaits, B2CloseReturns, metaVars, UploadInv
<1>6. CASE CommitVerify
  BY <1>0, <1>6 DEF CommitVerify, Verified, metaVars, UploadInv
<1>7. CASE CommitStat
  BY <1>0, <1>7 DEF CommitStat, UploadInv
<1>8. ASSUME NEW p \in Labelled, CopyMeta(p)
      PROVE  b2Obj' \in [len : Nat, labels : SUBSET Labelled] /\ b2Obj'.len = b2Obj.len
  <2>1. MergedLabels(p) \subseteq Labelled
    BY <1>m DEF MergedLabels
  <2>2. QED
    BY <1>0, <1>8, <2>1 DEF CopyMeta
<1>9. CASE CommitCopy
  <2>1. CopyMeta(Owner) \/ b2Obj' = b2Obj
    BY <1>9 DEF CommitCopy
  <2>2. b2Obj' \in [len : Nat, labels : SUBSET Labelled] /\ b2Obj'.len = b2Obj.len
    BY <1>0, <1>8, <2>1 DEF Labelled
  <2>3. QED
    BY <1>0, <1>9, <2>2 DEF CommitCopy, UploadInv
<1>10. ASSUME NEW u \in Updaters, UpdateStat(u) \/ UpdateCopy(u) PROVE UploadInv'
  <2>1. UNCHANGED writerVars /\ b2Live' = b2Live /\ (CopyMeta(u) \/ b2Obj' = b2Obj)
    BY <1>10 DEF UpdateStat, UpdateCopy
  <2>2. b2Obj' \in [len : Nat, labels : SUBSET Labelled] /\ b2Obj'.len = b2Obj.len
    BY <1>0, <1>8, <2>1 DEF Labelled
  <2>3. QED
    BY <1>0, <2>1, <2>2 DEF writerVars, UploadInv
<1>11. CASE B2Delete
  <2>1. NoObject \in [len : Nat, labels : SUBSET Labelled]
    BY DEF NoObject
  <2>2. QED
    BY <1>0, <1>11, <2>1 DEF B2Delete, writerVars, UploadInv
<1>12. CASE B2Abort
  BY <1>0, <1>12 DEF B2Abort, metaVars, UploadInv
<1>13. QED
  BY <1>1, <1>2, <1>3, <1>4, <1>5, <1>6, <1>7, <1>9, <1>10, <1>11, <1>12 DEF B2Next, B2OwnerStep

LEMMA LabelsStep ==
    ASSUME UploadInv, LabelsInv, B2Next
    PROVE  LabelsInv'
<1>0. /\ b2Obj \in [len : Nat, labels : SUBSET Labelled] /\ b2Meta \in [Labelled -> SUBSET Labelled]
      /\ DOMAIN b2After = Labelled /\ b2Acked \subseteq b2Obj.labels \cup b2Overtaken
      /\ \A p \in Labelled : b2Acked \subseteq b2Meta[p] \cup b2After[p] \cup b2Overtaken
  BY DEF LabelsInv, LabelsSurvive
<1>1. CASE UNCHANGED <<b2Obj, b2Meta, b2After, b2Acked, b2Overtaken>>
  BY <1>0, <1>1 DEF LabelsInv, LabelsSurvive
<1>2. ASSUME NEW p \in Labelled, StatMeta(p), UNCHANGED <<b2Obj, b2Acked, b2Overtaken>> PROVE LabelsInv'
  <2>1. b2Meta' = [b2Meta EXCEPT ![p] = b2Obj.labels] /\ b2After' = [b2After EXCEPT ![p] = {}]
    BY <1>2 DEF StatMeta
  <2>2. b2Meta' \in [Labelled -> SUBSET Labelled] /\ DOMAIN b2After' = Labelled
    BY <1>0, <2>1
  <2>3. ASSUME NEW q \in Labelled PROVE b2Acked \subseteq b2Meta'[q] \cup b2After'[q] \cup b2Overtaken
    BY <1>0, <2>1
  <2>4. QED
    BY <1>0, <1>2, <2>2, <2>3 DEF LabelsInv, LabelsSurvive
<1>3. ASSUME NEW p \in Labelled, CopyMeta(p), b2Meta' = b2Meta PROVE LabelsInv'
  <2>1. /\ b2Obj' = [b2Obj EXCEPT !.labels = MergedLabels(p)] /\ b2Acked' = b2Acked \cup {p}
        /\ b2Overtaken' = (b2Overtaken \cup b2After[p]) \ {p} /\ b2After' = [q \in Labelled |-> b2After[q] \cup {p}]
    BY <1>3 DEF CopyMeta, Labelled
  <2>2. MergedLabels(p) = b2Meta[p] \cup {p} /\ MergedLabels(p) \subseteq Labelled
    BY <1>0 DEF MergedLabels
  <2>3. b2Obj' \in [len : Nat, labels : SUBSET Labelled] /\ b2Obj'.labels = b2Meta[p] \cup {p}
    BY <1>0, <2>1, <2>2
  <2>4. b2Acked' \subseteq b2Obj'.labels \cup b2Overtaken'
    BY <1>0, <2>1, <2>3
  <2>5. ASSUME NEW q \in Labelled PROVE b2Acked' \subseteq b2Meta[q] \cup b2After'[q] \cup b2Overtaken'
    BY <1>0, <2>1
  <2>6. QED
    BY <1>0, <1>3, <2>1, <2>3, <2>4, <2>5 DEF LabelsInv, LabelsSurvive
<1>4. CASE PutEnds
  <2>1. CASE /\ b2Obj' = [len |-> b2Body, labels |-> {}] /\ b2Acked' = {} /\ b2Body \in Nat
             /\ UNCHANGED <<b2Meta, b2After, b2Overtaken>>
    <3>1. b2Obj' \in [len : Nat, labels : SUBSET Labelled]
      BY <2>1
    <3>2. QED
      BY <1>0, <2>1, <3>1 DEF LabelsInv, LabelsSurvive
  <2>2. b2Body \in Nat
    BY DEF UploadInv
  <2>3. QED
    BY <1>1, <1>4, <2>1, <2>2 DEF PutEnds
<1>5. CASE B2Delete
  <2>1. NoObject \in [len : Nat, labels : SUBSET Labelled]
    BY DEF NoObject
  <2>2. b2Obj' = NoObject /\ b2Acked' = {} /\ UNCHANGED <<b2Meta, b2After, b2Overtaken>>
    BY <1>5 DEF B2Delete
  <2>3. QED
    BY <1>0, <2>1, <2>2 DEF LabelsInv, LabelsSurvive
<1>6. QED
  BY <1>1, <1>2, <1>3, <1>4, <1>5
     DEF B2Next, B2OwnerStep, B2Write, B2Close, B2Commit, PipeWrite, CountWrite, CommitWaits, B2CloseReturns, CommitVerify, CommitStat,
         CommitCopy, UpdateStat, UpdateCopy, B2Abort, metaVars, Labelled

(* A B2 commit that succeeded has put the whole blob there, and an update  *)
(* loses labels of those only that it overlapped with.                     *)
THEOREM UploadIsSound == B2Spec => [](CommittedIsWhole /\ LabelsSurvive)
<1>1. B2Init => UploadInv /\ LabelsInv
  <2> SUFFICES ASSUME B2Init PROVE UploadInv /\ LabelsInv
    OBVIOUS
  <2>1. b2Obj \in [len : Nat, labels : SUBSET Labelled] /\ b2Acked = {}
    BY DEF B2Init, NoObject
  <2>2. b2Meta \in [Labelled -> SUBSET Labelled] /\ DOMAIN b2After = Labelled
    BY DEF B2Init, Labelled
  <2>3. QED
    BY <2>1, <2>2 DEF B2Init, UploadInv, LabelsInv, LabelsSurvive
<1>2. (UploadInv /\ LabelsInv) /\ [B2Next]_b2Vars => (UploadInv /\ LabelsInv)'
  <2>1. CASE UNCHANGED b2Vars
    BY <2>1 DEF b2Vars, UploadInv, LabelsInv, LabelsSurvive
  <2>2. QED
    BY <2>1, UploadStep, LabelsStep
<1>3. UploadInv /\ LabelsInv => CommittedIsWhole /\ LabelsSurvive
  BY DEF UploadInv, LabelsInv, CommittedIsWhole
<1>4. QED
  BY <1>1, <1>2, <1>3, PTL DEF B2Spec

(* All of it together: what the runs check of the reading side of the      *)
(* registry store, of its connection pool and of the B2 store.             *)
THEOREM StoresAreSound == RrSpec /\ CpSpec /\ B2Spec => []StoresSound
<1>1. StoresSound <=> (CacheIsRegular /\ TeeCaches) /\ (OneDialPerEntry /\ NoDeadEntry) /\ (CommittedIsWhole /\ LabelsSurvive)
  BY DEF StoresSound
<1>2. QED
  BY <1>1, ReadsAreSound, PoolIsSound, UploadIsSound, PTL
=============================================================================
