---------------------------- MODULE HostProofs -----------------------------
(***************************************************************************)
(* Theorems about what runs on a host.  The namespace pool, for every set  *)
(* of clients, every set of namespaces, every target size and every grace  *)
(* period.  The resource monitor, its records and samplers, for any        *)
(* records and names: a closed subscription's history is final, a finished *)
(* cgroup record has stopped its sampler, and what Monitor.Close leaves    *)
(* open escaped its copy of the map.                                       *)
(***************************************************************************)
EXTENDS NSPool, ResourceMonitor, TLAPS, SequenceTheorems, FiniteSetTheorems

USE ProcsAssumption, NSAssumption, SizeAssumption

(* Where the local variable ns of a goroutine is set: exactly while the    *)
(* goroutine is between newNS (or the pop of get) and put's lock section.  *)
Holding == {"register", "using", "put"}

HeldInv ==
    \A p \in Procs :
        /\ pc[p] \in Holding => held[p] \in NS
        /\ pc[p] \notin Holding => held[p] = NoNS

(* The two goroutines that never call get or put hold no namespace. *)
LEMMA ProcFacts ==
    /\ Filler \in Procs /\ Cleaner \in Procs /\ Closer \in Procs
    /\ Clients \subseteq Procs
  BY DEF Procs

LEMMA InitTypeOK == Init => TypeOK /\ HeldInv
  <1> SUFFICES ASSUME Init PROVE TypeOK /\ HeldInv
    OBVIOUS
  <1>1. available \in Seq(NS) /\ toRelease \in [Procs -> Seq(NS)]
    BY DEF Init
  <1>2. timer \in {NoTimer} \cup 0..Grace /\ age \in [NS -> 0..Grace]
    BY DEF Init, NoTimer
  <1>3. pc \in [Procs -> Labels]
    BY DEF Init, Labels
  <1>4. held \in [Procs -> NS \cup {NoNS}]
    BY DEF Init
  <1>5. HeldInv
    BY DEF Init, HeldInv, Holding
  <1>6. actualSize \in Int /\ created \in SUBSET NS /\ released \in SUBSET NS
    BY DEF Init
  <1>7. closed \in BOOLEAN /\ cleanupScheduled \in BOOLEAN /\ fillDone \in BOOLEAN
    BY Zenon DEF Init
  <1>8. QED
    BY <1>1, <1>2, <1>3, <1>4, <1>5, <1>6, <1>7 DEF TypeOK

LEMMA NextTypeOK == TypeOK /\ HeldInv /\ [Next]_vars => TypeOK' /\ HeldInv'
  <1> SUFFICES ASSUME TypeOK, HeldInv, [Next]_vars
               PROVE  TypeOK' /\ HeldInv'
    OBVIOUS
  <1> USE ProcFacts DEF TypeOK, HeldInv, Holding, Labels, poolVars, timeVars, nsVars
  <1>1. ASSUME NEW c \in Clients, Get(c) PROVE TypeOK' /\ HeldInv'
    <2>1. CASE available # <<>>
      <3>1. Len(available) \in Nat /\ Len(available) > 0
        BY <2>1
      <3>2. /\ available[Len(available)] \in NS
            /\ SubSeq(available, 1, Len(available) - 1) \in Seq(NS)
        BY <3>1
      <3>3. QED BY <1>1, <2>1, <3>2 DEF Get
    <2>2. CASE available = <<>>
      BY <1>1, <2>2 DEF Get
    <2>3. QED BY <2>1, <2>2
  <1>2. ASSUME NEW p \in Procs, NewNS(p) PROVE TypeOK' /\ HeldInv'
    BY <1>2 DEF NewNS
  <1>3. ASSUME NEW p \in Procs, NewNSFails(p) PROVE TypeOK' /\ HeldInv'
    BY <1>3 DEF NewNSFails, AfterError
  <1>4. ASSUME NEW p \in Procs, Register(p) PROVE TypeOK' /\ HeldInv'
    <2>1. held[p] \in NS
      BY <1>4 DEF Register
    <2>2. <<held[p]>> \in Seq(NS) /\ Append(available, held[p]) \in Seq(NS)
      BY <2>1
    <2>3. TypeOK'
      <3>1. CASE closed
        <4>1. toRelease' \in [Procs -> Seq(NS)]
          BY <1>4, <2>2, <3>1 DEF Register
        <4>2. held' \in [Procs -> NS \cup {NoNS}] /\ pc' \in [Procs -> Labels]
          BY <1>4, <3>1 DEF Register
        <4>3. QED BY <1>4, <3>1, <4>1, <4>2 DEF Register
      <3>2. CASE ~closed
        <4>1. actualSize' = actualSize + 1 /\ pc' = [pc EXCEPT ![p] = "using"]
          BY <1>4, <3>2 DEF Register
        <4>2. actualSize' \in Int /\ pc' \in [Procs -> Labels]
          BY <4>1
        <4>3. QED BY <1>4, <3>2, <4>2 DEF Register
      <3>3. QED BY <3>1, <3>2
    <2>4. HeldInv'
      BY <1>4, <2>1 DEF Register
    <2>5. QED BY <2>3, <2>4
  <1>5. ASSUME NEW p \in Procs, StampLastUsed(p) PROVE TypeOK' /\ HeldInv'
    <2>1. held[p] \in NS
      BY <1>5 DEF StampLastUsed
    <2>2. <<held[p]>> \in Seq(NS) /\ Append(available, held[p]) \in Seq(NS)
      BY <2>1
    <2>3. TypeOK'
      BY <1>5, <2>1, <2>2 DEF StampLastUsed
    <2>4. HeldInv'
      BY <1>5, <2>1 DEF StampLastUsed
    <2>5. QED BY <2>3, <2>4
  <1>6. ASSUME NEW p \in Procs, Put(p) PROVE TypeOK' /\ HeldInv'
    <2>1. held[p] \in NS
      BY <1>6 DEF Put
    <2>2. <<held[p]>> \in Seq(NS) /\ Append(available, held[p]) \in Seq(NS)
      BY <2>1
    <2>3. TypeOK'
      <3>1. CASE closed
        <4>1. toRelease' \in [Procs -> Seq(NS)]
          BY <1>6, <2>2, <3>1 DEF Put
        <4>2. held' \in [Procs -> NS \cup {NoNS}] /\ pc' \in [Procs -> Labels]
          BY <1>6, <3>1 DEF Put
        <4>3. QED BY <1>6, <3>1, <4>1, <4>2 DEF Put
      <3>2. CASE ~closed
        <4>1. pc' \in [Procs -> Labels]
          BY <1>6, <3>2 DEF Put, AfterCall
        <4>2. QED BY <1>6, <2>1, <2>2, <3>2, <4>1 DEF Put
      <3>3. QED BY <3>1, <3>2
    <2>4. HeldInv'
      BY <1>6, <2>1 DEF Put, AfterCall
    <2>5. QED BY <2>3, <2>4
  <1>7. ASSUME NEW p \in Procs, Schedule(p) PROVE TypeOK' /\ HeldInv'
    <2>1. TypeOK'
      <3>1. pc' \in [Procs -> Labels]
        BY <1>7 DEF Schedule, AfterCall
      <3>2. cleanupScheduled' \in BOOLEAN
        BY <1>7, Zenon DEF Schedule
      <3>3. timer' \in {NoTimer} \cup 0..Grace
        BY <1>7 DEF Schedule
      <3>4. QED BY <1>7, <3>1, <3>2, <3>3 DEF Schedule
    <2>2. HeldInv'
      BY <1>7 DEF Schedule, AfterCall
    <2>3. QED BY <2>1, <2>2
  <1>8. ASSUME NEW p \in Procs, Release(p) PROVE TypeOK' /\ HeldInv'
    <2>1. AfterRelease(p) \in {"waitFill", "idle", "backoff", "check"}
      BY DEF AfterRelease, AfterError, AfterCall
    <2>2. CASE toRelease[p] # <<>>
      <3>1. Head(toRelease[p]) \in NS /\ Tail(toRelease[p]) \in Seq(NS)
        BY <2>2, HeadTailProperties
      <3>2. released' \in SUBSET NS
        BY <1>8, <2>2, <3>1 DEF Release
      <3>3. toRelease' \in [Procs -> Seq(NS)]
        BY <1>8, <2>2, <3>1 DEF Release
      <3>4. QED BY <1>8, <2>2, <3>2, <3>3 DEF Release
    <2>3. CASE toRelease[p] = <<>>
      <3>1. TypeOK'
        <4>1. pc' \in [Procs -> Labels]
          BY <1>8, <2>1, <2>3 DEF Release
        <4>2. cleanupScheduled' \in BOOLEAN
          BY <1>8, <2>3, Zenon DEF Release
        <4>3. QED BY <1>8, <2>3, <4>1, <4>2 DEF Release
      <3>2. HeldInv'
        BY <1>8, <2>1, <2>3 DEF Release
      <3>3. QED BY <3>1, <3>2
    <2>4. QED BY <2>2, <2>3
  <1>9. ASSUME FillCheck PROVE TypeOK' /\ HeldInv'
    BY <1>9 DEF FillCheck
  <1>10. ASSUME FillRetry PROVE TypeOK' /\ HeldInv'
    BY <1>10 DEF FillRetry
  <1>11. ASSUME Cleanup PROVE TypeOK' /\ HeldInv'
    BY <1>11 DEF Cleanup, NoTimer
  <1>12. ASSUME Close PROVE TypeOK' /\ HeldInv'
    BY <1>12 DEF Close
  <1>13. ASSUME CloseWait PROVE TypeOK' /\ HeldInv'
    BY <1>13 DEF CloseWait
  <1>14. ASSUME Tick PROVE TypeOK' /\ HeldInv'
    BY <1>14 DEF Tick, NoTimer
  <1>15. CASE UNCHANGED vars
    BY <1>15 DEF vars
  <1>16. QED
    BY <1>1, <1>2, <1>3, <1>4, <1>5, <1>6, <1>7, <1>8, <1>9, <1>10, <1>11,
       <1>12, <1>13, <1>14, <1>15 DEF Next, CallStep

(* Type correctness of the pool: every variable keeps its type, and a      *)
(* goroutine's ns is set exactly where the code has set it.                *)
THEOREM TypeCorrect == Spec => []TypeOK
  <1>1. Spec => [](TypeOK /\ HeldInv)
    BY InitTypeOK, NextTypeOK, PTL DEF Spec
  <1>2. QED BY <1>1, PTL

-----------------------------------------------------------------------------
(* What appending, popping, splitting and taking the tail of a sequence    *)
(* without repetitions do to the set of its elements.                      *)
LEMMA AppendFacts ==
    ASSUME NEW s \in Seq(NS), NEW x \in NS
    PROVE  /\ SeqRange(Append(s, x)) = SeqRange(s) \cup {x}
           /\ NoRepeats(s) /\ x \notin SeqRange(s) => NoRepeats(Append(s, x))
  <1> DEFINE t == Append(s, x)
  <1>1. /\ DOMAIN s = 1..Len(s)
        /\ DOMAIN t = 1..(Len(s) + 1)
        /\ Len(s) \in Nat
        /\ t[Len(s) + 1] = x
        /\ \A i \in 1..Len(s) : t[i] = s[i]
    OBVIOUS
  <1> HIDE DEF t
  <1>2. SeqRange(t) = SeqRange(s) \cup {x}
    BY <1>1 DEF SeqRange
  <1>3. NoRepeats(s) /\ x \notin SeqRange(s) => NoRepeats(t)
    BY <1>1 DEF SeqRange, NoRepeats
  <1>4. QED BY <1>2, <1>3 DEF t

LEMMA SingletonFacts ==
    /\ SeqRange(<<>>) = {} /\ NoRepeats(<<>>)
    /\ \A x \in NS : SeqRange(<<x>>) = {x} /\ NoRepeats(<<x>>)
  BY DEF SeqRange, NoRepeats

LEMMA SplitFacts ==
    ASSUME NEW s \in Seq(NS), NoRepeats(s), NEW k \in 0..Len(s)
    PROVE  LET a == SubSeq(s, 1, k)
               b == SubSeq(s, k + 1, Len(s))
           IN  /\ SeqRange(a) \subseteq SeqRange(s) /\ NoRepeats(a)
               /\ SeqRange(b) \subseteq SeqRange(s) /\ NoRepeats(b)
               /\ SeqRange(a) \cap SeqRange(b) = {}
  <1> DEFINE a == SubSeq(s, 1, k)
             b == SubSeq(s, k + 1, Len(s))
  <1>1. /\ DOMAIN s = 1..Len(s)
        /\ DOMAIN a = 1..k
        /\ DOMAIN b = 1..(Len(s) - k)
        /\ Len(s) \in Nat
        /\ \A i \in 1..k : a[i] = s[i]
        /\ \A i \in 1..(Len(s) - k) : b[i] = s[k + i]
    OBVIOUS
  <1> HIDE DEF a, b
  <1>2. SeqRange(a) \subseteq SeqRange(s) /\ NoRepeats(a)
    BY <1>1 DEF SeqRange, NoRepeats
  <1>3. SeqRange(b) \subseteq SeqRange(s) /\ NoRepeats(b)
    <2>1. \A i \in 1..(Len(s) - k) : k + i \in 1..Len(s)
      BY <1>1
    <2>2. ASSUME NEW i \in DOMAIN b PROVE b[i] \in SeqRange(s)
      <3>1. k + i \in DOMAIN s /\ b[i] = s[k + i]
        BY <1>1, <2>1
      <3>2. QED BY <3>1 DEF SeqRange
    <2>3. ASSUME NEW i \in DOMAIN b, NEW j \in DOMAIN b, b[i] = b[j] PROVE i = j
      <3>1. k + i \in DOMAIN s /\ k + j \in DOMAIN s /\ s[k + i] = s[k + j]
        BY <1>1, <2>1, <2>3
      <3>2. k + i = k + j
        BY <3>1 DEF NoRepeats
      <3>3. QED BY <1>1, <3>2
    <2>4. QED BY <2>2, <2>3 DEF SeqRange, NoRepeats
  <1>4. SeqRange(a) \cap SeqRange(b) = {}
    <2>1. ASSUME NEW i \in 1..k, NEW j \in 1..(Len(s) - k) PROVE a[i] # b[j]
      <3>1. i \in DOMAIN s /\ k + j \in DOMAIN s /\ i # k + j
        BY <1>1
      <3>2. s[i] # s[k + j]
        BY <3>1 DEF NoRepeats
      <3>3. QED BY <1>1, <3>2
    <2>2. QED BY <1>1, <2>1 DEF SeqRange
  <1>5. QED BY <1>2, <1>3, <1>4 DEF a, b

LEMMA PopFacts ==
    ASSUME NEW s \in Seq(NS), s # <<>>, NoRepeats(s)
    PROVE  /\ s[Len(s)] \in SeqRange(s)
           /\ LET a == SubSeq(s, 1, Len(s) - 1)
              IN  /\ SeqRange(a) \subseteq SeqRange(s) \ {s[Len(s)]}
                  /\ NoRepeats(a)
  <1> DEFINE a == SubSeq(s, 1, Len(s) - 1)
  <1>1. Len(s) \in Nat \ {0}
    OBVIOUS
  <1>2. /\ DOMAIN s = 1..Len(s)
        /\ DOMAIN a = 1..(Len(s) - 1)
        /\ \A i \in 1..(Len(s) - 1) : a[i] = s[i]
    BY <1>1
  <1> HIDE DEF a
  <1>3. s[Len(s)] \in SeqRange(s)
    BY <1>1, <1>2 DEF SeqRange
  <1>4. SeqRange(a) \subseteq SeqRange(s) \ {s[Len(s)]} /\ NoRepeats(a)
    BY <1>1, <1>2 DEF SeqRange, NoRepeats
  <1>5. QED BY <1>3, <1>4 DEF a

LEMMA TailFacts ==
    ASSUME NEW s \in Seq(NS), s # <<>>, NoRepeats(s)
    PROVE  /\ Head(s) \in SeqRange(s)
           /\ SeqRange(Tail(s)) \subseteq SeqRange(s) \ {Head(s)}
           /\ NoRepeats(Tail(s))
  <1> DEFINE t == Tail(s)
  <1>1. Len(s) \in Nat \ {0}
    OBVIOUS
  <1>2. /\ DOMAIN s = 1..Len(s)
        /\ DOMAIN t = 1..(Len(s) - 1)
        /\ Head(s) = s[1]
        /\ \A i \in 1..(Len(s) - 1) : t[i] = s[i + 1]
    BY <1>1
  <1> HIDE DEF t
  <1>3. Head(s) \in SeqRange(s)
    BY <1>1, <1>2 DEF SeqRange
  <1>4. SeqRange(t) \subseteq SeqRange(s) \ {Head(s)} /\ NoRepeats(t)
    <2>1. \A i \in 1..(Len(s) - 1) : i + 1 \in 1..Len(s) /\ i + 1 # 1
      BY <1>1
    <2>2. ASSUME NEW i \in DOMAIN t PROVE t[i] \in SeqRange(s) \ {Head(s)}
      <3>1. i + 1 \in DOMAIN s /\ 1 \in DOMAIN s /\ i + 1 # 1 /\ t[i] = s[i + 1]
        BY <1>1, <1>2, <2>1
      <3>2. s[i + 1] # s[1]
        BY <3>1 DEF NoRepeats
      <3>3. QED BY <1>2, <3>1, <3>2 DEF SeqRange
    <2>3. ASSUME NEW i \in DOMAIN t, NEW j \in DOMAIN t, t[i] = t[j] PROVE i = j
      <3>1. i + 1 \in DOMAIN s /\ j + 1 \in DOMAIN s /\ s[i + 1] = s[j + 1]
        BY <1>1, <1>2, <2>1, <2>3
      <3>2. i + 1 = j + 1
        BY <3>1 DEF NoRepeats
      <3>3. QED BY <1>1, <1>2, <3>2
    <2>4. QED BY <2>2, <2>3 DEF SeqRange, NoRepeats
  <1>5. QED BY <1>3, <1>4 DEF t
-----------------------------------------------------------------------------
(* Only namespaces that newNS has returned are owned or torn down: that is *)
(* why a new one is owned by nobody.  SoleOwner is not inductive without.  *)
Known ==
    /\ SeqRange(available) \cup released \subseteq created
    /\ \A p \in Procs : /\ held[p] \in created \cup {NoNS}
                        /\ SeqRange(toRelease[p]) \subseteq created

OwnerInv == SoleOwner /\ Known

ownerVars == <<available, released, held, toRelease, created>>

LEMMA InitOwner == Init => OwnerInv
  <1> SUFFICES ASSUME Init PROVE OwnerInv
    OBVIOUS
  <1>1. /\ available = <<>> /\ released = {} /\ created = {}
        /\ \A p \in Procs : held[p] = NoNS /\ toRelease[p] = <<>>
    BY DEF Init
  <1>2. QED BY <1>1, SingletonFacts DEF OwnerInv, SoleOwner, Known

LEMMA NextOwner ==
    TypeOK /\ HeldInv /\ OwnerInv /\ [Next]_vars => OwnerInv'
  <1> SUFFICES ASSUME TypeOK, HeldInv, OwnerInv, [Next]_vars
               PROVE  OwnerInv'
    OBVIOUS
  <1> USE ProcFacts
  <1> USE DEF TypeOK
  <1>1. ASSUME NEW c \in Clients, Get(c) PROVE OwnerInv'
    <2>1. CASE available # <<>>
      <3> DEFINE n == available[Len(available)]
                 rest == SubSeq(available, 1, Len(available) - 1)
      <3>1. /\ n \in SeqRange(available)
            /\ SeqRange(rest) \subseteq SeqRange(available) \ {n}
            /\ NoRepeats(rest)
        BY <2>1, PopFacts DEF OwnerInv, SoleOwner
      <3>2. /\ available' = rest
            /\ held' = [held EXCEPT ![c] = n]
            /\ UNCHANGED <<released, toRelease, created>>
        BY <1>1, <2>1 DEF Get, nsVars
      <3> HIDE DEF n, rest
      <3>3. n \in created /\ n \notin released
        BY <3>1 DEF OwnerInv, SoleOwner, Known
      <3>4. Known'
        BY <3>1, <3>2, <3>3 DEF OwnerInv, Known
      <3>5. SoleOwner'
        BY <3>1, <3>2, <3>3 DEF OwnerInv, SoleOwner
      <3>6. QED BY <3>4, <3>5 DEF OwnerInv
    <2>2. CASE available = <<>>
      BY <1>1, <2>2 DEF Get, nsVars, OwnerInv, SoleOwner, Known
    <2>3. QED BY <2>1, <2>2
  <1>2. ASSUME NEW p \in Procs, NewNS(p) PROVE OwnerInv'
    <2>1. PICK n \in NS \ created : /\ created' = created \cup {n}
                                    /\ held' = [held EXCEPT ![p] = n]
      BY <1>2 DEF NewNS
    <2>2. UNCHANGED <<available, released, toRelease>>
      BY <1>2 DEF NewNS, poolVars
    <2>3. Known'
      BY <2>1, <2>2 DEF OwnerInv, Known
    <2>4. SoleOwner'
      BY <2>1, <2>2 DEF OwnerInv, Known, SoleOwner
    <2>5. QED BY <2>3, <2>4 DEF OwnerInv
  <1>3. ASSUME NEW p \in Procs, Register(p) PROVE OwnerInv'
    <2>1. CASE closed
      <3>1. held[p] \in NS
        BY <1>3 DEF Register, HeldInv, Holding
      <3>2. /\ toRelease' = [toRelease EXCEPT ![p] = <<held[p]>>]
            /\ held' = [held EXCEPT ![p] = NoNS]
            /\ UNCHANGED <<available, released, created>>
        BY <1>3, <2>1 DEF Register, nsVars
      <3>3. QED BY <3>1, <3>2, SingletonFacts DEF OwnerInv, SoleOwner, Known
    <2>2. CASE ~closed
      BY <1>3, <2>2 DEF Register, nsVars, OwnerInv, SoleOwner, Known
    <2>3. QED BY <2>1, <2>2
  <1>4. ASSUME NEW p \in Procs, Put(p) PROVE OwnerInv'
    <2>1. held[p] \in NS
      BY <1>4 DEF Put, HeldInv, Holding
    <2>2. CASE closed
      <3>1. /\ toRelease' = [toRelease EXCEPT ![p] = <<held[p]>>]
            /\ held' = [held EXCEPT ![p] = NoNS]
            /\ UNCHANGED <<available, released, created>>
        BY <1>4, <2>2 DEF Put, nsVars
      <3>2. QED BY <2>1, <3>1, SingletonFacts DEF OwnerInv, SoleOwner, Known
    <2>3. CASE ~closed
      <3>1. /\ available' = Append(available, held[p])
            /\ held' = [held EXCEPT ![p] = NoNS]
            /\ UNCHANGED <<toRelease, released, created>>
        BY <1>4, <2>3 DEF Put, nsVars
      <3>2. /\ SeqRange(available') = SeqRange(available) \cup {held[p]}
            /\ NoRepeats(available')
        BY <2>1, <3>1, AppendFacts DEF OwnerInv, SoleOwner
      <3>3. QED BY <2>1, <3>1, <3>2 DEF OwnerInv, SoleOwner, Known
    <2>4. QED BY <2>2, <2>3
  <1>5. ASSUME NEW p \in Procs, Release(p) PROVE OwnerInv'
    <2>1. CASE toRelease[p] # <<>>
      <3> DEFINE n == Head(toRelease[p])
                 rest == Tail(toRelease[p])
      <3>1. /\ n \in SeqRange(toRelease[p])
            /\ SeqRange(rest) \subseteq SeqRange(toRelease[p]) \ {n}
            /\ NoRepeats(rest)
        BY <2>1, TailFacts DEF OwnerInv, SoleOwner
      <3>2. /\ released' = released \cup {n}
            /\ toRelease' = [toRelease EXCEPT ![p] = rest]
            /\ UNCHANGED <<available, held, created>>
        BY <1>5, <2>1 DEF Release, poolVars
      <3> HIDE DEF n, rest
      <3>3. QED BY <3>1, <3>2 DEF OwnerInv, SoleOwner, Known
    <2>2. CASE toRelease[p] = <<>>
      BY <1>5, <2>2 DEF Release, poolVars, OwnerInv, SoleOwner, Known
    <2>3. QED BY <2>1, <2>2
  <1>6. ASSUME Cleanup PROVE OwnerInv'
    <2>1. PICK k \in 0..Len(available) :
             /\ toRelease' = [toRelease EXCEPT ![Cleaner] = SubSeq(available, 1, k)]
             /\ available' = SubSeq(available, k + 1, Len(available))
      BY <1>6 DEF Cleanup
    <2> DEFINE a == SubSeq(available, 1, k)
               b == SubSeq(available, k + 1, Len(available))
    <2>2. UNCHANGED <<released, held, created>>
      BY <1>6 DEF Cleanup, nsVars
    <2>3. /\ SeqRange(a) \subseteq SeqRange(available) /\ NoRepeats(a)
          /\ SeqRange(b) \subseteq SeqRange(available) /\ NoRepeats(b)
          /\ SeqRange(a) \cap SeqRange(b) = {}
      BY SplitFacts DEF OwnerInv, SoleOwner
    <2>4. toRelease' = [toRelease EXCEPT ![Cleaner] = a] /\ available' = b
      BY <2>1
    <2> HIDE DEF a, b
    <2>5. QED BY <2>2, <2>3, <2>4 DEF OwnerInv, SoleOwner, Known
  <1>7. ASSUME Close PROVE OwnerInv'
    <2>1. /\ toRelease' = [toRelease EXCEPT ![Closer] = available]
          /\ available' = <<>>
          /\ UNCHANGED <<released, held, created>>
      BY <1>7 DEF Close, nsVars
    <2>2. QED BY <2>1, SingletonFacts DEF OwnerInv, SoleOwner, Known
  <1>8. ASSUME UNCHANGED ownerVars PROVE OwnerInv'
    BY <1>8 DEF ownerVars, OwnerInv, SoleOwner, Known
  <1>9. ASSUME NEW p \in Procs, NewNSFails(p) \/ StampLastUsed(p) \/ Schedule(p)
        PROVE  UNCHANGED ownerVars
    BY <1>9 DEF NewNSFails, StampLastUsed, Schedule, poolVars, nsVars, ownerVars
  <1>10. ASSUME FillCheck \/ FillRetry \/ CloseWait \/ Tick
         PROVE  UNCHANGED ownerVars
    BY <1>10 DEF FillCheck, FillRetry, CloseWait, Tick, poolVars, nsVars, ownerVars
  <1>11. CASE UNCHANGED vars
    BY <1>8, <1>11 DEF vars, ownerVars
  <1>12. QED
    BY <1>1, <1>2, <1>3, <1>4, <1>5, <1>6, <1>7, <1>8, <1>9, <1>10, <1>11
       DEF Next, CallStep

(* No namespace has two owners: in no interleaving of get, put, allocNew,  *)
(* the filler, an eviction and close is a namespace handed out twice, or   *)
(* torn down while a build or the pool still has it.                       *)
THEOREM SoleOwnership == Spec => []SoleOwner
  <1>1. Init => TypeOK /\ HeldInv /\ OwnerInv
    BY InitTypeOK, InitOwner
  <1>2. TypeOK /\ HeldInv /\ OwnerInv /\ [Next]_vars
           => TypeOK' /\ HeldInv' /\ OwnerInv'
    BY NextTypeOK, NextOwner
  <1>3. Spec => [](TypeOK /\ HeldInv /\ OwnerInv)
    BY <1>1, <1>2, PTL DEF Spec
  <1>4. TypeOK /\ HeldInv /\ OwnerInv => SoleOwner
    BY DEF OwnerInv
  <1>5. QED BY <1>3, <1>4, PTL

-----------------------------------------------------------------------------
(* The books of the pool *)

(* Where the three goroutines of the provider can be, what a closed pool   *)
(* is, and who has namespaces left to release.  The filler allocates only  *)
(* for a target.                                                           *)
RoleInv ==
    /\ pc[Closer] \in {"idle", "release", "waitFill", "done"}
    /\ pc[Cleaner] \in {"idle", "release"}
    /\ pc[Closer] # "idle" => closed
    /\ closed => available = <<>>
    /\ pc[Closer] = "done" => fillDone
    /\ fillDone => pc[Filler] = "done"
    /\ pc[Filler] \in {"alloc", "register", "using", "put"} => TargetSize > 0
    /\ \A p \in Procs : toRelease[p] # <<>> => pc[p] \in {"release", "releaseErr"}

(* Every namespace that was created is somewhere. *)
Placed(n) ==
    \/ n \in SeqRange(available) \cup released
    \/ \E p \in Procs : n = held[p] \/ n \in SeqRange(toRelease[p])
Traced == \A n \in created : Placed(n)

BooksInv == TypeOK /\ HeldInv /\ RoleInv /\ SizeCountsOpenPool /\ SizeBounded /\ Traced

LEMMA ProcsFinite == IsFiniteSet(Procs)
  <1>1. Procs = ((Clients \cup {Filler}) \cup {Cleaner}) \cup {Closer}
    BY DEF Procs
  <1>2. IsFiniteSet(Clients \cup {Filler})
    BY ClientsAssumption, FS_AddElement
  <1>3. IsFiniteSet((Clients \cup {Filler}) \cup {Cleaner})
    BY <1>2, FS_AddElement
  <1>4. QED BY <1>1, <1>3, FS_AddElement

At(f, L) == {q \in Procs : f[q] \in L}

(* How many goroutines are at one of the labels L, when one of them moves. *)
LEMMA Counting ==
    ASSUME TypeOK, NEW p \in Procs, NEW l \in Labels, NEW L, pc' = [pc EXCEPT ![p] = l]
    PROVE  /\ Cardinality(At(pc, L)) \in Nat
           /\ Cardinality(At(pc', L))
                 = Cardinality(At(pc, L)) + (IF l \in L THEN 1 ELSE 0) - (IF pc[p] \in L THEN 1 ELSE 0)
  <1> DEFINE A == At(pc, L)
             B == At(pc', L)
  <1>1. A \in SUBSET Procs
    BY DEF At
  <1>2. IsFiniteSet(A)
    BY <1>1, ProcsFinite, FS_Subset
  <1>3. Cardinality(A) \in Nat
    BY <1>2, FS_CardinalityType
  <1>4. \A q \in Procs : pc'[q] = IF q = p THEN l ELSE pc[q]
    BY DEF TypeOK
  <1>5. p \in A <=> pc[p] \in L
    BY DEF At
  <1>6. B = IF l \in L THEN A \cup {p} ELSE A \ {p}
    BY <1>4 DEF At
  <1>7. CASE l \in L
    <2>1. Cardinality(A \cup {p}) = IF p \in A THEN Cardinality(A) ELSE Cardinality(A) + 1
      BY <1>2, FS_AddElement
    <2>2. B = A \cup {p}
      BY <1>6, <1>7
    <2>3. Cardinality(B) = IF p \in A THEN Cardinality(A) ELSE Cardinality(A) + 1
      BY <2>1, <2>2
    <2>4. QED BY <1>3, <1>5, <1>7, <2>3
  <1>8. CASE l \notin L
    <2>1. Cardinality(A \ {p}) = IF p \in A THEN Cardinality(A) - 1 ELSE Cardinality(A)
      BY <1>2, FS_RemoveElement
    <2>2. B = A \ {p}
      BY <1>6, <1>8
    <2>3. Cardinality(B) = IF p \in A THEN Cardinality(A) - 1 ELSE Cardinality(A)
      BY <2>1, <2>2
    <2>4. QED BY <1>3, <1>5, <1>8, <2>3
  <1>9. QED BY <1>7, <1>8

(* The same for the two counts of the books. *)
Uses(l) == IF l \in {"using", "put"} THEN 1 ELSE 0
Allocates(l) == IF l \in {"alloc", "register"} THEN 1 ELSE 0
LEMMA Counts ==
    ASSUME TypeOK, NEW p \in Procs, NEW l \in Labels, pc' = [pc EXCEPT ![p] = l]
    PROVE  /\ Cardinality(InUse) \in Nat /\ Cardinality(Allocating) \in Nat
           /\ Cardinality(InUse') = Cardinality(InUse) + Uses(l) - Uses(pc[p])
           /\ Cardinality(Allocating') = Cardinality(Allocating) + Allocates(l) - Allocates(pc[p])
  <1>1. InUse = At(pc, {"using", "put"}) /\ InUse' = At(pc', {"using", "put"})
    BY DEF InUse, At
  <1>2. Allocating = At(pc, {"alloc", "register"}) /\ Allocating' = At(pc', {"alloc", "register"})
    BY DEF Allocating, At
  <1>3. /\ Cardinality(InUse) \in Nat
        /\ Cardinality(InUse') = Cardinality(InUse) + Uses(l) - Uses(pc[p])
    BY <1>1, Counting DEF Uses
  <1>4. /\ Cardinality(Allocating) \in Nat
        /\ Cardinality(Allocating') = Cardinality(Allocating) + Allocates(l) - Allocates(pc[p])
    BY <1>2, Counting DEF Allocates
  <1>5. QED BY <1>3, <1>4

(* Builds and, when there is a target, the filler are all that use         *)
(* namespaces or allocate them.                                            *)
LEMMA CountsBound ==
    ASSUME NEW f \in [Procs -> Labels],
           f[Closer] \in {"idle", "release", "waitFill", "done"}, f[Cleaner] \in {"idle", "release"},
           f[Filler] \in {"alloc", "register", "using", "put"} => TargetSize > 0
    PROVE  Cardinality(At(f, {"using", "put"})) + Cardinality(At(f, {"alloc", "register"}))
               <= TargetSize + Cardinality(Clients)
  <1> DEFINE U == At(f, {"using", "put"})
             A == At(f, {"alloc", "register"})
  <1>1. /\ IsFiniteSet(Clients \cup {Filler})
        /\ Cardinality(Clients \cup {Filler}) = Cardinality(Clients) + 1
        /\ Cardinality(Clients) \in Nat
    BY ClientsAssumption, FS_AddElement, FS_CardinalityType
  <1>2. U \subseteq Clients \cup {Filler} /\ A \subseteq Clients \cup {Filler} /\ U \cap A = {}
    BY DEF At, Procs
  <1>3. Filler \in U \cup A => TargetSize > 0
    BY DEF At
  <1> HIDE DEF U, A
  <1>4. IsFiniteSet(U) /\ IsFiniteSet(A)
    BY <1>1, <1>2, FS_Subset
  <1>5. IsFiniteSet(U \cup A) /\ Cardinality(U \cup A) = Cardinality(U) + Cardinality(A)
    <2>1. IsFiniteSet(U \cup A) /\ Cardinality(U \cup A) = Cardinality(U) + Cardinality(A) - Cardinality(U \cap A)
      BY <1>4, FS_Union
    <2>2. Cardinality(U \cap A) = 0
      BY <1>2, FS_EmptySet
    <2>3. Cardinality(U) \in Nat /\ Cardinality(A) \in Nat
      BY <1>4, FS_CardinalityType
    <2>4. QED BY <2>1, <2>2, <2>3
  <1>6. Cardinality(U \cup A) \in Nat
    BY <1>5, FS_CardinalityType
  <1>7. Cardinality(U \cup A) <= TargetSize + Cardinality(Clients)
    <2>1. CASE Filler \in U \cup A
      <3>1. Cardinality(U \cup A) <= Cardinality(Clients) + 1
        BY <1>1, <1>2, FS_Subset
      <3>2. QED BY <1>1, <1>3, <1>6, <2>1, <3>1
    <2>2. CASE Filler \notin U \cup A
      <3>1. U \cup A \in SUBSET Clients
        BY <1>2, <2>2
      <3>2. Cardinality(U \cup A) <= Cardinality(Clients)
        BY <3>1, ClientsAssumption, FS_Subset
      <3>3. QED BY <1>1, <1>6, <3>2
    <2>3. QED BY <2>1, <2>2
  <1>8. QED BY <1>5, <1>7 DEF U, A

(* No element is lost when a sequence is cut in two. *)
LEMMA CutFacts ==
    ASSUME NEW s \in Seq(NS), NEW k \in 0..Len(s)
    PROVE  LET a == SubSeq(s, 1, k)
               b == SubSeq(s, k + 1, Len(s))
           IN  /\ Len(a) = k /\ Len(b) = Len(s) - k
               /\ SeqRange(s) \subseteq SeqRange(a) \cup SeqRange(b)
  <1> DEFINE a == SubSeq(s, 1, k)
             b == SubSeq(s, k + 1, Len(s))
  <1>1. Len(s) \in Nat /\ DOMAIN s = 1..Len(s)
    OBVIOUS
  <1>2. /\ Len(a) = k /\ DOMAIN a = 1..k
        /\ \A i \in 1..k : a[i] = s[i]
    BY <1>1, SubSeqProperties
  <1>3. Len(b) = Len(s) - k
    <2>1. k + 1 \in Int /\ Len(s) \in Int /\ \A i \in (k + 1)..Len(s) : s[i] \in NS
      BY <1>1
    <2>2. Len(b) = IF k + 1 <= Len(s) THEN Len(s) - (k + 1) + 1 ELSE 0
      BY <2>1, SubSeqProperties
    <2> DEFINE n == Len(s)
               m == Len(b)
    <2>3. n \in Nat /\ k \in 0..n /\ m = IF k + 1 <= n THEN n - (k + 1) + 1 ELSE 0
      BY <1>1, <2>2
    <2> HIDE DEF n, m, b
    <2>4. m = n - k
      BY <2>3
    <2>5. QED BY <2>4 DEF n, m
  <1>4. DOMAIN b = 1..(Len(s) - k) /\ \A i \in 1..(Len(s) - k) : b[i] = s[k + i]
    BY <1>1
  <1> HIDE DEF a, b
  <1>5. ASSUME NEW i \in DOMAIN s PROVE s[i] \in SeqRange(a) \cup SeqRange(b)
    <2>1. CASE i <= k
      <3>1. i \in DOMAIN a /\ a[i] = s[i]
        BY <1>1, <1>2, <2>1
      <3>2. QED BY <3>1 DEF SeqRange
    <2>2. CASE i > k
      <3>1. i - k \in 1..(Len(s) - k) /\ k + (i - k) = i
        BY <1>1, <2>2
      <3>2. i - k \in DOMAIN b /\ b[i - k] = s[i]
        BY <1>4, <3>1
      <3>3. QED BY <3>2 DEF SeqRange
    <2>3. QED BY <1>1, <2>1, <2>2
  <1>6. QED BY <1>2, <1>3, <1>5 DEF SeqRange, a, b

LEMMA HeadFacts ==
    ASSUME NEW s \in Seq(NS), s # <<>>
    PROVE  SeqRange(s) \subseteq {Head(s)} \cup SeqRange(Tail(s))
  <1> DEFINE t == Tail(s)
  <1>1. Len(s) \in Nat \ {0} /\ DOMAIN s = 1..Len(s)
    OBVIOUS
  <1>2. DOMAIN t = 1..(Len(s) - 1) /\ Head(s) = s[1] /\ \A i \in 1..(Len(s) - 1) : t[i] = s[i + 1]
    BY <1>1
  <1> HIDE DEF t
  <1>3. ASSUME NEW i \in DOMAIN s PROVE s[i] \in {s[1]} \cup SeqRange(t)
    <2>1. CASE i = 1
      BY <2>1
    <2>2. CASE i # 1
      <3>1. i - 1 \in DOMAIN t /\ t[i - 1] = s[i]
        BY <1>1, <1>2, <2>2
      <3>2. QED BY <3>1 DEF SeqRange
    <2>3. QED BY <2>1, <2>2
  <1>4. QED BY <1>2, <1>3 DEF SeqRange, t

-----------------------------------------------------------------------------
LEMMA InitBooks == Init => BooksInv
  <1> SUFFICES ASSUME Init PROVE BooksInv
    OBVIOUS
  <1>1. RoleInv /\ Traced
    BY ProcFacts DEF Init, RoleInv, Traced, Placed
  <1>2. InUse = {} /\ Allocating = {}
    BY DEF Init, InUse, Allocating
  <1>3. Cardinality(InUse) = 0 /\ Cardinality(Allocating) = 0 /\ Cardinality(Clients) \in Nat
    BY <1>2, ClientsAssumption, FS_EmptySet, FS_CardinalityType
  <1>4. SizeCountsOpenPool /\ SizeBounded
    BY <1>3 DEF Init, SizeCountsOpenPool, SizeBounded
  <1>5. QED BY <1>1, <1>4, InitTypeOK DEF BooksInv

LEMMA NextRole == BooksInv /\ [Next]_vars => RoleInv'
  <1> SUFFICES ASSUME BooksInv, [Next]_vars PROVE RoleInv'
    OBVIOUS
  <1> USE ProcFacts DEF TypeOK, RoleInv, poolVars, timeVars, nsVars
  <1>0. TypeOK /\ HeldInv /\ RoleInv /\ SizeCountsOpenPool
    BY DEF BooksInv
  <1>1. ASSUME NEW c \in Clients, Get(c) PROVE RoleInv'
    BY <1>0, <1>1, EmptySeq DEF Get
  <1>2. ASSUME NEW p \in Procs, NewNS(p) \/ NewNSFails(p) PROVE RoleInv'
    <2>1. p # Closer /\ p # Cleaner /\ pc[p] = "alloc" /\ toRelease' = toRelease /\ fillDone' = fillDone
      BY <1>0, <1>2 DEF NewNS, NewNSFails
    <2>2. UNCHANGED <<closed, available>>
      BY <1>2 DEF NewNS, NewNSFails
    <2>3. PICK l \in {"register", "backoff", "idle"} : pc' = [pc EXCEPT ![p] = l]
      BY <1>2 DEF NewNS, NewNSFails, AfterError
    <2>4. \A q \in Procs : q # p => pc'[q] = pc[q]
      BY <1>0, <2>3
    <2>5. pc'[p] = l
      BY <1>0, <2>3
    <2>6. QED BY <1>0, <2>1, <2>2, <2>4, <2>5
  <1>3. ASSUME NEW p \in Procs, Register(p) PROVE RoleInv'
    BY <1>0, <1>3 DEF Register
  <1>4. ASSUME NEW p \in Clients \cup {Filler}, StampLastUsed(p) PROVE RoleInv'
    BY <1>0, <1>4 DEF StampLastUsed
  <1>5. ASSUME NEW p \in Procs, Put(p) PROVE RoleInv'
    BY <1>0, <1>5 DEF Put, AfterCall
  <1>6. ASSUME NEW p \in Procs, Schedule(p) PROVE RoleInv'
    BY <1>0, <1>6 DEF Schedule, AfterCall
  <1>7. ASSUME NEW p \in Procs, Release(p) PROVE RoleInv'
    BY <1>0, <1>7 DEF Release, AfterRelease, AfterCall, AfterError
  <1>8. CASE FillCheck
    <2>1. ~closed => actualSize >= 0
      <3>0. InUse \in SUBSET Procs
        BY DEF InUse
      <3>1. Cardinality(InUse) \in Nat
        BY <3>0, ProcsFinite, FS_Subset, FS_CardinalityType
      <3>2. QED BY <1>0, <3>1 DEF SizeCountsOpenPool
    <2>2. pc' = [pc EXCEPT ![Filler] = "alloc"] => TargetSize > 0
      BY <1>0, <1>8, <2>1 DEF FillCheck
    <2>3. CASE pc' = [pc EXCEPT ![Filler] = "alloc"] /\ UNCHANGED fillDone
      BY <1>0, <1>8, <2>2, <2>3 DEF FillCheck
    <2>4. CASE pc' = [pc EXCEPT ![Filler] = "done"] /\ fillDone'
      BY <1>0, <1>8, <2>4 DEF FillCheck
    <2>5. QED BY <1>8, <2>3, <2>4 DEF FillCheck
  <1>9. CASE FillRetry \/ CloseWait
    <2>1. CASE FillRetry
      BY <1>0, <2>1 DEF FillRetry
    <2>2. CASE CloseWait
      BY <1>0, <2>2 DEF CloseWait
    <2>3. QED BY <1>9, <2>1, <2>2
  <1>10. CASE Cleanup
    <2>1. available = <<>> => available' = <<>>
      BY <1>0, <1>10 DEF Cleanup
    <2>2. QED BY <1>0, <1>10, <2>1 DEF Cleanup
  <1>11. CASE Close
    BY <1>0, <1>11 DEF Close
  <1>12. CASE Tick \/ UNCHANGED vars
    BY <1>0, <1>12 DEF Tick, vars
  <1>13. QED
    BY <1>1, <1>2, <1>3, <1>4, <1>5, <1>6, <1>7, <1>8, <1>9, <1>10, <1>11, <1>12 DEF Next, CallStep

(* The arithmetic of a move. *)
LEMMA BooksSum ==
    ASSUME NEW size \in Int, NEW size2 \in Int, NEW len \in Int, NEW len2 \in Int, NEW use \in Nat, NEW use2,
           NEW u \in 0..1, NEW v \in 0..1,
           size = len + use, use2 = use + v - u, size2 - len2 - v = size - len - u
    PROVE  size2 = len2 + use2
  OBVIOUS
LEMMA BooksSlack ==
    ASSUME NEW size \in Int, NEW size2 \in Int, NEW n \in Nat, NEW n2, NEW most \in Int, NEW a \in 0..1, NEW b \in 0..1,
           size + n <= most, n2 = n + b - a, size2 + b <= size + a
    PROVE  size2 + n2 <= most
  OBVIOUS

(* A goroutine moves, the pool stays open, and what the books say changes  *)
(* as the goroutine's place does.                                          *)
LEMMA BooksMove ==
    ASSUME TypeOK, SizeCountsOpenPool, SizeBounded, NEW p \in Procs, NEW l \in Labels, pc' = [pc EXCEPT ![p] = l],
           ~closed, ~closed', actualSize' \in Int, Len(available') \in Int,
           actualSize' - Len(available') - Uses(l) = actualSize - Len(available) - Uses(pc[p]),
           actualSize' + Allocates(l) <= actualSize + Allocates(pc[p])
    PROVE  SizeCountsOpenPool' /\ SizeBounded'
  <1>1. /\ Cardinality(InUse) \in Nat /\ Cardinality(Allocating) \in Nat
        /\ Cardinality(InUse') = Cardinality(InUse) + Uses(l) - Uses(pc[p])
        /\ Cardinality(Allocating') = Cardinality(Allocating) + Allocates(l) - Allocates(pc[p])
    BY Counts
  <1>2. /\ Uses(l) \in 0..1 /\ Uses(pc[p]) \in 0..1 /\ Allocates(l) \in 0..1 /\ Allocates(pc[p]) \in 0..1
        /\ Cardinality(Clients) \in Nat /\ Len(available) \in Nat /\ actualSize \in Int
    BY ClientsAssumption, FS_CardinalityType DEF Uses, Allocates, TypeOK
  <1>3. actualSize = Len(available) + Cardinality(InUse)
    BY DEF SizeCountsOpenPool
  <1>4. actualSize + Cardinality(Allocating) <= TargetSize + Cardinality(Clients)
    BY DEF SizeBounded
  <1> DEFINE size == actualSize
             size2 == actualSize'
             len == Len(available)
             len2 == Len(available')
             use == Cardinality(InUse)
             use2 == Cardinality(InUse')
             new == Cardinality(Allocating)
             new2 == Cardinality(Allocating')
             most == TargetSize + Cardinality(Clients)
             u == Uses(pc[p])
             v == Uses(l)
             a == Allocates(pc[p])
             b == Allocates(l)
  <1>n. /\ size \in Int /\ size2 \in Int /\ len \in Int /\ len2 \in Int /\ use \in Nat /\ new \in Nat /\ most \in Int
        /\ u \in 0..1 /\ v \in 0..1 /\ a \in 0..1 /\ b \in 0..1
    BY <1>1, <1>2
  <1>m. /\ size = len + use /\ use2 = use + v - u /\ size2 - len2 - v = size - len - u
        /\ size + new <= most /\ new2 = new + b - a /\ size2 + b <= size + a
    BY <1>1, <1>3, <1>4
  <1> HIDE DEF size, size2, len, len2, use, use2, new, new2, most, u, v, a, b
  <1>h. size2 = len2 + use2
    BY <1>n, <1>m
  <1>g. size2 + new2 <= most
    BY <1>n, <1>m
  <1>5. actualSize' = Len(available') + Cardinality(InUse')
    BY <1>h DEF size2, len2, use2
  <1>6. actualSize' + Cardinality(Allocating') <= TargetSize + Cardinality(Clients)
    BY <1>g DEF size2, new2, most
  <1>7. QED BY <1>5, <1>6 DEF SizeCountsOpenPool, SizeBounded

(* A closed pool does not grow. *)
LEMMA BooksClosed ==
    ASSUME TypeOK, SizeBounded, closed, closed', UNCHANGED actualSize
    PROVE  SizeCountsOpenPool' /\ SizeBounded'
  BY DEF SizeCountsOpenPool, SizeBounded

LEMMA NextSize == BooksInv /\ [Next]_vars => SizeCountsOpenPool' /\ SizeBounded'
  <1> SUFFICES ASSUME BooksInv, [Next]_vars PROVE SizeCountsOpenPool' /\ SizeBounded'
    OBVIOUS
  <1> USE ProcFacts DEF poolVars, timeVars, nsVars
  <1>0. TypeOK /\ RoleInv /\ SizeCountsOpenPool /\ SizeBounded
    BY DEF BooksInv
  <1>t. actualSize \in Int /\ available \in Seq(NS) /\ Len(available) \in Nat /\ pc \in [Procs -> Labels]
    BY <1>0 DEF TypeOK
  <1>1. ASSUME NEW c \in Clients, Get(c) PROVE SizeCountsOpenPool' /\ SizeBounded'
    <2>0. c \in Procs /\ UNCHANGED <<actualSize, closed>> /\ pc[c] = "idle"
      BY <1>1 DEF Get
    <2>1. CASE closed
      BY <1>0, <2>0, <2>1, BooksClosed
    <2>2. CASE ~closed /\ available # <<>>
      <3>1. pc' = [pc EXCEPT ![c] = "using"] /\ available' = SubSeq(available, 1, Len(available) - 1)
        BY <1>1, <2>2 DEF Get
      <3>2. Len(available) - 1 \in 0..Len(available)
        BY <1>t, <2>2, EmptySeq
      <3>3. Len(available') = Len(available) - 1
        BY <1>t, <3>1, <3>2, CutFacts
      <3>4. Uses("using") = 1 /\ Uses("idle") = 0 /\ Allocates("using") = 0 /\ Allocates("idle") = 0 /\ "using" \in Labels
        BY DEF Uses, Allocates, Labels
      <3>5. /\ actualSize' - Len(available') - Uses("using") = actualSize - Len(available) - Uses(pc[c])
            /\ actualSize' + Allocates("using") <= actualSize + Allocates(pc[c])
        BY <1>t, <2>0, <3>3, <3>4
      <3>6. ~closed' /\ actualSize' \in Int /\ Len(available') \in Int
        BY <1>t, <2>0, <2>2, <3>3
      <3>7. QED BY <1>0, <2>0, <2>2, <3>1, <3>4, <3>5, <3>6, BooksMove
    <2>3. CASE ~closed /\ available = <<>>
      <3>1. pc' = [pc EXCEPT ![c] = "alloc"] /\ UNCHANGED available
        BY <1>1, <2>3 DEF Get
      <3>2. TypeOK' /\ RoleInv'
        BY NextTypeOK, NextRole DEF BooksInv
      <3>3. "alloc" \in Labels /\ Uses("alloc") = 0 /\ Uses("idle") = 0 /\ Allocates("alloc") = 1 /\ Allocates("idle") = 0
        BY DEF Uses, Allocates, Labels
      <3>4. /\ Cardinality(InUse) \in Nat /\ Cardinality(Allocating) \in Nat
            /\ Cardinality(InUse') = Cardinality(InUse)
            /\ Cardinality(Allocating') = Cardinality(Allocating) + 1
        <4>1. /\ Cardinality(InUse) \in Nat /\ Cardinality(Allocating) \in Nat
              /\ Cardinality(InUse') = Cardinality(InUse) + Uses("alloc") - Uses(pc[c])
              /\ Cardinality(Allocating') = Cardinality(Allocating) + Allocates("alloc") - Allocates(pc[c])
          BY <1>0, <2>0, <3>1, <3>3, Counts
        <4>2. Uses("alloc") = 0 /\ Uses(pc[c]) = 0 /\ Allocates("alloc") = 1 /\ Allocates(pc[c]) = 0
          BY <2>0, <3>3
        <4>3. QED BY <4>1, <4>2
      <3>5. actualSize = Cardinality(InUse)
        BY <1>0, <1>t, <2>3, <3>4 DEF SizeCountsOpenPool
      <3>6. Cardinality(InUse') + Cardinality(Allocating') <= TargetSize + Cardinality(Clients)
        <4>1. InUse' = At(pc', {"using", "put"}) /\ Allocating' = At(pc', {"alloc", "register"})
          BY DEF InUse, Allocating, At
        <4>2. /\ pc' \in [Procs -> Labels]
              /\ pc'[Closer] \in {"idle", "release", "waitFill", "done"} /\ pc'[Cleaner] \in {"idle", "release"}
              /\ pc'[Filler] \in {"alloc", "register", "using", "put"} => TargetSize > 0
          BY <3>2 DEF TypeOK, RoleInv
        <4>3. QED BY <4>1, <4>2, CountsBound
      <3>7. QED BY <2>0, <2>3, <3>1, <3>4, <3>5, <3>6 DEF SizeCountsOpenPool, SizeBounded
    <2>4. QED BY <2>1, <2>2, <2>3
  <1>2. ASSUME NEW p \in Procs, NEW l \in Labels, pc' = [pc EXCEPT ![p] = l], UNCHANGED poolVars,
               Uses(l) = Uses(pc[p]), Allocates(l) <= Allocates(pc[p]), Allocates(l) \in 0..1
        PROVE  SizeCountsOpenPool' /\ SizeBounded'
    <2>1. CASE closed
      BY <1>0, <1>2, <2>1, BooksClosed
    <2>2. CASE ~closed
      <3>1. Uses(l) \in 0..1 /\ Allocates(pc[p]) \in 0..1
        BY DEF Uses, Allocates
      <3>2. /\ actualSize' = actualSize /\ available' = available /\ closed' = closed
        BY <1>2
      <3>3. /\ actualSize' - Len(available') - Uses(l) = actualSize - Len(available) - Uses(pc[p])
            /\ actualSize' + Allocates(l) <= actualSize + Allocates(pc[p])
        BY <1>t, <1>2, <3>1, <3>2
      <3>4. ~closed' /\ actualSize' \in Int /\ Len(available') \in Int
        BY <1>t, <2>2, <3>2
      <3>5. QED BY <1>0, <1>2, <2>2, <3>3, <3>4, BooksMove
    <2>3. QED BY <2>1, <2>2
  <1>3. ASSUME NEW p \in Procs, NewNS(p) \/ NewNSFails(p) \/ StampLastUsed(p) \/ Schedule(p)
        PROVE  SizeCountsOpenPool' /\ SizeBounded'
    <2>1. UNCHANGED poolVars
      BY <1>3 DEF NewNS, NewNSFails, StampLastUsed, Schedule
    <2>2. CASE NewNS(p) \/ NewNSFails(p)
      <3>1. PICK l \in {"register", "backoff", "idle"} : pc[p] = "alloc" /\ pc' = [pc EXCEPT ![p] = l]
        BY <2>2 DEF NewNS, NewNSFails, AfterError
      <3>2. l \in Labels /\ Uses(l) = Uses(pc[p]) /\ Allocates(l) <= Allocates(pc[p]) /\ Allocates(l) \in 0..1
        BY <3>1 DEF Uses, Allocates, Labels
      <3>3. QED BY <1>2, <2>1, <3>1, <3>2
    <2>3. CASE StampLastUsed(p)
      <3>1. pc[p] = "using" /\ pc' = [pc EXCEPT ![p] = "put"]
        BY <2>3 DEF StampLastUsed
      <3>2. /\ "put" \in Labels /\ Uses("put") = Uses(pc[p])
            /\ Allocates("put") <= Allocates(pc[p]) /\ Allocates("put") \in 0..1
        BY <3>1 DEF Uses, Allocates, Labels
      <3>3. QED BY <1>2, <2>1, <3>1, <3>2
    <2>4. CASE Schedule(p)
      <3>1. PICK l \in {"check", "idle"} : pc[p] = "schedule" /\ pc' = [pc EXCEPT ![p] = l]
        BY <2>4 DEF Schedule, AfterCall
      <3>2. l \in Labels /\ Uses(l) = Uses(pc[p]) /\ Allocates(l) <= Allocates(pc[p]) /\ Allocates(l) \in 0..1
        BY <3>1 DEF Uses, Allocates, Labels
      <3>3. QED BY <1>2, <2>1, <3>1, <3>2
    <2>5. QED BY <1>3, <2>2, <2>3, <2>4
  <1>4. ASSUME NEW p \in Procs, Register(p) PROVE SizeCountsOpenPool' /\ SizeBounded'
    <2>1. CASE closed
      BY <1>0, <1>4, <2>1, BooksClosed DEF Register
    <2>2. CASE ~closed
      <3>1. /\ actualSize' = actualSize + 1 /\ UNCHANGED <<available, closed>>
            /\ pc[p] = "register" /\ pc' = [pc EXCEPT ![p] = "using"]
        BY <1>4, <2>2 DEF Register
      <3>2. "using" \in Labels /\ Uses("using") = 1 /\ Uses("register") = 0 /\ Allocates("using") = 0 /\ Allocates("register") = 1
        BY DEF Uses, Allocates, Labels
      <3>3. /\ actualSize' - Len(available') - Uses("using") = actualSize - Len(available) - Uses(pc[p])
            /\ actualSize' + Allocates("using") <= actualSize + Allocates(pc[p])
        BY <1>t, <3>1, <3>2
      <3>4. ~closed' /\ actualSize' \in Int /\ Len(available') \in Int
        BY <1>t, <2>2, <3>1
      <3>5. QED BY <1>0, <2>2, <3>1, <3>2, <3>3, <3>4, BooksMove
    <2>3. QED BY <2>1, <2>2
  <1>5. ASSUME NEW p \in Procs, Put(p) PROVE SizeCountsOpenPool' /\ SizeBounded'
    <2>1. CASE closed
      BY <1>0, <1>5, <2>1, BooksClosed DEF Put
    <2>2. CASE ~closed
      <3>1. PICK l \in {"schedule", "check", "idle"} :
                /\ available' = Append(available, held[p]) /\ UNCHANGED <<actualSize, closed>>
                /\ pc[p] = "put" /\ pc' = [pc EXCEPT ![p] = l]
        BY <1>5, <2>2 DEF Put, AfterCall
      <3>2. Len(available') = Len(available) + 1
        BY <1>t, <3>1
      <3>3. l \in Labels /\ Uses(l) = 0 /\ Uses("put") = 1 /\ Allocates(l) = 0 /\ Allocates("put") = 0
        BY DEF Uses, Allocates, Labels
      <3>4. /\ actualSize' - Len(available') - Uses(l) = actualSize - Len(available) - Uses(pc[p])
            /\ actualSize' + Allocates(l) <= actualSize + Allocates(pc[p])
        BY <1>t, <3>1, <3>2, <3>3
      <3>5. ~closed' /\ actualSize' \in Int /\ Len(available') \in Int
        BY <1>t, <2>2, <3>1, <3>2
      <3>6. QED BY <1>0, <2>2, <3>1, <3>3, <3>4, <3>5, BooksMove
    <2>3. QED BY <2>1, <2>2
  <1>6. ASSUME NEW p \in Procs, Release(p) PROVE SizeCountsOpenPool' /\ SizeBounded'
    <2>1. UNCHANGED poolVars /\ pc[p] \in {"release", "releaseErr"}
      BY <1>6 DEF Release
    <2>2. PICK l \in {"release", "releaseErr", "waitFill", "idle", "backoff", "check"} : pc' = [pc EXCEPT ![p] = l]
      <3>1. CASE toRelease[p] # <<>>
        BY <1>6, <1>t, <2>1, <3>1 DEF Release
      <3>2. CASE toRelease[p] = <<>>
        BY <1>6, <3>2 DEF Release, AfterRelease, AfterCall, AfterError
      <3>3. QED BY <3>1, <3>2
    <2>3. l \in Labels /\ Uses(l) = 0 /\ Uses(pc[p]) = 0 /\ Allocates(l) = 0 /\ Allocates(pc[p]) = 0
      BY <2>1 DEF Uses, Allocates, Labels
    <2>4. Uses(l) = Uses(pc[p]) /\ Allocates(l) <= Allocates(pc[p]) /\ Allocates(l) \in 0..1
      BY <2>3
    <2>5. QED BY <1>2, <2>1, <2>2, <2>3, <2>4
  <1>7. CASE FillCheck
    <2>0. UNCHANGED poolVars /\ pc[Filler] = "check"
      BY <1>7 DEF FillCheck
    <2>1. CASE closed
      BY <1>0, <2>0, <2>1, BooksClosed
    <2>2. CASE ~closed /\ TargetSize - actualSize <= 0
      <3>1. pc' = [pc EXCEPT ![Filler] = "done"]
        BY <1>7, <1>t, <2>2 DEF FillCheck
      <3>2. /\ "done" \in Labels /\ Uses("done") = Uses(pc[Filler])
            /\ Allocates("done") <= Allocates(pc[Filler]) /\ Allocates("done") \in 0..1
        BY <2>0 DEF Uses, Allocates, Labels
      <3>3. QED BY <1>2, <2>0, <3>1, <3>2
    <2>3. CASE ~closed /\ ~(TargetSize - actualSize <= 0)
      <3>1. pc' = [pc EXCEPT ![Filler] = "alloc"]
        BY <1>7, <1>t, <2>3 DEF FillCheck
      <3>2. "alloc" \in Labels /\ Uses("alloc") = 0 /\ Uses("check") = 0 /\ Allocates("alloc") = 1 /\ Allocates("check") = 0
        BY DEF Uses, Allocates, Labels
      <3>3. /\ Cardinality(InUse) \in Nat /\ Cardinality(Allocating) \in Nat
            /\ Cardinality(InUse') = Cardinality(InUse)
            /\ Cardinality(Allocating') = Cardinality(Allocating) + 1
        <4>1. /\ Cardinality(InUse) \in Nat /\ Cardinality(Allocating) \in Nat
              /\ Cardinality(InUse') = Cardinality(InUse) + Uses("alloc") - Uses(pc[Filler])
              /\ Cardinality(Allocating') = Cardinality(Allocating) + Allocates("alloc") - Allocates(pc[Filler])
          BY <1>0, <2>0, <3>1, <3>2, Counts
        <4>2. Uses("alloc") = 0 /\ Uses(pc[Filler]) = 0 /\ Allocates("alloc") = 1 /\ Allocates(pc[Filler]) = 0
          BY <2>0, <3>2
        <4>3. QED BY <4>1, <4>2
      <3>4. Cardinality(Allocating) <= Cardinality(Clients) /\ Cardinality(Clients) \in Nat
        <4>1. Allocating \in SUBSET Clients
          BY <1>0, <2>0 DEF Allocating, Procs, RoleInv
        <4>2. QED BY <4>1, ClientsAssumption, FS_Subset, FS_CardinalityType
      <3>5. actualSize + Cardinality(Allocating') <= TargetSize + Cardinality(Clients)
        BY <1>t, <2>3, <3>3, <3>4
      <3>6. QED BY <1>0, <2>0, <2>3, <3>3, <3>5 DEF SizeCountsOpenPool, SizeBounded
    <2>4. QED BY <2>1, <2>2, <2>3
  <1>8. CASE FillRetry \/ CloseWait
    <2>1. UNCHANGED poolVars
      BY <1>8 DEF FillRetry, CloseWait
    <2>2. \/ pc[Filler] = "backoff" /\ pc' = [pc EXCEPT ![Filler] = "check"]
          \/ pc[Closer] = "waitFill" /\ pc' = [pc EXCEPT ![Closer] = "done"]
      BY <1>8 DEF FillRetry, CloseWait
    <2>3. QED BY <1>2, <2>1, <2>2 DEF Uses, Allocates, Labels
  <1>9. CASE Cleanup
    <2>1. PICK k \in 0..Len(available) : /\ actualSize' = actualSize - k
                                         /\ available' = SubSeq(available, k + 1, Len(available))
      BY <1>9 DEF Cleanup
    <2>2. Len(available') = Len(available) - k
      BY <1>t, <2>1, CutFacts
    <2>3. pc[Cleaner] = "idle" /\ pc' = [pc EXCEPT ![Cleaner] = "release"] /\ UNCHANGED closed
      BY <1>9 DEF Cleanup
    <2>4. "release" \in Labels /\ Uses("release") = 0 /\ Uses("idle") = 0 /\ Allocates("release") = 0 /\ Allocates("idle") = 0
      BY DEF Uses, Allocates, Labels
    <2>5. CASE ~closed
      <3>1. /\ actualSize' - Len(available') - Uses("release") = actualSize - Len(available) - Uses(pc[Cleaner])
            /\ actualSize' + Allocates("release") <= actualSize + Allocates(pc[Cleaner])
        <4> DEFINE len == Len(available)
                   len2 == Len(available')
        <4>1. len \in Nat /\ k \in Int /\ len2 = len - k /\ actualSize' = actualSize - k
          BY <1>t, <2>1, <2>2
        <4>2. /\ Uses(pc[Cleaner]) = 0 /\ Uses("release") = 0
              /\ Allocates(pc[Cleaner]) = 0 /\ Allocates("release") = 0 /\ k \in Nat
          BY <1>t, <2>1, <2>3, <2>4
        <4> HIDE DEF len, len2
        <4>3. actualSize' - len2 - 0 = actualSize - len - 0 /\ actualSize' + 0 <= actualSize + 0
          BY <1>t, <4>1, <4>2
        <4>4. QED BY <4>2, <4>3 DEF len, len2
      <3>2. ~closed' /\ actualSize' \in Int /\ Len(available') \in Int
        BY <1>t, <2>1, <2>2, <2>3, <2>5
      <3>3. QED BY <1>0, <2>3, <2>4, <2>5, <3>1, <3>2, BooksMove
    <2>6. CASE closed
      <3>1. Cardinality(Clients) \in Nat
        BY ClientsAssumption, FS_CardinalityType
      <3>2. QED BY <1>0, <1>t, <2>1, <2>3, <2>6, <3>1 DEF SizeCountsOpenPool, SizeBounded
    <2>7. QED BY <2>5, <2>6
  <1>10. CASE Close
    <2>1. closed' /\ actualSize' = actualSize - Len(available)
      BY <1>10 DEF Close
    <2>2. Allocating \in SUBSET Procs
      BY DEF Allocating
    <2>3. Cardinality(Clients) \in Nat /\ Cardinality(Allocating) \in Nat
      BY <2>2, ProcsFinite, ClientsAssumption, FS_Subset, FS_CardinalityType
    <2>4. QED BY <1>0, <1>t, <2>1, <2>3 DEF SizeCountsOpenPool, SizeBounded
  <1>11. CASE Tick \/ UNCHANGED vars
    <2>1. UNCHANGED <<actualSize, available, closed, pc>>
      BY <1>11 DEF Tick, vars
    <2>2. InUse' = InUse /\ Allocating' = Allocating
      BY <2>1 DEF InUse, Allocating
    <2>3. QED BY <1>0, <2>1, <2>2 DEF SizeCountsOpenPool, SizeBounded
  <1>12. QED
    BY <1>1, <1>3, <1>4, <1>5, <1>6, <1>7, <1>8, <1>9, <1>10, <1>11 DEF Next, CallStep, Procs

(* No action loses a namespace: none overwrites the last reference to it.  *)
LEMMA NextTraced == BooksInv /\ [Next]_vars => Traced'
  <1> SUFFICES ASSUME BooksInv, [Next]_vars PROVE Traced'
    OBVIOUS
  <1> USE ProcFacts DEF poolVars, timeVars, nsVars
  <1>0. TypeOK /\ HeldInv /\ RoleInv /\ Traced
    BY DEF BooksInv
  <1>t. /\ available \in Seq(NS) /\ Len(available) \in Nat /\ created \subseteq NS
        /\ held \in [Procs -> NS \cup {NoNS}] /\ toRelease \in [Procs -> Seq(NS)]
    BY <1>0 DEF TypeOK
  <1>e. \A p \in Procs : pc[p] \notin {"release", "releaseErr"} => SeqRange(toRelease[p]) = {}
    BY <1>0, SingletonFacts DEF RoleInv
  <1>k. ASSUME UNCHANGED <<available, released, held, toRelease, created>> PROVE Traced'
    BY <1>0, <1>k DEF Traced, Placed
  <1>1. ASSUME NEW c \in Clients, Get(c) PROVE Traced'
    <2>1. CASE available = <<>>
      BY <1>1, <1>k, <2>1, EmptySeq DEF Get
    <2>2. CASE available # <<>>
      <3>1. /\ available' = SubSeq(available, 1, Len(available) - 1)
            /\ held' = [held EXCEPT ![c] = available[Len(available)]]
            /\ UNCHANGED <<released, toRelease, created>> /\ pc[c] = "idle"
        BY <1>1, <2>2 DEF Get
      <3>2. held[c] = NoNS
        BY <1>0, <3>1 DEF HeldInv, Holding
      <3>3. SeqRange(available) \subseteq {available[Len(available)]} \cup SeqRange(available')
        <4> DEFINE k == Len(available) - 1
        <4>1. k \in 0..Len(available) /\ k + 1 = Len(available)
          BY <1>t, <2>2, EmptySeq
        <4>2. ASSUME NEW i \in DOMAIN available
              PROVE  available[i] \in {available[Len(available)]} \cup SeqRange(available')
          <5>1. DOMAIN available = 1..Len(available) /\ DOMAIN available' = 1..k
            BY <1>t, <3>1, <4>1
          <5>2. \A j \in 1..k : available'[j] = available[j]
            BY <1>t, <3>1, <4>1
          <5>3. CASE i = Len(available)
            BY <5>3
          <5>4. CASE i # Len(available)
            <6>1. i \in 1..k
              BY <1>t, <4>1, <5>1, <5>4
            <6>2. QED BY <5>1, <5>2, <6>1 DEF SeqRange
          <5>5. QED BY <5>3, <5>4
        <4>3. QED BY <4>2 DEF SeqRange
      <3> DEFINE x == available[Len(available)]
                 s == SeqRange(available)
      <3>4. s \subseteq {x} \cup SeqRange(available') /\ held' = [held EXCEPT ![c] = x]
        BY <3>1, <3>3
      <3> HIDE DEF x
      <3>5. ASSUME NEW n \in created PROVE Placed(n)'
        <4>1. Placed(n) /\ n # NoNS
          BY <1>0, <1>t, <3>5 DEF Traced
        <4>2. held'[c] = x /\ \A q \in Procs : q # c => held'[q] = held[q]
          BY <1>t, <3>4
        <4>3. QED BY <3>1, <3>2, <3>4, <4>1, <4>2 DEF Placed
      <3>6. QED BY <3>1, <3>5 DEF Traced
    <2>3. QED BY <2>1, <2>2
  <1>2. ASSUME NEW p \in Procs, NewNS(p) PROVE Traced'
    <2>1. PICK m \in NS : created' = created \cup {m} /\ held' = [held EXCEPT ![p] = m]
      BY <1>2 DEF NewNS
    <2>2. UNCHANGED <<available, released, toRelease>> /\ held[p] = NoNS
      BY <1>0, <1>2 DEF NewNS, HeldInv, Holding
    <2>3. held'[p] = m /\ \A q \in Procs : q # p => held'[q] = held[q]
      BY <1>t, <2>1
    <2>4. ASSUME NEW n \in created' PROVE Placed(n)'
      <3>1. CASE n = m
        BY <2>3, <3>1 DEF Placed
      <3>2. CASE n \in created
        <4>1. Placed(n) /\ n # NoNS
          BY <1>0, <1>t, <3>2 DEF Traced
        <4>2. QED BY <2>2, <2>3, <4>1 DEF Placed
      <3>3. QED BY <2>1, <3>1, <3>2
    <2>5. QED BY <2>4 DEF Traced
  <1>3. ASSUME NEW p \in Procs, Register(p) \/ Put(p) PROVE Traced'
    <2>1. UNCHANGED <<released, created>> /\ pc[p] \in {"register", "put"}
      BY <1>3 DEF Register, Put
    <2>2. held[p] \in NS /\ SeqRange(toRelease[p]) = {}
      BY <1>0, <1>e, <2>1 DEF HeldInv, Holding
    <2>3. \/ UNCHANGED <<available, held, toRelease>>
          \/ /\ held' = [held EXCEPT ![p] = NoNS] /\ available' = available
             /\ toRelease' = [toRelease EXCEPT ![p] = <<held[p]>>]
          \/ /\ held' = [held EXCEPT ![p] = NoNS] /\ toRelease' = toRelease
             /\ available' = Append(available, held[p])
      BY <1>3 DEF Register, Put
    <2>4. CASE UNCHANGED <<available, held, toRelease>>
      BY <1>k, <2>1, <2>4
    <2>5. CASE /\ held' = [held EXCEPT ![p] = NoNS] /\ available' = available
               /\ toRelease' = [toRelease EXCEPT ![p] = <<held[p]>>]
      <3>1. \A q \in Procs : q # p => held'[q] = held[q] /\ toRelease'[q] = toRelease[q]
        BY <1>t, <2>5
      <3>2. SeqRange(toRelease'[p]) = {held[p]}
        BY <1>t, <2>2, <2>5, SingletonFacts
      <3>3. ASSUME NEW n \in created PROVE Placed(n)'
        BY <1>0, <2>1, <2>2, <2>5, <3>1, <3>2 DEF Traced, Placed
      <3>4. QED BY <2>1, <3>3 DEF Traced
    <2>6. CASE /\ held' = [held EXCEPT ![p] = NoNS] /\ toRelease' = toRelease
               /\ available' = Append(available, held[p])
      <3>1. \A q \in Procs : q # p => held'[q] = held[q]
        BY <1>t, <2>6
      <3>2. SeqRange(available') = SeqRange(available) \cup {held[p]}
        BY <1>t, <2>2, <2>6, AppendFacts
      <3>3. ASSUME NEW n \in created PROVE Placed(n)'
        BY <1>0, <2>1, <2>6, <3>1, <3>2 DEF Traced, Placed
      <3>4. QED BY <2>1, <3>3 DEF Traced
    <2>7. QED BY <2>3, <2>4, <2>5, <2>6
  <1>4. ASSUME NEW p \in Procs, Release(p) PROVE Traced'
    <2>1. CASE toRelease[p] # <<>>
      <3> DEFINE x == Head(toRelease[p])
                 rest == Tail(toRelease[p])
      <3>1. SeqRange(toRelease[p]) \subseteq {x} \cup SeqRange(rest)
        BY <1>t, <2>1, HeadFacts
      <3>2. /\ released' = released \cup {x} /\ toRelease' = [toRelease EXCEPT ![p] = rest]
            /\ UNCHANGED <<available, held, created>>
        BY <1>4, <2>1 DEF Release
      <3> HIDE DEF x, rest
      <3>3. toRelease'[p] = rest /\ \A q \in Procs : q # p => toRelease'[q] = toRelease[q]
        BY <1>t, <3>2
      <3>4. ASSUME NEW n \in created PROVE Placed(n)'
        BY <1>0, <3>1, <3>2, <3>3 DEF Traced, Placed
      <3>5. QED BY <3>2, <3>4 DEF Traced
    <2>2. CASE toRelease[p] = <<>>
      BY <1>4, <1>k, <2>2 DEF Release
    <2>3. QED BY <2>1, <2>2
  <1>5. ASSUME Cleanup \/ Close PROVE Traced'
    <2>1. UNCHANGED <<released, held, created>>
      BY <1>5 DEF Cleanup, Close
    <2>2. PICK p \in {Cleaner, Closer} : /\ pc[p] = "idle"
                                         /\ toRelease' = [toRelease EXCEPT ![p] = toRelease'[p]]
                                         /\ SeqRange(available) \subseteq SeqRange(toRelease'[p]) \cup SeqRange(available')
      <3>1. CASE Cleanup
        <4>1. PICK k \in 0..Len(available) :
                 /\ toRelease' = [toRelease EXCEPT ![Cleaner] = SubSeq(available, 1, k)]
                 /\ available' = SubSeq(available, k + 1, Len(available))
          BY <3>1 DEF Cleanup
        <4>2. SeqRange(available) \subseteq SeqRange(SubSeq(available, 1, k)) \cup SeqRange(available')
          BY <1>t, <4>1, CutFacts
        <4>3. toRelease'[Cleaner] = SubSeq(available, 1, k)
          BY <1>t, <4>1
        <4>4. pc[Cleaner] = "idle"
          BY <3>1 DEF Cleanup
        <4>5. QED BY <4>1, <4>2, <4>3, <4>4
      <3>2. CASE Close
        <4>1. pc[Closer] = "idle" /\ toRelease' = [toRelease EXCEPT ![Closer] = available]
          BY <3>2 DEF Close
        <4>2. toRelease'[Closer] = available
          BY <1>t, <4>1
        <4>3. QED BY <4>1, <4>2
      <3>3. QED BY <1>5, <3>1, <3>2
    <2>3. SeqRange(toRelease[p]) = {} /\ p \in Procs
      BY <1>e, <2>2
    <2>4. \A q \in Procs : q # p => toRelease'[q] = toRelease[q]
      BY <1>t, <2>2
    <2>5. ASSUME NEW n \in created PROVE Placed(n)'
      BY <1>0, <2>1, <2>2, <2>3, <2>4 DEF Traced, Placed
    <2>6. QED BY <2>1, <2>5 DEF Traced
  <1>6. ASSUME NEW p \in Procs, NewNSFails(p) \/ StampLastUsed(p) \/ Schedule(p)
        PROVE  Traced'
    BY <1>6, <1>k DEF NewNSFails, StampLastUsed, Schedule
  <1>7. CASE FillCheck \/ FillRetry \/ CloseWait \/ Tick
    BY <1>7, <1>k DEF FillCheck, FillRetry, CloseWait, Tick
  <1>8. CASE UNCHANGED vars
    BY <1>8, <1>k DEF vars
  <1>9. QED
    BY <1>1, <1>2, <1>3, <1>4, <1>5, <1>6, <1>7, <1>8 DEF Next, CallStep, Procs

(* The pool's books are right, however builds, the filler, an eviction and *)
(* close interleave: while it is open its size counts what is idle and     *)
(* what is in use, it never exceeds the target by more than one namespace  *)
(* for each client, and once it is closed and everybody is done no         *)
(* namespace is left.                                                      *)
THEOREM PoolAccountsAlways == Spec => []PoolAccounts
  <1>1. Init => BooksInv
    BY InitBooks
  <1>2. BooksInv /\ [Next]_vars => BooksInv'
    <2> SUFFICES ASSUME BooksInv, [Next]_vars PROVE BooksInv'
      OBVIOUS
    <2>1. TypeOK' /\ HeldInv'
      BY NextTypeOK DEF BooksInv
    <2>2. QED BY <2>1, NextRole, NextSize, NextTraced DEF BooksInv
  <1>3. BooksInv => PoolAccounts
    <2> SUFFICES ASSUME BooksInv PROVE PoolAccounts
      OBVIOUS
    <2>1. TypeOK /\ HeldInv /\ RoleInv /\ SizeCountsOpenPool /\ SizeBounded /\ Traced
      BY DEF BooksInv
    <2>2. NoLeakAfterClose
      <3> SUFFICES ASSUME pc[Closer] = "done", \A c \in Clients : pc[c] = "idle", pc[Cleaner] = "idle",
                          NEW n \in created
                   PROVE  n \in released
        BY DEF NoLeakAfterClose
      <3>1. closed /\ available = <<>> /\ pc[Filler] = "done"
        BY <2>1 DEF RoleInv
      <3>2. \A p \in Procs : pc[p] \in {"idle", "done"}
        BY <3>1 DEF Procs
      <3>3. \A p \in Procs : held[p] = NoNS /\ toRelease[p] = <<>>
        BY <2>1, <3>2 DEF HeldInv, Holding, RoleInv
      <3>4. n # NoNS /\ Placed(n)
        BY <2>1 DEF TypeOK, Traced
      <3>5. QED BY <3>1, <3>3, <3>4, SingletonFacts DEF Placed
    <2>3. QED BY <2>1, <2>2 DEF PoolAccounts
  <1>4. QED BY <1>1, <1>2, <1>3, PTL DEF Spec

-----------------------------------------------------------------------------

SubRecord ==
    [made : BOOLEAN, closed : BOOLEAN, interval : Nat \ {0}, first : Nat, last : Nat,
     samples : Seq(Nat), err : BOOLEAN]

SamplerRecords ==
    /\ now \in Nat
    /\ smpDone \in [Samplers -> BOOLEAN] /\ smpRunning \in [Samplers -> BOOLEAN]
    /\ smpRunner \in [Samplers -> {"none", "waiting", "callback"}]
    /\ smpNext \in [Samplers -> Nat] /\ smpTick \in [Samplers -> Nat]
    /\ smpActive \in [Samplers -> SUBSET Subs] /\ subs \in [Samplers -> SUBSET Subs]
    /\ sub \in [Subs -> SubRecord]

MonitorRecords ==
    /\ monClosed \in BOOLEAN /\ monCopy \in SUBSET Recs
    /\ monMap \in [Names -> Recs \cup {NoRec}]
    /\ monPc \in {"open", "copy", "records", "closed"}

RecordRecords ==
    /\ recPc \in [Recs -> {"idle", "checked", "made", "started", "closing", "end", "nop"}]
    /\ recOnce \in [Recs -> {"no", "sub", "finish", "done"}]
    /\ recNext \in [Recs -> 0..1]
    /\ recAsync \in [Recs -> BOOLEAN] /\ recBusy \in [Recs -> BOOLEAN]
    /\ recDelete \in [Recs -> BOOLEAN] /\ recEscaped \in [Recs -> BOOLEAN]
    /\ \A r \in Recs : recPc[r] # "end" => recNext[r] = 0

(* A sampler hands values to open subscriptions of its own only. *)
Registered == \A s \in Samplers : \A x \in subs[s] : s = SamplerOf[x] /\ ~sub[x].closed

(* A record subscribes at most once, after its insertion. *)
Subscribed ==
    \A r \in Recs : sub[r].made \/ sub[r].closed => recPc[r] \in {"started", "closing", "end"}

(* The once of a record runs for a caller; it closes the subscription it   *)
(* found, and nothing else does.                                           *)
OnceRuns ==
    \A r \in Recs :
        /\ recOnce[r] # "no" \/ recDelete[r] => recBusy[r]
        /\ recOnce[r] = "sub" => sub[r].made
        /\ sub[r].closed => recOnce[r] \in {"finish", "done"}

(* Where Monitor.Close finds a record that nobody has closed. *)
Covered(r) ==
    \/ monPc \in {"open", "copy"} /\ monMap[NsOf[r]] = r
    \/ monPc = "records" /\ r \in monCopy
Covers == \A r \in Recs : Live(r) => recEscaped[r] \/ Covered(r)

ResInv ==
    /\ SamplerRecords /\ MonitorRecords /\ RecordRecords
    /\ Registered /\ Subscribed /\ OnceRuns /\ DoneMeansStopped /\ Covers

USE ResourceAssumption, SamplerAssumption

LEMMA SamplerOfRecords == \A r \in Recs : r \in Subs /\ SamplerOf[r] \in Samplers /\ NsOf[r] \in Names
BY DEF Recs, Names

-----------------------------------------------------------------------------
LEMMA InitHolds == ResInit => ResInv
<1> SUFFICES ASSUME ResInit PROVE ResInv
  OBVIOUS
<1>1. SamplerRecords
  <2>1. NewSub \in SubRecord
    BY DEF NewSub, SubRecord
  <2>. QED  BY <2>1 DEF ResInit, SamplerInit, SamplerRecords
<1>2. MonitorRecords
  BY DEF ResInit, MonitorRecords
<1>4. RecordRecords
  <2>1. 0 \in 0..1
    OBVIOUS
  <2>. QED  BY <2>1 DEF ResInit, RecordRecords
<1>3. Registered /\ Subscribed /\ OnceRuns /\ DoneMeansStopped /\ Covers
  <2>1. \A r \in Recs : ~sub[r].made /\ ~sub[r].closed /\ recPc[r] = "idle" /\ recOnce[r] = "no" /\ ~recDelete[r]
    BY SamplerOfRecords DEF ResInit, SamplerInit, NewSub
  <2>. QED  BY <2>1 DEF ResInit, SamplerInit, Registered, Subscribed, OnceRuns, DoneMeansStopped, Covers, Live, Recs
<1>. QED  BY <1>1, <1>2, <1>3, <1>4 DEF ResInv

-----------------------------------------------------------------------------
(* What the samplers' steps do to the subscriptions. *)
LEMMA StampedType ==
    ASSUME NEW y \in SubRecord, NEW tm \in Nat
    PROVE  LET z == [y EXCEPT !.last = tm]
           IN  z \in SubRecord /\ z.made = y.made /\ z.closed = y.closed /\ z.samples = y.samples /\ z.err = y.err
BY DEF SubRecord

LEMMA ReceivedType ==
    ASSUME NEW x \in Subs, sub \in [Subs -> SubRecord], NEW tm \in Nat, NEW ok \in BOOLEAN
    PROVE  /\ Received(x, tm, ok) \in SubRecord
           /\ Received(x, tm, ok).made = sub[x].made /\ Received(x, tm, ok).closed = sub[x].closed
<1> DEFINE y == IF ok THEN [sub[x] EXCEPT !.samples = Append(@, tm), !.err = FALSE]
                      ELSE [sub[x] EXCEPT !.err = TRUE]
<1>1. sub[x] \in SubRecord
  OBVIOUS
<1>2. Append(sub[x].samples, tm) \in Seq(Nat)
  BY <1>1 DEF SubRecord
<1>3. y \in SubRecord /\ y.made = sub[x].made /\ y.closed = sub[x].closed
  BY <1>1, <1>2 DEF SubRecord
<1>4. 2 * y.interval \in Nat \ {0}
  <2>1. y.interval \in Nat \ {0}
    BY <1>3 DEF SubRecord
  <2> HIDE DEF y
  <2>. QED  BY <2>1
<1>5. Received(x, tm, ok) = IF y.interval * MaxSamples <= tm - y.first THEN [y EXCEPT !.interval = 2 * @] ELSE y
  BY DEF Received
<1> HIDE DEF y
<1>6. [y EXCEPT !.interval = 2 * @] \in SubRecord
  BY <1>3, <1>4 DEF SubRecord
<1>7. [y EXCEPT !.interval = 2 * @].made = y.made /\ [y EXCEPT !.interval = 2 * @].closed = y.closed
  BY <1>3 DEF SubRecord
<1>. QED  BY <1>3, <1>5, <1>6, <1>7

LEMMA SamplerSteps ==
    ASSUME ResInv, NEW s \in Samplers, SamplerStep(s)
    PROVE  /\ SamplerRecords'
           /\ subs' = subs /\ smpDone' = smpDone
           /\ \A x \in Subs : /\ sub'[x].made = sub[x].made /\ sub'[x].closed = sub[x].closed
                              /\ sub[x].closed => sub'[x].samples = sub[x].samples /\ sub'[x].err = sub[x].err
<1>0. SamplerRecords /\ Registered
  BY DEF ResInv
<1>1. CASE TickerFires(s)
  <2>1. DueSubs(s) \in SUBSET Subs
    BY <1>0 DEF DueSubs, SamplerRecords
  <2>2. now \in Nat /\ sub \in [Subs -> SubRecord]
    BY <1>0 DEF SamplerRecords
  <2>3. \A x \in Subs :
            LET y == [sub[x] EXCEPT !.last = now]
            IN  y \in SubRecord /\ y.made = sub[x].made /\ y.closed = sub[x].closed /\ y.samples = sub[x].samples /\ y.err = sub[x].err
    BY <2>2, StampedType
  <2>4. sub' = [x \in Subs |-> IF x \in DueSubs(s) THEN [sub[x] EXCEPT !.last = now] ELSE sub[x]]
    BY <1>1 DEF TickerFires
  <2>5. sub' \in [Subs -> SubRecord]
    BY <2>2, <2>3, <2>4
  <2>6. SamplerRecords'
    BY <1>0, <1>1, <2>1, <2>5 DEF TickerFires, SamplerRecords
  <2>. QED  BY <1>1, <2>3, <2>4, <2>6 DEF TickerFires
<1>2. CASE FanOut(s)
  <2>1. PICK ok \in BOOLEAN :
            sub' = [x \in Subs |-> IF x \in smpActive[s] \cap subs[s] THEN Received(x, smpTick[s], ok) ELSE sub[x]]
    BY <1>2 DEF FanOut
  <2>2. smpTick[s] \in Nat /\ sub \in [Subs -> SubRecord]
    BY <1>0 DEF SamplerRecords
  <2>3. \A x \in Subs : /\ Received(x, smpTick[s], ok) \in SubRecord
                        /\ Received(x, smpTick[s], ok).made = sub[x].made
                        /\ Received(x, smpTick[s], ok).closed = sub[x].closed
    BY <2>2, ReceivedType
  <2>4. sub' \in [Subs -> SubRecord]
    BY <2>1, <2>2, <2>3
  <2>5. \A x \in Subs : sub[x].closed => x \notin subs[s]
    BY <1>0 DEF Registered
  <2>6. SamplerRecords'
    BY <1>0, <1>2, <2>4 DEF FanOut, SamplerRecords
  <2>. QED  BY <1>2, <2>1, <2>3, <2>5, <2>6 DEF FanOut
<1>3. CASE RunnerExit(s)
  BY <1>0, <1>3 DEF RunnerExit, SamplerRecords
<1>. QED  BY <1>1, <1>2, <1>3 DEF SamplerStep

-----------------------------------------------------------------------------
(* The steps of the records and of Monitor.Close. *)
LEMMA SamplersKept ==
    ASSUME ResInv, UNCHANGED <<smpRunner, smpRunning, smpNext, smpTick, smpActive, subs, sub>>,
           now' \in Nat, smpDone' \in [Samplers -> BOOLEAN], \A s \in Samplers : smpDone[s] => smpDone'[s]
    PROVE  SamplerRecords' /\ Registered'
BY DEF ResInv, SamplerRecords, Registered

LEMMA RecordCheckHolds ==
    ASSUME ResInv, NEW r \in Recs, RecordCheck(r)
    PROVE  ResInv'
<1> USE DEF RecordCheck, samplerVars, monVars, recVars
<1>1. SamplerRecords' /\ Registered'
  BY SamplersKept, SamplerOfRecords DEF ResInv, SamplerRecords
<1>2. MonitorRecords'
  BY SamplerOfRecords DEF ResInv, MonitorRecords, RecAt, OnceAt, Recs
<1>3. RecordRecords'
  BY SamplerOfRecords DEF ResInv, RecordRecords, RecAt, OnceAt, Recs
<1>4. Subscribed' /\ OnceRuns'
  BY SamplerOfRecords DEF ResInv, SamplerRecords, RecordRecords, Subscribed, OnceRuns, RecAt, OnceAt, Recs
<1>5. DoneMeansStopped'
  BY SamplerOfRecords DEF ResInv, SamplerRecords, RecordRecords, OnceRuns, DoneMeansStopped, RecAt, OnceAt, Recs
<1>6. Covers'
  BY SamplerOfRecords DEF ResInv, MonitorRecords, RecordRecords, OnceRuns, Covers, Covered, Live, RecAt, OnceAt, Recs
<1>. QED  BY <1>1, <1>2, <1>3, <1>4, <1>5, <1>6 DEF ResInv

LEMMA RecordInsertHolds ==
    ASSUME ResInv, NEW r \in Recs, RecordInsert(r)
    PROVE  ResInv'
<1> USE DEF RecordInsert, samplerVars, monVars, recVars
<1>1. SamplerRecords' /\ Registered'
  BY SamplersKept, SamplerOfRecords DEF ResInv, SamplerRecords
<1>2. MonitorRecords'
  BY SamplerOfRecords DEF ResInv, MonitorRecords, RecAt, OnceAt, Recs
<1>3. RecordRecords'
  BY SamplerOfRecords DEF ResInv, RecordRecords, RecAt, OnceAt, Recs
<1>4. Subscribed' /\ OnceRuns'
  BY SamplerOfRecords DEF ResInv, SamplerRecords, RecordRecords, Subscribed, OnceRuns, RecAt, OnceAt, Recs
<1>5. DoneMeansStopped'
  BY SamplerOfRecords DEF ResInv, SamplerRecords, RecordRecords, OnceRuns, DoneMeansStopped, RecAt, OnceAt, Recs
<1>6. Covers'
  BY SamplerOfRecords DEF ResInv, MonitorRecords, RecordRecords, OnceRuns, Covers, Covered, Live, RecAt, OnceAt, Recs
<1>. QED  BY <1>1, <1>2, <1>3, <1>4, <1>5, <1>6 DEF ResInv

LEMMA MadeType ==
    ASSUME NEW y \in SubRecord, NEW tm \in Nat
    PROVE  LET z == [y EXCEPT !.made = TRUE, !.first = tm] IN z \in SubRecord /\ z.made /\ z.closed = y.closed
BY DEF SubRecord

LEMMA FreshType ==
    ASSUME NEW tm \in Nat
    PROVE  LET z == [NewSub EXCEPT !.made = TRUE, !.first = tm] IN z \in SubRecord /\ z.made /\ ~z.closed
<1>1. NewSub \in SubRecord /\ ~NewSub.closed
  BY DEF NewSub, SubRecord
<1>. QED  BY <1>1, MadeType

LEMMA ClosedType ==
    ASSUME NEW y \in SubRecord
    PROVE  LET z == [y EXCEPT !.closed = TRUE]
           IN  z \in SubRecord /\ z.made = y.made /\ z.closed /\ z.samples = y.samples /\ z.err = y.err
BY DEF SubRecord

LEMMA RecStartHolds ==
    ASSUME ResInv, NEW r \in Recs, RecStart(r)
    PROVE  ResInv'
<1> USE DEF RecStart, samplerVars, monVars, recVars
<1>0. now \in Nat /\ sub \in [Subs -> SubRecord] /\ r \in Subs /\ SamplerOf[r] \in Samplers
  BY SamplerOfRecords DEF ResInv, SamplerRecords
<1>a. /\ sub' \in [Subs -> SubRecord] /\ sub'[r].made /\ ~sub'[r].closed
      /\ \A x \in Subs : x # r => sub'[x] = sub[x]
  <2> DEFINE new == [NewSub EXCEPT !.made = TRUE, !.first = now]
  <2>1. new \in SubRecord /\ new.made /\ ~new.closed
    BY <1>0, FreshType
  <2>2. sub' = [sub EXCEPT ![r] = new]
    BY DEF Record
  <2> HIDE DEF new
  <2>. QED  BY <1>0, <2>1, <2>2
<1>b. SamplerRecords'
  <2>1. subs' \in [Samplers -> SUBSET Subs]
    BY <1>0 DEF Record, ResInv, SamplerRecords
  <2>2. smpRunner' \in [Samplers -> {"none", "waiting", "callback"}] /\ smpNext' \in [Samplers -> Nat]
    <3>1. now + 1 \in Nat
      BY <1>0
    <3>. QED  BY <3>1 DEF Record, ResInv, SamplerRecords
  <2>3. smpRunning' \in [Samplers -> BOOLEAN] /\ UNCHANGED <<now, smpDone, smpTick, smpActive>>
    BY DEF Record, ResInv, SamplerRecords
  <2>. QED  BY <1>a, <2>1, <2>2, <2>3 DEF ResInv, SamplerRecords
<1>c. Registered'
  <2>1. subs' = [subs EXCEPT ![SamplerOf[r]] = @ \cup {r}]
    BY DEF Record
  <2>2. SamplerRecords /\ Registered
    BY DEF ResInv
  <2> SUFFICES ASSUME NEW s \in Samplers, NEW x \in subs'[s]
               PROVE  s = SamplerOf[x] /\ ~sub'[x].closed
    BY DEF Registered
  <2>3. CASE x = r
    <3>1. s # SamplerOf[r] => r \in subs[s]
      BY <1>0, <2>1, <2>2, <2>3 DEF SamplerRecords
    <3>. QED  BY <1>a, <2>2, <2>3, <3>1 DEF Registered
  <2>4. CASE x # r
    <3>1. x \in subs[s] /\ x \in Subs
      BY <1>0, <2>1, <2>2, <2>4 DEF SamplerRecords
    <3>. QED  BY <1>a, <2>2, <2>4, <3>1 DEF Registered
  <2>. QED  BY <2>3, <2>4
<1>1. SamplerRecords' /\ Registered'
  BY <1>b, <1>c
<1>2. MonitorRecords'
  BY SamplerOfRecords DEF ResInv, MonitorRecords, RecAt, OnceAt, Recs, Record
<1>3. RecordRecords'
  BY SamplerOfRecords DEF ResInv, RecordRecords, RecAt, OnceAt, Recs, Record
<1>4. Subscribed' /\ OnceRuns'
  <2>1. \A q \in Recs : q # r => sub'[q] = sub[q]
    BY <1>a DEF Recs
  <2>2. RecordRecords /\ Subscribed /\ OnceRuns
    BY DEF ResInv
  <2>3. recPc' = [recPc EXCEPT ![r] = "started"] /\ UNCHANGED <<recOnce, recDelete, recBusy>>
    BY DEF RecAt
  <2>. QED  BY <1>a, <2>1, <2>2, <2>3 DEF RecordRecords, Subscribed, OnceRuns
<1>5. DoneMeansStopped'
  <2>1. \A q \in Recs : q # r => sub'[q] = sub[q]
    BY <1>a DEF Recs
  <2>2. UNCHANGED <<recOnce, smpDone>> /\ DoneMeansStopped
    BY DEF ResInv, Record
  <2>. QED  BY <1>a, <2>1, <2>2 DEF DoneMeansStopped, Recs
<1>6. Covers'
  BY SamplerOfRecords DEF ResInv, MonitorRecords, RecordRecords, OnceRuns, Covers, Covered, Live, RecAt, OnceAt, Recs, Record
<1>. QED  BY <1>1, <1>2, <1>3, <1>4, <1>5, <1>6 DEF ResInv

LEMMA OwnerCloseHolds ==
    ASSUME ResInv, NEW r \in Recs, OwnerClose(r)
    PROVE  ResInv'
<1> USE DEF OwnerClose, samplerVars, monVars, recVars
<1>1. SamplerRecords' /\ Registered'
  BY SamplersKept, SamplerOfRecords DEF ResInv, SamplerRecords
<1>2. MonitorRecords'
  BY SamplerOfRecords DEF ResInv, MonitorRecords, RecAt, OnceAt, Recs
<1>3. RecordRecords'
  BY SamplerOfRecords DEF ResInv, RecordRecords, RecAt, OnceAt, Recs
<1>4. Subscribed' /\ OnceRuns'
  BY SamplerOfRecords DEF ResInv, SamplerRecords, RecordRecords, Subscribed, OnceRuns, RecAt, OnceAt, Recs
<1>5. DoneMeansStopped'
  BY SamplerOfRecords DEF ResInv, SamplerRecords, RecordRecords, OnceRuns, DoneMeansStopped, RecAt, OnceAt, Recs
<1>6. Covers'
  BY SamplerOfRecords DEF ResInv, MonitorRecords, RecordRecords, OnceRuns, Covers, Covered, Live, RecAt, OnceAt, Recs
<1>. QED  BY <1>1, <1>2, <1>3, <1>4, <1>5, <1>6 DEF ResInv

LEMMA OwnerDoneHolds ==
    ASSUME ResInv, NEW r \in Recs, OwnerDone(r)
    PROVE  ResInv'
<1> USE DEF OwnerDone, samplerVars, monVars, recVars
<1>1. SamplerRecords' /\ Registered'
  BY SamplersKept, SamplerOfRecords DEF ResInv, SamplerRecords
<1>2. MonitorRecords'
  BY SamplerOfRecords DEF ResInv, MonitorRecords, RecAt, OnceAt, Recs
<1>3. RecordRecords'
  BY SamplerOfRecords DEF ResInv, RecordRecords, RecAt, OnceAt, Recs
<1>4. Subscribed' /\ OnceRuns'
  BY SamplerOfRecords DEF ResInv, SamplerRecords, RecordRecords, Subscribed, OnceRuns, RecAt, OnceAt, Recs
<1>5. DoneMeansStopped'
  BY SamplerOfRecords DEF ResInv, SamplerRecords, RecordRecords, OnceRuns, DoneMeansStopped, RecAt, OnceAt, Recs
<1>6. Covers'
  BY SamplerOfRecords DEF ResInv, MonitorRecords, RecordRecords, OnceRuns, Covers, Covered, Live, RecAt, OnceAt, Recs
<1>. QED  BY <1>1, <1>2, <1>3, <1>4, <1>5, <1>6 DEF ResInv

LEMMA CloseBeginHolds ==
    ASSUME ResInv, NEW r \in Recs, CloseBegin(r)
    PROVE  ResInv'
<1> USE DEF CloseBegin, samplerVars, monVars, recVars
<1>1. SamplerRecords' /\ Registered'
  BY SamplersKept, SamplerOfRecords DEF ResInv, SamplerRecords
<1>2. MonitorRecords'
  BY SamplerOfRecords DEF ResInv, MonitorRecords, RecAt, OnceAt, Recs
<1>3. RecordRecords'
  BY SamplerOfRecords DEF ResInv, RecordRecords, RecAt, OnceAt, Recs
<1>4. Subscribed' /\ OnceRuns'
  BY SamplerOfRecords DEF ResInv, SamplerRecords, RecordRecords, Subscribed, OnceRuns, RecAt, OnceAt, Recs
<1>5. DoneMeansStopped'
  BY SamplerOfRecords DEF ResInv, SamplerRecords, RecordRecords, OnceRuns, DoneMeansStopped, RecAt, OnceAt, Recs
<1>6. Covers'
  BY SamplerOfRecords DEF ResInv, MonitorRecords, RecordRecords, OnceRuns, Covers, Covered, Live, RecAt, OnceAt, Recs
<1>. QED  BY <1>1, <1>2, <1>3, <1>4, <1>5, <1>6 DEF ResInv

LEMMA CloseSubscriptionHolds ==
    ASSUME ResInv, NEW r \in Recs, CloseSubscription(r)
    PROVE  ResInv'
<1> USE DEF CloseSubscription, samplerVars, monVars, recVars
<1>0. now \in Nat /\ sub \in [Subs -> SubRecord] /\ r \in Subs /\ SamplerOf[r] \in Samplers
  BY SamplerOfRecords DEF ResInv, SamplerRecords
<1>a. /\ sub' \in [Subs -> SubRecord] /\ \A x \in Subs : x # r => sub'[x] = sub[x]
  <2> DEFINE new == [sub[r] EXCEPT !.closed = TRUE]
  <2>1. new \in SubRecord
    BY <1>0, ClosedType
  <2>2. sub' = [sub EXCEPT ![r] = new]
    BY DEF CloseSub
  <2> HIDE DEF new
  <2>. QED  BY <1>0, <2>1, <2>2
<1>b. SamplerRecords'
  <2>1. subs' \in [Samplers -> SUBSET Subs]
    BY <1>0 DEF CloseSub, ResInv, SamplerRecords
  <2>. QED  BY <1>a, <2>1 DEF RunnerVars, ResInv, SamplerRecords
<1>c. Registered'
  <2>1. subs' = [subs EXCEPT ![SamplerOf[r]] = @ \ {r}]
    BY DEF CloseSub
  <2>2. SamplerRecords /\ Registered
    BY DEF ResInv
  <2> SUFFICES ASSUME NEW s \in Samplers, NEW x \in subs'[s]
               PROVE  s = SamplerOf[x] /\ ~sub'[x].closed
    BY DEF Registered
  <2>3. x \in subs[s] /\ x \in Subs
    BY <1>0, <2>1, <2>2 DEF SamplerRecords
  <2>4. s = SamplerOf[x] /\ ~sub[x].closed
    BY <2>2, <2>3 DEF Registered
  <2>5. x # r
    BY <1>0, <2>1, <2>2, <2>4 DEF SamplerRecords
  <2>. QED  BY <1>a, <2>3, <2>4, <2>5
<1>1. SamplerRecords' /\ Registered'
  BY <1>b, <1>c
<1>2. MonitorRecords'
  BY SamplerOfRecords DEF ResInv, MonitorRecords, RecAt, OnceAt, Recs, CloseSub, RunnerVars
<1>3. RecordRecords'
  BY SamplerOfRecords DEF ResInv, RecordRecords, RecAt, OnceAt, Recs, CloseSub, RunnerVars
<1>4. Subscribed' /\ OnceRuns'
  BY SamplerOfRecords DEF ResInv, SamplerRecords, RecordRecords, Subscribed, OnceRuns, RecAt, OnceAt, Recs, CloseSub, RunnerVars
<1>5. DoneMeansStopped'
  BY SamplerOfRecords DEF ResInv, SamplerRecords, RecordRecords, OnceRuns, DoneMeansStopped, RecAt, OnceAt, Recs, CloseSub, RunnerVars
<1>6. Covers'
  BY SamplerOfRecords DEF ResInv, MonitorRecords, RecordRecords, OnceRuns, Covers, Covered, Live, RecAt, OnceAt, Recs, CloseSub, RunnerVars
<1>. QED  BY <1>1, <1>2, <1>3, <1>4, <1>5, <1>6 DEF ResInv

LEMMA CloseFinishHolds ==
    ASSUME ResInv, NEW r \in Recs, CloseFinish(r)
    PROVE  ResInv'
<1> USE DEF CloseFinish, samplerVars, monVars, recVars
<1>1. SamplerRecords' /\ Registered'
  <2>1. smpDone \in [Samplers -> BOOLEAN] /\ now \in Nat
    BY DEF ResInv, SamplerRecords
  <2>2. smpDone' \in [Samplers -> BOOLEAN] /\ \A s \in Samplers : smpDone[s] => smpDone'[s]
    BY <2>1 DEF CloseSampler
  <2>3. UNCHANGED <<now, smpRunner, smpRunning, smpNext, smpTick, smpActive, subs, sub>>
    OBVIOUS
  <2>. QED  BY <2>1, <2>2, <2>3, SamplersKept
<1>2. MonitorRecords'
  BY SamplerOfRecords DEF ResInv, MonitorRecords, RecAt, OnceAt, Recs, CloseSampler
<1>3. RecordRecords'
  BY SamplerOfRecords DEF ResInv, RecordRecords, RecAt, OnceAt, Recs, CloseSampler
<1>4. Subscribed' /\ OnceRuns'
  BY SamplerOfRecords DEF ResInv, SamplerRecords, RecordRecords, Subscribed, OnceRuns, RecAt, OnceAt, Recs, CloseSampler
<1>5. DoneMeansStopped'
  BY SamplerOfRecords DEF ResInv, SamplerRecords, RecordRecords, OnceRuns, DoneMeansStopped, RecAt, OnceAt, Recs, CloseSampler
<1>6. Covers'
  BY SamplerOfRecords DEF ResInv, MonitorRecords, RecordRecords, OnceRuns, Covers, Covered, Live, RecAt, OnceAt, Recs, CloseSampler
<1>. QED  BY <1>1, <1>2, <1>3, <1>4, <1>5, <1>6 DEF ResInv

LEMMA DeleteEntryHolds ==
    ASSUME ResInv, NEW r \in Recs, DeleteEntry(r)
    PROVE  ResInv'
<1> USE DEF DeleteEntry, samplerVars, monVars, recVars
<1>1. SamplerRecords' /\ Registered'
  BY SamplersKept, SamplerOfRecords DEF ResInv, SamplerRecords
<1>2. MonitorRecords'
  BY SamplerOfRecords DEF ResInv, MonitorRecords, RecAt, OnceAt, Recs
<1>3. RecordRecords'
  BY SamplerOfRecords DEF ResInv, RecordRecords, RecAt, OnceAt, Recs
<1>4. Subscribed' /\ OnceRuns'
  BY SamplerOfRecords DEF ResInv, SamplerRecords, RecordRecords, Subscribed, OnceRuns, RecAt, OnceAt, Recs
<1>5. DoneMeansStopped'
  BY SamplerOfRecords DEF ResInv, SamplerRecords, RecordRecords, OnceRuns, DoneMeansStopped, RecAt, OnceAt, Recs
<1>6. Covers'
  BY SamplerOfRecords DEF ResInv, MonitorRecords, RecordRecords, OnceRuns, Covers, Covered, Live, RecAt, OnceAt, Recs
<1>. QED  BY <1>1, <1>2, <1>3, <1>4, <1>5, <1>6 DEF ResInv

LEMMA MonitorCloseHolds ==
    ASSUME ResInv, MonitorClose
    PROVE  ResInv'
<1> USE DEF MonitorClose, samplerVars, monVars, recVars
<1>1. SamplerRecords' /\ Registered'
  BY SamplersKept, SamplerOfRecords DEF ResInv, SamplerRecords
<1>2. MonitorRecords'
  BY SamplerOfRecords DEF ResInv, MonitorRecords, RecAt, OnceAt, Recs
<1>3. RecordRecords'
  BY SamplerOfRecords DEF ResInv, RecordRecords, RecAt, OnceAt, Recs
<1>4. Subscribed' /\ OnceRuns'
  BY SamplerOfRecords DEF ResInv, SamplerRecords, RecordRecords, Subscribed, OnceRuns, RecAt, OnceAt, Recs
<1>5. DoneMeansStopped'
  BY SamplerOfRecords DEF ResInv, SamplerRecords, RecordRecords, OnceRuns, DoneMeansStopped, RecAt, OnceAt, Recs
<1>6. Covers'
  BY SamplerOfRecords DEF ResInv, MonitorRecords, RecordRecords, OnceRuns, Covers, Covered, Live, RecAt, OnceAt, Recs
<1>. QED  BY <1>1, <1>2, <1>3, <1>4, <1>5, <1>6 DEF ResInv

LEMMA MonitorCopyHolds ==
    ASSUME ResInv, MonitorCopy
    PROVE  ResInv'
<1> USE DEF MonitorCopy, samplerVars, monVars, recVars
<1>1. SamplerRecords' /\ Registered'
  BY SamplersKept, SamplerOfRecords DEF ResInv, SamplerRecords
<1>2. MonitorRecords'
  BY SamplerOfRecords DEF ResInv, MonitorRecords, RecAt, OnceAt, Recs
<1>3. RecordRecords'
  BY SamplerOfRecords DEF ResInv, RecordRecords, RecAt, OnceAt, Recs
<1>4. Subscribed' /\ OnceRuns'
  BY SamplerOfRecords DEF ResInv, SamplerRecords, RecordRecords, Subscribed, OnceRuns, RecAt, OnceAt, Recs
<1>5. DoneMeansStopped'
  BY SamplerOfRecords DEF ResInv, SamplerRecords, RecordRecords, OnceRuns, DoneMeansStopped, RecAt, OnceAt, Recs
<1>6. Covers'
  <2>1. \A q \in Recs : Live(q)' = Live(q) /\ q # NoRec
    BY DEF Live
  <2>2. \A q \in Recs : recEscaped'[q] = recEscaped[q]
    OBVIOUS
  <2>3. \A q \in Recs : monMap[NsOf[q]] = q => q \in monCopy'
    BY <2>1, SamplerOfRecords
  <2>4. monPc = "copy" /\ monPc' = "records" /\ Covers
    BY DEF ResInv
  <2>. QED  BY <2>1, <2>2, <2>3, <2>4 DEF Covers, Covered
<1>. QED  BY <1>1, <1>2, <1>3, <1>4, <1>5, <1>6 DEF ResInv

LEMMA MonitorCloseRecordHolds ==
    ASSUME ResInv, NEW r \in Recs, MonitorCloseRecord(r)
    PROVE  ResInv'
<1> USE DEF MonitorCloseRecord, samplerVars, monVars, recVars
<1>1. SamplerRecords' /\ Registered'
  BY SamplersKept, SamplerOfRecords DEF ResInv, SamplerRecords
<1>2. MonitorRecords'
  BY SamplerOfRecords DEF ResInv, MonitorRecords, RecAt, OnceAt, Recs
<1>3. RecordRecords'
  BY SamplerOfRecords DEF ResInv, RecordRecords, RecAt, OnceAt, Recs
<1>4. Subscribed' /\ OnceRuns'
  BY SamplerOfRecords DEF ResInv, SamplerRecords, RecordRecords, Subscribed, OnceRuns, RecAt, OnceAt, Recs
<1>5. DoneMeansStopped'
  BY SamplerOfRecords DEF ResInv, SamplerRecords, RecordRecords, OnceRuns, DoneMeansStopped, RecAt, OnceAt, Recs
<1>6. Covers'
  BY SamplerOfRecords DEF ResInv, MonitorRecords, RecordRecords, OnceRuns, Covers, Covered, Live, RecAt, OnceAt, Recs
<1>. QED  BY <1>1, <1>2, <1>3, <1>4, <1>5, <1>6 DEF ResInv

LEMMA MonitorFinishHolds ==
    ASSUME ResInv, MonitorFinish
    PROVE  ResInv'
<1> USE DEF MonitorFinish, samplerVars, monVars, recVars
<1>1. SamplerRecords' /\ Registered'
  BY SamplersKept, SamplerOfRecords DEF ResInv, SamplerRecords, CloseSampler
<1>2. MonitorRecords'
  BY SamplerOfRecords DEF ResInv, MonitorRecords, RecAt, OnceAt, Recs, CloseSampler
<1>3. RecordRecords'
  BY SamplerOfRecords DEF ResInv, RecordRecords, RecAt, OnceAt, Recs, CloseSampler
<1>4. Subscribed' /\ OnceRuns'
  BY SamplerOfRecords DEF ResInv, SamplerRecords, RecordRecords, Subscribed, OnceRuns, RecAt, OnceAt, Recs, CloseSampler
<1>5. DoneMeansStopped'
  BY SamplerOfRecords DEF ResInv, SamplerRecords, RecordRecords, OnceRuns, DoneMeansStopped, RecAt, OnceAt, Recs, CloseSampler
<1>6. Covers'
  BY SamplerOfRecords DEF ResInv, MonitorRecords, RecordRecords, OnceRuns, Covers, Covered, Live, RecAt, OnceAt, Recs, CloseSampler
<1>. QED  BY <1>1, <1>2, <1>3, <1>4, <1>5, <1>6 DEF ResInv

LEMMA PassTimeHolds ==
    ASSUME ResInv, PassTime
    PROVE  ResInv'
<1> USE DEF PassTime, samplerVars, monVars, recVars
<1>1. SamplerRecords' /\ Registered'
  BY SamplersKept, SamplerOfRecords DEF ResInv, SamplerRecords
<1>2. MonitorRecords'
  BY SamplerOfRecords DEF ResInv, MonitorRecords, RecAt, OnceAt, Recs
<1>3. RecordRecords'
  BY SamplerOfRecords DEF ResInv, RecordRecords, RecAt, OnceAt, Recs
<1>4. Subscribed' /\ OnceRuns'
  BY SamplerOfRecords DEF ResInv, SamplerRecords, RecordRecords, Subscribed, OnceRuns, RecAt, OnceAt, Recs
<1>5. DoneMeansStopped'
  BY SamplerOfRecords DEF ResInv, SamplerRecords, RecordRecords, OnceRuns, DoneMeansStopped, RecAt, OnceAt, Recs
<1>6. Covers'
  BY SamplerOfRecords DEF ResInv, MonitorRecords, RecordRecords, OnceRuns, Covers, Covered, Live, RecAt, OnceAt, Recs
<1>. QED  BY <1>1, <1>2, <1>3, <1>4, <1>5, <1>6 DEF ResInv

-----------------------------------------------------------------------------
LEMMA ResNextHolds == ResInv /\ [ResNext]_resVars => ResInv'
<1> SUFFICES ASSUME ResInv, [ResNext]_resVars PROVE ResInv'
  OBVIOUS
<1>1. ASSUME NEW r \in Recs, RecordStep(r) PROVE ResInv'
  BY <1>1, RecordCheckHolds, RecordInsertHolds, RecStartHolds DEF RecordStep
<1>2. ASSUME NEW r \in Recs, OwnerClose(r) \/ OwnerDone(r) \/ DeleteEntry(r) PROVE ResInv'
  BY <1>2, OwnerCloseHolds, OwnerDoneHolds, DeleteEntryHolds
<1>3. ASSUME NEW r \in Recs, CloseStep(r) PROVE ResInv'
  BY <1>3, CloseBeginHolds, CloseSubscriptionHolds, CloseFinishHolds DEF CloseStep
<1>4. ASSUME MonitorClose \/ MonitorStep \/ PassTime PROVE ResInv'
  BY <1>4, MonitorCloseHolds, MonitorCopyHolds, MonitorCloseRecordHolds, MonitorFinishHolds, PassTimeHolds DEF MonitorStep
<1>5. ASSUME NEW s \in Samplers, SamplerStep(s), UNCHANGED <<monVars, recVars>> PROVE ResInv'
  <2>1. /\ SamplerRecords' /\ subs' = subs /\ smpDone' = smpDone
        /\ \A x \in Subs : sub'[x].made = sub[x].made /\ sub'[x].closed = sub[x].closed
    BY <1>5, SamplerSteps
  <2>2. MonitorRecords' /\ RecordRecords' /\ Covers'
    BY <1>5 DEF ResInv, MonitorRecords, RecordRecords, Covers, Covered, Live, monVars, recVars
  <2>3. SamplerRecords /\ Registered /\ Subscribed /\ OnceRuns /\ DoneMeansStopped
    BY DEF ResInv
  <2>4. \A s2 \in Samplers : subs[s2] \subseteq Subs
    BY <2>3 DEF SamplerRecords
  <2>5. Registered'
    BY <2>1, <2>3, <2>4 DEF Registered
  <2>6. Subscribed' /\ OnceRuns' /\ DoneMeansStopped'
    BY <1>5, <2>1, <2>3 DEF Subscribed, OnceRuns, DoneMeansStopped, recVars, Recs
  <2>. QED  BY <2>1, <2>2, <2>5, <2>6 DEF ResInv
<1>6. CASE UNCHANGED resVars
  <2>1. UNCHANGED <<samplerVars, monVars, recVars>>
    BY <1>6 DEF resVars
  <2>. QED  BY <2>1 DEF samplerVars, monVars, recVars, ResInv, SamplerRecords, MonitorRecords, RecordRecords,
                   Registered, Subscribed, OnceRuns, DoneMeansStopped, Covers, Covered, Live
<1>. QED  BY <1>1, <1>2, <1>3, <1>4, <1>5, <1>6 DEF ResNext

(* What a sampler, an owner or the Monitor does to a closed subscription. *)
HistoryKept ==
    \A x \in Subs : sub[x].closed => sub'[x].samples = sub[x].samples /\ sub'[x].err = sub[x].err

LEMMA HistoryStep == ResInv /\ ResNext => HistoryKept
<1> SUFFICES ASSUME ResInv, ResNext PROVE HistoryKept
  OBVIOUS
<1>0. sub \in [Subs -> SubRecord] /\ Subscribed
  BY DEF ResInv, SamplerRecords
<1>1. ASSUME NEW r \in Recs, RecStart(r) PROVE HistoryKept
  <2>1. ~sub[r].closed
    BY <1>0, <1>1 DEF RecStart, RecAt, Subscribed
  <2>2. \A x \in Subs : x # r => sub'[x] = sub[x]
    BY <1>0, <1>1, SamplerOfRecords DEF RecStart, Record
  <2>. QED  BY <2>1, <2>2 DEF HistoryKept
<1>2. ASSUME NEW r \in Recs, CloseSubscription(r) PROVE HistoryKept
  <2>1. sub' = [sub EXCEPT ![r] = [sub[r] EXCEPT !.closed = TRUE]]
    BY <1>2 DEF CloseSubscription, CloseSub
  <2>2. sub[r] \in SubRecord
    BY <1>0, SamplerOfRecords
  <2>3. LET z == [sub[r] EXCEPT !.closed = TRUE] IN z.samples = sub[r].samples /\ z.err = sub[r].err
    BY <2>2, ClosedType
  <2>. QED  BY <1>0, <2>1, <2>3 DEF HistoryKept
<1>3. ASSUME NEW s \in Samplers, SamplerStep(s) PROVE HistoryKept
  BY <1>3, SamplerSteps DEF HistoryKept
<1>4. CASE UNCHANGED sub
  BY <1>4 DEF HistoryKept
<1>5. ASSUME NEW r \in Recs,
             RecordCheck(r) \/ RecordInsert(r) \/ OwnerClose(r) \/ OwnerDone(r) \/ CloseBegin(r)
             \/ CloseFinish(r) \/ DeleteEntry(r) \/ MonitorCloseRecord(r)
      PROVE  UNCHANGED sub
  BY <1>5 DEF RecordCheck, RecordInsert, OwnerClose, OwnerDone, CloseBegin, CloseFinish, DeleteEntry,
              MonitorCloseRecord, samplerVars
<1>6. MonitorClose \/ MonitorCopy \/ MonitorFinish \/ PassTime => UNCHANGED sub
  BY DEF MonitorClose, MonitorCopy, MonitorFinish, PassTime, samplerVars
<1>. QED  BY <1>1, <1>2, <1>3, <1>4, <1>5, <1>6 DEF ResNext, RecordStep, CloseStep, MonitorStep

\* A subscription that was closed keeps its history: whatever the callback of its sampler
\* collects meanwhile is not appended, and a success does not become an error (fanOut,
\* sampler.go).
THEOREM ClosedHistoryFinalAlways == ResSpec => ClosedHistoryFinal
<1>1. ResInv /\ [ResNext]_resVars => [HistoryKept]_resVars
  BY HistoryStep
<1>2. ResInit => ResInv
  BY InitHolds
<1>3. ResInv /\ [ResNext]_resVars => ResInv'
  BY ResNextHolds
<1>. QED  BY <1>1, <1>2, <1>3, PTL DEF ResSpec, ClosedHistoryFinal, HistoryKept

\* What Monitor.Close leaves open escaped its copy of the map for a reason (Close in
\* monitor.go, RecordNamespace and close in record.go).
THEOREM CloseCoversRegisteredAlways == ResSpec => []CloseCoversRegistered
<1>1. ResInv => CloseCoversRegistered
  BY DEF ResInv, Covers, Covered, CloseCoversRegistered
<1>. QED  BY <1>1, InitHolds, ResNextHolds, PTL DEF ResSpec

\* A cgroup record that finished has stopped its sampler (close in record.go).
THEOREM DoneMeansStoppedAlways == ResSpec => []DoneMeansStopped
<1>1. ResInv => DoneMeansStopped
  BY DEF ResInv
<1>. QED  BY <1>1, InitHolds, ResNextHolds, PTL DEF ResSpec

\* The variables of the monitor, its records and its samplers have their types.
THEOREM ResTypeOKAlways == ResSpec => []ResTypeOK
<1>1. ResInv => ResTypeOK
  <2> SUFFICES ASSUME ResInv PROVE ResTypeOK
    OBVIOUS
  <2>1. \A x \in Subs : sub[x].interval \in Nat \ {0} /\ sub[x].samples \in Seq(Nat)
    BY DEF ResInv, SamplerRecords, SubRecord
  <2>2. SamplerTypeOK
    BY <2>1 DEF ResInv, SamplerRecords, SamplerTypeOK
  <2>. QED  BY <2>2 DEF ResInv, MonitorRecords, RecordRecords, ResTypeOK
<1>. QED  BY <1>1, InitHolds, ResNextHolds, PTL DEF ResSpec
=============================================================================
