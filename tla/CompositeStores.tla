-------------------------- MODULE CompositeStores ----------------------------
(***************************************************************************)
(* The content stores made of others (src/core/content/store/composite):   *)
(* fanout over equal stores, split between a read store (1) and write      *)
(* stores, fallback from a primary (1) to a secondary (2), each possibly   *)
(* behind the read-only middleware, used by several clients at a time.     *)
(*                                                                         *)
(* A store holds a version of each digest, 0 when it does not have it.  A  *)
(* world is [kind, n, down, readonly, has, fails]: the stores that answer  *)
(* every call with an error other than not-found, what they hold at first, *)
(* and the digests a walk's function fails on.                             *)
(***************************************************************************)
EXTENDS Naturals, Sequences, SequencesExt, FiniteSets

CONSTANTS
    CsWorlds,
    CsClients,
    CsDigests,
    MaxCalls    \* bound on the calls of all clients

ASSUME StoresAssumption ==
    \A w \in CsWorlds :
        /\ w.kind \in {"fanout", "split", "fallback"} /\ w.n \in Nat \ {0}
        /\ w.has \in [1..w.n -> [CsDigests -> Nat]]

VARIABLES
    csOf,      \* the world
    csVer,     \* store -> digest -> version
    csCall,    \* client -> [op, d, v], op "none" when it is in no call
    csTodo,    \* the stores its call has still to ask
    csRes,     \* store -> "nil", "notfound", "err", "skip": its answers
    csRet,     \* what its last call returned: "none", "nil", "notfound", "err"
    csMade,    \* calls made
    csMixed,   \* digests that calls of several clients have changed at the same time
    csPut,     \* digests whose Writer and Commit succeeded since they were last deleted
    csGone,    \* digests whose Delete succeeded since they were last written
    csWalk,    \* of the walk: store -> digests still to visit
    csSeen, csFn,  \* digests that were seen; how often the function was called with each
    csDone     \* the walk that ended last: "none", "nil", "err"
csVars == <<csOf, csVer, csCall, csTodo, csRes, csRet, csMade, csMixed, csPut, csGone, csWalk, csSeen, csFn, csDone>>

Stores == 1..csOf.n
Down(s) == s \in csOf.down
NoCall == [op |-> "none", d |-> 0, v |-> 0]
walkVars == <<csWalk, csSeen, csFn, csDone>>

\* The stores an operation goes to.
WriteStores == CASE csOf.kind = "fanout" -> Stores [] csOf.kind = "split" -> Stores \ {1} [] OTHER -> Stores
DeleteStores == IF csOf.kind = "fallback" THEN {1} ELSE Stores
UpdateStores == IF csOf.kind = "fallback" THEN {1} ELSE WriteStores
WalkStores == IF csOf.kind = "fanout" THEN Stores ELSE {1}
Targets(op) == CASE op = "put" -> WriteStores [] op = "delete" -> DeleteStores [] OTHER -> UpdateStores

CsInit ==
    /\ csOf \in CsWorlds /\ csVer = csOf.has
    /\ csCall = [c \in CsClients |-> NoCall] /\ csTodo = [c \in CsClients |-> {}]
    /\ csRes = [c \in CsClients |-> [s \in Stores |-> "skip"]] /\ csRet = [c \in CsClients |-> "none"]
    /\ csMade = 0 /\ csMixed = {} /\ csPut = {} /\ csGone = {}
    /\ csWalk = [s \in Stores |-> {}] /\ csSeen = {} /\ csFn = [d \in CsDigests |-> 0] /\ csDone = "none"

-----------------------------------------------------------------------------
\* A call of Writer with its Commit, of Delete or of Update.  Versions number the calls.
Busy(d) == \E c \in CsClients : csCall[c].op # "none" /\ csCall[c].d = d
CsBegin(c, op, d) ==
    /\ csCall[c].op = "none" /\ csMade < MaxCalls /\ csMade' = csMade + 1
    /\ IF csOf.readonly THEN csRet' = [csRet EXCEPT ![c] = "err"] /\ UNCHANGED <<csCall, csTodo, csRes, csMixed, csPut, csGone>>
       ELSE /\ csCall' = [csCall EXCEPT ![c] = [op |-> op, d |-> d, v |-> csMade + 2]]
            /\ csTodo' = [csTodo EXCEPT ![c] = Targets(op)] /\ csRes' = [csRes EXCEPT ![c] = [s \in Stores |-> "skip"]]
            /\ csMixed' = IF Busy(d) THEN csMixed \cup {d} ELSE csMixed
            /\ csPut' = (IF op = "delete" THEN csPut \ {d} ELSE csPut)
            /\ csGone' = (IF op = "put" THEN csGone \ {d} ELSE csGone)
            /\ UNCHANGED csRet
    /\ UNCHANGED <<csOf, csVer, walkVars>>

\* What a backing store answers.
Answer(s, call) ==
    IF Down(s) THEN "err" ELSE IF call.op # "put" /\ csVer[s][call.d] = 0 THEN "notfound" ELSE "nil"

\* One store of a call: in any order where the code asks them in parallel, else in turn; a
\* fallback store does not write to its secondary when the primary has failed.
Parallel == csOf.kind = "fanout"
CsAsk(c, s) ==
    /\ csCall[c].op # "none" /\ s \in csTodo[c] /\ (Parallel \/ \A t \in csTodo[c] : s <= t)
    /\ LET a == Answer(s, csCall[c])
       IN /\ csTodo' = [csTodo EXCEPT ![c] = IF csOf.kind = "fallback" /\ a # "nil" THEN {} ELSE @ \ {s}]
          /\ csRes' = [csRes EXCEPT ![c][s] = a]
          /\ csVer' = IF a = "nil" THEN [csVer EXCEPT ![s][csCall[c].d] = IF csCall[c].op = "delete" THEN 0 ELSE csCall[c].v] ELSE csVer
    /\ UNCHANGED <<csOf, csCall, csRet, csMade, csMixed, csPut, csGone, walkVars>>

\* filterNotFound: not-found counts only when every store says so.
AnsweredBy(res, a) == {s \in Stores : res[s] = a}

\* Variant: one success hides the errors of the others.
FilterOneSuccess(res) == IF AnsweredBy(res, "nil") # {} THEN "nil" ELSE "notfound"

FilterNotFound(res) ==
    IF AnsweredBy(res, "err") # {} THEN "err"
    ELSE IF AnsweredBy(res, "notfound") = Stores THEN "notfound" ELSE "nil"

\* split: the first error, also when it is not-found.
FirstError(res) ==
    LET bad == AnsweredBy(res, "err") \cup AnsweredBy(res, "notfound")
    IN IF bad = {} THEN "nil" ELSE res[CHOOSE s \in bad : \A t \in bad : s <= t]

\* A writer needs one store (fanout, split) or the primary (fallback).
PutResult(res) ==
    LET opened == AnsweredBy(res, "nil")
    IN IF opened = {} \/ (csOf.kind = "fallback" /\ 1 \notin opened) THEN "err" ELSE "nil"
CallResult(op, res) ==
    CASE op = "put" -> PutResult(res)
      [] op # "put" /\ csOf.kind = "fanout" -> FilterNotFound(res)
      [] op # "put" /\ csOf.kind = "split" -> FirstError(res)
      [] OTHER -> res[1]
CsReturn(c) ==
    /\ csCall[c].op # "none" /\ csTodo[c] = {}
    /\ LET op == csCall[c].op
           d == csCall[c].d
           r == CallResult(op, csRes[c])
       IN /\ csRet' = [csRet EXCEPT ![c] = r]
          /\ csPut' = (IF op = "put" /\ r = "nil" /\ d \notin csMixed THEN csPut \cup {d} ELSE csPut)
          /\ csGone' = (IF op = "delete" /\ r = "nil" /\ d \notin csMixed THEN csGone \cup {d} ELSE csGone)
    /\ csCall' = [csCall EXCEPT ![c] = NoCall] /\ csRes' = [csRes EXCEPT ![c] = [s \in Stores |-> "skip"]]
    /\ UNCHANGED <<csOf, csVer, csTodo, csMade, csMixed, walkVars>>

-----------------------------------------------------------------------------
\* Where Info finds a digest: the first store, in this order, that answers.
Has(s, d) == ~Down(s) /\ csVer[s][d] # 0
InfoOrder == IF csOf.kind = "split" THEN [i \in Stores |-> IF i = csOf.n THEN 1 ELSE i + 1] ELSE [i \in Stores |-> i]
InfoFinds(d) ==
    IF csOf.kind = "fallback" THEN Has(1, d) \/ (~Down(1) /\ Has(2, d))
    ELSE \E i \in Stores : Has(InfoOrder[i], d)

\* ReaderAt asks the read store first, and then all others.
ReaderFinds(d) == IF csOf.kind = "fallback" THEN InfoFinds(d) ELSE \E s \in Stores : Has(s, d)

-----------------------------------------------------------------------------
\* Walk: each store's digests as it lists them, all stores at the same time.
Walking == \E s \in Stores : csWalk[s] # {}
WalkBegin ==
    /\ csDone = "none" /\ ~Walking
    /\ csWalk' = [s \in Stores |-> IF s \in WalkStores /\ ~Down(s) THEN {d \in CsDigests : csVer[s][d] # 0} ELSE {}]
    /\ \E s \in Stores : csWalk'[s] # {}
    /\ UNCHANGED <<csOf, csVer, csCall, csTodo, csRes, csRet, csMade, csMixed, csPut, csGone, csSeen, csFn, csDone>>

AlreadySeen(d) == d \in csSeen
WalkVisit(s, d) ==
    /\ d \in csWalk[s] /\ csSeen' = csSeen \cup {d}
    /\ csFn' = IF AlreadySeen(d) THEN csFn ELSE [csFn EXCEPT ![d] = @ + 1]
    /\ LET fails == ~AlreadySeen(d) /\ d \in csOf.fails
           rest == [csWalk EXCEPT ![s] = IF fails THEN {} ELSE @ \ {d}]
       IN /\ csWalk' = rest
          /\ csDone' = IF (\A t \in Stores : rest[t] = {})
                       THEN (IF (csSeen' \cap csOf.fails) # {} \/ (WalkStores \cap csOf.down) # {} THEN "err" ELSE "nil")
                       ELSE csDone
    /\ UNCHANGED <<csOf, csVer, csCall, csTodo, csRes, csRet, csMade, csMixed, csPut, csGone>>

CsNext ==
    \/ \E c \in CsClients, d \in CsDigests, op \in {"put", "delete", "update"} : CsBegin(c, op, d)
    \/ \E c \in CsClients : (\E s \in Stores : CsAsk(c, s)) \/ CsReturn(c)
    \/ WalkBegin \/ \E s \in Stores, d \in CsDigests : WalkVisit(s, d)

\* Clients that call, and a walk beside them.
CsSpec == CsInit /\ [][CsNext]_csVars

-----------------------------------------------------------------------------
\* What was written is found by Info and by ReaderAt, whichever stores took it, until it is
\* deleted; calls of several clients on one digest at a time are left out.
PutIsRead == \A d \in csPut \ csMixed : InfoFinds(d) /\ ReaderFinds(d)

\* A Delete that succeeded has left the digest in no store it goes to.
DeletedIsGone == \A d \in csGone \ csMixed : \A s \in DeleteStores : csVer[s][d] = 0

\* The walk calls its function once for every digest of its stores, although it walks them
\* at the same time and they share digests.
WalkOncePerDigest ==
    /\ \A d \in CsDigests : csFn[d] <= 1
    /\ csDone = "nil" => \A d \in csSeen : csFn[d] = 1

\* A composite store behaves as one store, whichever of its stores are down: it finds what was
\* written, loses what was deleted and walks each digest once.
OneStore == PutIsRead /\ DeletedIsGone /\ WalkOncePerDigest
=============================================================================
