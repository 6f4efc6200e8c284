------------------------------- MODULE LLBGate -------------------------------
(***************************************************************************)
(* Waiting at a gate (client/llb/ops/gateop): GateOp.Wait and the          *)
(* approvers it asks.  The waits share one gate and one approver; people   *)
(* answer through the channel or at the webhook whenever they like.        *)
(***************************************************************************)
EXTENDS Integers, Sequences, FiniteSets, SequencesExt

CONSTANTS
    GtWorlds,   \* [approver: "auto", "channel" or "webhook"; wrapped: in a TimeoutApprover; auto: what that decides;
                \*  timeout: GateInfo.Timeout > 0]
    GtWaits,    \* calls of Wait
    GtAnswers   \* answers given through the channel -> TRUE for Approve, FALSE for Deny

VARIABLES
    gtOf,       \* the world
    gtWait,     \* [pc, err: ctx.Err(), got: the answer or who decided, yes: Approved]
    gtChan,     \* ChannelApprover.ch
    gtSent,     \* the answers whose Approve or Deny has returned
    gtHook      \* what the webhook answers: "pending", "approved", "denied"
gtVars == <<gtOf, gtWait, gtChan, gtSent, gtHook>>

\* What may stand in got for want of an answer.
NoAnswer == {"", "auto", "error", "hook", "timeout"}
ASSUME GateAssumption ==
    /\ GtWorlds \subseteq [approver : {"auto", "channel", "webhook"}, wrapped : BOOLEAN, auto : BOOLEAN, timeout : BOOLEAN]
    /\ GtAnswers \in [DOMAIN GtAnswers -> BOOLEAN]
    /\ DOMAIN GtAnswers \cap NoAnswer = {}

ChanCap == 1
Waiting(w) == gtWait[w].pc \in {"select", "post", "poll"}
Decided(w, got, yes) == gtWait' = [gtWait EXCEPT ![w].pc = "done", ![w].got = got, ![w].yes = yes]

\* Variant: any error of the inner approver counts as the timeout.
FailsDecided(w, err) == IF gtOf.wrapped THEN Decided(w, "timeout", gtOf.auto) ELSE Decided(w, "error", FALSE)
\* The approver returns an error: TimeoutApprover takes a deadline, whosever it was, for its own.
Fails(w, err) ==
    IF gtOf.wrapped /\ err = "deadline" THEN Decided(w, "timeout", gtOf.auto) ELSE Decided(w, "error", FALSE)

GtBegin(w) ==
    /\ gtWait[w].pc = "idle"
    /\ IF gtOf.approver = "auto" THEN Decided(w, "auto", TRUE)
       ELSE gtWait' = [gtWait EXCEPT ![w].pc = IF gtOf.approver = "channel" THEN "select" ELSE "post"]
    /\ UNCHANGED <<gtOf, gtChan, gtSent, gtHook>>
\* The caller cancels, or the first of the deadlines in force passes.
GtCtxDone(w) ==
    /\ Waiting(w) /\ gtWait[w].err = ""
    /\ \E err \in {"canceled"} \cup (IF gtOf.wrapped \/ gtOf.timeout THEN {"deadline"} ELSE {}) :
         gtWait' = [gtWait EXCEPT ![w].err = err]
    /\ UNCHANGED <<gtOf, gtChan, gtSent, gtHook>>
\* Approve and Deny block while the channel is full.
GtAnswer(a) ==
    /\ a \notin gtSent /\ Len(gtChan) < ChanCap
    /\ gtChan' = Append(gtChan, a) /\ gtSent' = gtSent \cup {a}
    /\ UNCHANGED <<gtOf, gtWait, gtHook>>
\* The two cases of the select: an answer may be taken after the context is done.
GtReceive(w) ==
    /\ gtWait[w].pc = "select" /\ gtChan # << >>
    /\ Decided(w, Head(gtChan), GtAnswers[Head(gtChan)]) /\ gtChan' = Tail(gtChan)
    /\ UNCHANGED <<gtOf, gtSent, gtHook>>
GtGiveUp(w) ==
    /\ gtWait[w].pc \in {"select", "poll"} /\ gtWait[w].err # ""
    /\ Fails(w, gtWait[w].err)
    /\ UNCHANGED <<gtOf, gtChan, gtSent, gtHook>>
\* The first request: it may be refused, and the HTTP client has a deadline of its own.
GtPost(w) ==
    /\ gtWait[w].pc = "post"
    /\ \/ gtWait' = [gtWait EXCEPT ![w].pc = "poll"]
       \/ gtWait[w].err # "" /\ Fails(w, gtWait[w].err)
       \/ gtWait[w].err = "" /\ Fails(w, "refused")
       \/ /\ gtWait[w].err = ""
          /\ LET late == [gtWait[w] EXCEPT !.pc = "done", !.err = "deadline"]
             IN  gtWait' = [gtWait EXCEPT ![w] = IF gtOf.wrapped THEN [late EXCEPT !.got = "timeout", !.yes = gtOf.auto]
                                                 ELSE [late EXCEPT !.got = "error"]]
    /\ UNCHANGED <<gtOf, gtChan, gtSent, gtHook>>
GtHookSet == gtHook = "pending" /\ gtHook' \in {"approved", "denied"} /\ UNCHANGED <<gtOf, gtWait, gtChan, gtSent>>
\* A tick: a poll that fails or finds the gate pending changes nothing.
GtPoll(w) ==
    /\ gtWait[w].pc = "poll" /\ gtHook # "pending"
    /\ Decided(w, "hook", gtHook = "approved")
    /\ UNCHANGED <<gtOf, gtChan, gtSent, gtHook>>

GtInit ==
    /\ gtOf \in GtWorlds /\ gtHook = "pending" /\ gtChan = << >> /\ gtSent = {}
    /\ gtWait = [w \in GtWaits |-> [pc |-> "idle", err |-> "", got |-> "", yes |-> FALSE]]
GtNext ==
    \/ \E w \in GtWaits : GtBegin(w) \/ GtCtxDone(w) \/ GtReceive(w) \/ GtGiveUp(w) \/ GtPost(w) \/ GtPoll(w)
    \/ gtOf.approver = "channel" /\ \E a \in DOMAIN GtAnswers : GtAnswer(a)
    \/ gtOf.approver = "webhook" /\ GtHookSet
\* One gate, asked over and over, while its approvers answer.
GtSpec == GtInit /\ [][GtNext]_gtVars

-----------------------------------------------------------------------------
\* A gate opens for a reason: somebody approved, the webhook did, no approval is asked for, or a
\* deadline has passed before a wrapped approver had answered; a cancelled wait opens nothing unless
\* an answer was there as well (TimeoutApprover.WaitForApproval, GateOp.Wait).
OpensForReason ==
    \A w \in GtWaits : gtWait[w].pc = "done" /\ gtWait[w].yes =>
        \/ gtOf.approver = "auto"
        \/ gtOf.approver = "channel" /\ gtWait[w].got \in {a \in gtSent : GtAnswers[a]}
        \/ gtWait[w].got = "hook" /\ gtHook = "approved"
        \/ gtWait[w].got = "timeout" /\ gtOf.auto /\ gtWait[w].err = "deadline"

\* An answer that was accepted is neither lost nor used twice: it waits in the channel or has decided
\* one wait, be that a later one than it was meant for.
AnswersKept ==
    \A a \in gtSent :
        Cardinality({w \in GtWaits : gtWait[w].got = a}) + Cardinality({i \in DOMAIN gtChan : gtChan[i] = a}) = 1

\* Nobody passes a gate on less than an answer, and an answer lets one pass.
GatesDecide == OpensForReason /\ AnswersKept
=============================================================================
