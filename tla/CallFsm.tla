------------------------------ MODULE CallFsm ------------------------------
(***************************************************************************)
(* The call state machine of VoipStack above the dialog of SipDialog.       *)
(*                                                                         *)
(* The main loop runs one handler at a time: the next signal of its queue,  *)
(* a user's request or a timeout.  A handler calls the transport several    *)
(* times and the SIP task may run between two calls, so a handler is one    *)
(* action per call: step says which call comes next.  What the handler does *)
(* around a call touches only the main loop's own state.                    *)
(*                                                                         *)
(* The seven terminal states differ in what they display only: they are the *)
(* one state TERMINATING here.                                              *)
(***************************************************************************)
EXTENDS SipDialog

CONSTANTS
    Policies,   \* what may be done with an incoming call: ring, answer, refuse
    HasFallback,\* Home Assistant is a known contact and not the one dialled
    BindMayFail \* whether the RTP port can fail to bind

ASSUME PolicyAssumption ==
    /\ Policies \subseteq {"ring", "answer", "refuse"}
    /\ HasFallback \in BOOLEAN
    /\ BindMayFail \in BOOLEAN

VARIABLES
    fsm,        \* the state of the machine
    step        \* the transport call that the running handler makes next

vars == <<sip, said, fsm, step>>

States == {"IDLE", "CALLING", "REMOTE_RINGING", "RINGING", "CONNECTING",
           "IN_CALL", "TERMINATING"}

Steps == {"loop", "invite", "answer", "commit", "commitFailed", "startFailed",
          "mediaOff", "mediaOffPending", "disconnect"}

FsmType ==
    [state : States,                    \* call_state_
     cur : Calls \cup {NoCall},         \* current_call_id_
     setup : BOOLEAN,                   \* incoming_setup_pending_
     mediaAnswer : BOOLEAN,             \* incoming_media_answer_pending_
     accepted : BOOLEAN,                \* incoming_answer_accepted_
     fallback : BOOLEAN,                \* ha_media_fallback_pending_
     tried : BOOLEAN,                   \* ha_media_fallback_attempted_
     terminal : Calls \cup {NoCall},    \* last_terminal_response_call_id_
     dialed : SUBSET OutCalls]          \* Call-IDs that were generated

TypeOK ==
    /\ sip \in DialogType
    /\ said \in [Calls -> SUBSET PeerSays]
    /\ fsm \in FsmType
    /\ step \in Steps

Init ==
    /\ DialogInit
    /\ fsm = [state |-> "IDLE", cur |-> NoCall, setup |-> FALSE,
              mediaAnswer |-> FALSE, accepted |-> FALSE, fallback |-> FALSE,
              tried |-> FALSE, terminal |-> NoCall, dialed |-> {}]
    /\ step = "loop"

-----------------------------------------------------------------------------
(* Ending a call: request_call_termination_, end_call_ and what follows. *)

\* is_active
Active(f) == f.state \notin {"IDLE", "TERMINATING"}

\* clear_call_identity_
ClearIdentity(f) ==
    [f EXCEPT !.cur = NoCall, !.setup = FALSE, !.mediaAnswer = FALSE, !.accepted = FALSE]

\* end_call_.  An attempt that found no common format and has Home Assistant to
\* fall back on ends without ending the call.
EndCall(f, incompatible) ==
    IF incompatible /\ f.fallback
    THEN [f EXCEPT !.cur = NoCall, !.state = "CALLING"]
    ELSE [ClearIdentity(f) EXCEPT !.state = "TERMINATING", !.fallback = FALSE]

\* resolve_sip_termination_action, with the case of an accepted incoming call.
Resolve(f, action) ==
    IF action # "AUTO" THEN action
    ELSE CASE f.state = "IN_CALL" -> "BYE"
           [] f.state = "RINGING" -> "FINAL"
           [] f.state = "CONNECTING" /\ f.accepted -> "BYE"
           [] f.state \in {"CALLING", "REMOTE_RINGING"} -> "CANCEL"
           [] f.state = "CONNECTING" /\ ~f.accepted -> "CANCEL"
           [] f.state \in {"IDLE", "TERMINATING"} -> "NONE"

SignalEnd(t, c, action) ==
    CASE action = "CANCEL" -> SendCancel(t, c)
      [] action = "BYE" -> SendBye(t, c)
      [] action = "FINAL" -> SendFinal(t, c)
      [] action = "NONE" -> t

\* Whether the transport now owns a terminal transaction, as it reports it.
EndPending(t, c, action) ==
    action = "CANCEL" \/ (action = "BYE" /\ CanBye(t, c))

\* Variant: the cleanup of the audio path is not waited for.
FinishedEarly(t) == ~TerminalPending(t)

\* finish_call_termination_ when nothing is left to wait for.
Finished(t) == ~TerminalPending(t) /\ t.phase = "IDLE"
FinishState(f) == [f EXCEPT !.state = IF @ = "TERMINATING" THEN "IDLE" ELSE @]

\* request_call_termination_ up to and including end_call_, in transport state
\* t.  cache: remember the final response of this call.
Terminate(f, t, action, cache, incompatible) ==
    LET chosen == IF f.cur = NoCall THEN "NONE" ELSE Resolve(f, action)
    IN  IF f.state = "TERMINATING"
        THEN /\ fsm' = IF Finished(t) THEN FinishState(f) ELSE f
             /\ sip' = t
             /\ step' = "loop"
        ELSE IF f.state = "IDLE" /\ ~(f.setup /\ f.cur # NoCall)
        THEN fsm' = f /\ sip' = t /\ step' = "loop"
        ELSE /\ fsm' = EndCall([f EXCEPT !.terminal = IF cache /\ f.cur # NoCall
                                                      THEN f.cur ELSE @], incompatible)
             /\ sip' = EmitFinish(SignalEnd(t, f.cur, chosen))
             /\ step' = IF EndPending(t, f.cur, chosen) THEN "mediaOffPending" ELSE "mediaOff"

\* Variant: the path is left to the end of the dialog.
MediaOffKeepingPath ==
    /\ step \in {"mediaOff", "mediaOffPending"}
    /\ step' = IF step = "mediaOff" THEN "disconnect" ELSE "loop"
    /\ UNCHANGED <<sip, fsm, said>>

\* set_in_call_(false): the audio path is stopped.
MediaOff ==
    /\ step \in {"mediaOff", "mediaOffPending"}
    /\ sip' = StopAudio(sip)
    /\ step' = IF step = "mediaOff" THEN "disconnect" ELSE "loop"
    /\ UNCHANGED <<fsm, said>>

DisconnectStep ==
    /\ step = "disconnect"
    /\ sip' = Disconnect(sip)
    /\ step' = "loop"
    /\ UNCHANGED <<fsm, said>>

-----------------------------------------------------------------------------
(* Placing a call. *)

\* start_call_attempt_ up to the INVITE.
BeginAttempt(f, c) ==
    [f EXCEPT !.cur = c, !.state = "CALLING", !.terminal = NoCall,
              !.fallback = FALSE, !.dialed = @ \cup {c}]

\* The Call-IDs that are left bound the number of attempts.
Fresh == OutCalls \ fsm.dialed

CanStart == fsm.state = "IDLE" /\ ~TerminalPending(sip)

Start ==
    /\ step = "loop"
    /\ CanStart
    /\ \E c \in Fresh : fsm' = [BeginAttempt(fsm, c) EXCEPT !.tried = FALSE]
    /\ step' = "invite"
    /\ UNCHANGED dialogVars

\* The selected contact has no address.
StartUnroutable ==
    /\ step = "loop"
    /\ CanStart
    /\ \E c \in Fresh :
          Terminate([BeginAttempt(fsm, c) EXCEPT !.tried = FALSE], sip, "NONE", FALSE, FALSE)
    /\ UNCHANGED said

InviteStep ==
    /\ step = "invite"
    /\ IF CanInvite(sip)
       THEN sip' = SendInvite(sip, fsm.cur) /\ step' = "loop" /\ UNCHANGED fsm
       ELSE Terminate(fsm, sip, "NONE", FALSE, FALSE)
    /\ UNCHANGED said

\* finish_call_termination_.  The contact of Home Assistant may have lost its
\* address since.
Finish(t) ==
    IF ~Finished(t) THEN fsm' = fsm /\ sip' = t /\ step' = "loop"
    ELSE IF fsm.fallback /\ fsm.state = "CALLING"
    THEN \E c \in Fresh :
            \/ fsm' = BeginAttempt(fsm, c) /\ sip' = t /\ step' = "invite"
            \/ Terminate(BeginAttempt(fsm, c), t, "NONE", FALSE, FALSE)
    ELSE fsm' = FinishState(fsm) /\ sip' = t /\ step' = "loop"

-----------------------------------------------------------------------------
(* Answering a call: complete_incoming_answer_. *)

\* Variant: the path is prepared before the ACK has brought the SDP answer.
CompleteAnswerEagerly(f, t, send) ==
    /\ CanPrepareMedia(t)
    /\ fsm' = [f EXCEPT !.setup = FALSE, !.state = "CONNECTING"]
    /\ sip' = PrepareMedia(t)
    /\ step' = IF send THEN "answer" ELSE "commit"

\* Up to the answer, or to the commit when the answer was sent before.
CompleteAnswer(f, t, send) ==
    LET waiting == send /\ f.mediaAnswer
        connecting == [f EXCEPT !.setup = FALSE, !.state = "CONNECTING"]
    IN  \/ /\ waiting \/ CanPrepareMedia(t)
           /\ fsm' = connecting
           /\ sip' = IF waiting THEN t ELSE PrepareMedia(t)
           /\ step' = IF send THEN "answer" ELSE "commit"
        \/ /\ ~waiting
           /\ ~CanPrepareMedia(t) \/ (BindMayFail /\ t.phase = "IDLE")
           /\ Terminate(f, t, IF send THEN "FINAL" ELSE "BYE", send, FALSE)

AnswerStep ==
    /\ step = "answer"
    /\ IF CanAnswer(sip)
       THEN /\ sip' = SendAnswer(sip, fsm.cur)
            /\ fsm' = [fsm EXCEPT !.accepted = TRUE]
            /\ step' = IF fsm.mediaAnswer THEN "loop" ELSE "commit"
       ELSE Terminate(fsm, StopAudio(SendAnswer(sip, fsm.cur)), "NONE", FALSE, FALSE)
    /\ UNCHANGED said

CommitStep ==
    /\ step = "commit"
    /\ IF CanCommitMedia(sip)
       THEN /\ sip' = CommitMedia(sip)
            /\ fsm' = [fsm EXCEPT !.state = "IN_CALL"]
            /\ step' = "loop"
       ELSE /\ sip' = EndAfterCommitFailure(sip)
            /\ step' = "commitFailed"
            /\ UNCHANGED fsm
    /\ UNCHANGED said

\* abort_media_path, then the termination with BYE.
CommitFailedStep ==
    /\ step = "commitFailed"
    /\ Terminate(fsm, StopAudio(sip), "BYE", FALSE, FALSE)
    /\ UNCHANGED said

StartFailedStep ==
    /\ step = "startFailed"
    /\ Terminate(fsm, sip, "BYE", FALSE, FALSE)
    /\ UNCHANGED said

-----------------------------------------------------------------------------
(* Signals: on_sip_signal_received_ and the deferred finish. *)

Stale(c) == fsm.cur # NoCall /\ c # fsm.cur

\* ignore_if_idle_or_stale_
Ignored(c) == fsm.state = "IDLE" \/ Stale(c)

Nothing(t) == sip' = t /\ UNCHANGED <<fsm, step>>

OnInvite(t, c) ==
    LET ringing == [fsm EXCEPT !.cur = c, !.setup = TRUE, !.accepted = FALSE,
                               !.terminal = NoCall, !.mediaAnswer = c \in Delayed]
    IN  IF fsm.state # "IDLE" THEN Nothing(t)
        ELSE IF fsm.terminal = c
        THEN sip' = SendFinal(t, c) /\ UNCHANGED <<fsm, step>>
        ELSE \/ /\ "refuse" \in Policies
                /\ sip' = SendFinal(t, c)
                /\ fsm' = [fsm EXCEPT !.terminal = c]
                /\ step' = "disconnect"
             \/ "answer" \in Policies /\ CompleteAnswer(ringing, t, TRUE)
             \/ /\ "ring" \in Policies
                /\ IF CanRespond(t)
                   THEN /\ sip' = SendRinging(t, c)
                        /\ fsm' = [ringing EXCEPT !.setup = FALSE, !.state = "RINGING"]
                        /\ UNCHANGED step
                   ELSE Terminate(ringing, SendRinging(t, c), "FINAL", TRUE, FALSE)

OnReady(t, c) ==
    IF fsm.mediaAnswer /\ fsm.state = "CONNECTING" /\ c = fsm.cur
    THEN CompleteAnswer([fsm EXCEPT !.mediaAnswer = FALSE], t, FALSE)
    ELSE Nothing(t)

\* BYE and CANCEL.
OnRemoteEnd(t, c) ==
    IF Ignored(c) THEN Nothing(t) ELSE Terminate(fsm, t, "NONE", FALSE, FALSE)

\* The answer to an outgoing call: start_audio_path.  The transport emits it
\* once per call, so the states other than these two only see late ones.
OnOk(t, c) ==
    IF fsm.terminal = c \/ Stale(c) \/ fsm.state \notin {"CALLING", "REMOTE_RINGING"}
    THEN Nothing(t)
    ELSE \/ /\ CanPrepareMedia(t)
            /\ sip' = CommitMedia(t)
            /\ fsm' = [fsm EXCEPT !.state = "IN_CALL"]
            /\ UNCHANGED step
         \/ /\ ~CanPrepareMedia(t) \/ (BindMayFail /\ t.phase = "IDLE")
            /\ sip' = t
            /\ step' = "startFailed"
            /\ UNCHANGED fsm

\* A final response, a refused format or a timeout of the INVITE.
OnFinal(t, c, incompatible) ==
    LET falls == incompatible /\ HasFallback /\ ~fsm.tried /\ fsm.cur \in OutCalls /\ Fresh # {}
                 /\ fsm.state \in {"CALLING", "REMOTE_RINGING", "CONNECTING"}
        next == IF falls THEN [fsm EXCEPT !.fallback = TRUE, !.tried = TRUE] ELSE fsm
    IN  IF Ignored(c) THEN Nothing(t) ELSE Terminate(next, t, "NONE", FALSE, incompatible)

OnRinging(t) ==
    /\ sip' = t
    /\ fsm' = [fsm EXCEPT !.state = IF @ = "CALLING" THEN "REMOTE_RINGING" ELSE @]
    /\ UNCHANGED step

TakeSignal(kind) ==
    /\ step = "loop"
    /\ sip.queue # <<>>
    /\ Head(sip.queue)[1] = kind
    /\ UNCHANGED said

Signalled == Head(sip.queue)[2]
Taken == [sip EXCEPT !.queue = Tail(@)]

TakeInvite == TakeSignal("INVITE") /\ OnInvite(Taken, Signalled)
TakeReady == TakeSignal("READY") /\ OnReady(Taken, Signalled)
TakeBye == TakeSignal("BYE") /\ OnRemoteEnd(Taken, Signalled)
TakeCancel == TakeSignal("CANCEL") /\ OnRemoteEnd(Taken, Signalled)
TakeOk == TakeSignal("OK") /\ OnOk(Taken, Signalled)
TakeFinal == TakeSignal("FINAL") /\ OnFinal(Taken, Signalled, FALSE)
TakeIncompatible == TakeSignal("INCOMPAT") /\ OnFinal(Taken, Signalled, TRUE)
TakeRinging == TakeSignal("RINGING") /\ OnRinging(Taken)
TakeFinish == TakeSignal("FINISH") /\ Finish(Taken)

-----------------------------------------------------------------------------
(* The user and the timeouts of the main loop. *)

\* answer_call
Answer ==
    /\ step = "loop"
    /\ fsm.state = "RINGING"
    /\ CompleteAnswer(fsm, sip, TRUE)
    /\ UNCHANGED said

\* stop, decline_call, the ringing and calling timeouts and the media timeout.
HangUp ==
    /\ step = "loop"
    /\ Active(fsm)
    /\ Terminate(fsm, sip, "AUTO", TRUE, FALSE)
    /\ UNCHANGED said

\* fire_unanswered_invite_timeout_
UnansweredTimeout ==
    /\ step = "loop"
    /\ fsm.state = "CALLING"
    /\ ~sip.seen
    /\ Terminate(fsm, sip, "NONE", TRUE, FALSE)
    /\ UNCHANGED said

User == Start \/ StartUnroutable \/ Answer \/ HangUp \/ UnansweredTimeout

Main == \/ TakeInvite \/ TakeReady \/ TakeBye \/ TakeCancel \/ TakeOk
        \/ TakeFinal \/ TakeIncompatible \/ TakeRinging \/ TakeFinish
        \/ InviteStep \/ AnswerStep \/ CommitStep \/ CommitFailedStep
        \/ StartFailedStep \/ MediaOff \/ DisconnectStep

SipTask == (Receive \/ Deadline) /\ UNCHANGED <<fsm, step>>

RtpWorker == MediaQuiesced /\ UNCHANGED <<fsm, step>>

Peers == Peer /\ UNCHANGED <<fsm, step>>

Next == Main \/ User \/ SipTask \/ RtpWorker \/ Peers

Spec == Init /\ [][Next]_vars

\* The scheduler runs the main loop, the SIP task keeps its deadlines and the
\* worker finishes a cleanup.  No peer, user or network owes anything.
Fairness ==
    /\ WF_vars(Main)
    /\ WF_vars(InviteTimeout /\ UNCHANGED <<fsm, step>>)
    /\ WF_vars(TerminalTimeout /\ UNCHANGED <<fsm, step>>)
    /\ WF_vars(FinalTimeout /\ UNCHANGED <<fsm, step>>)
    /\ WF_vars(RtpWorker)

FairSpec == Spec /\ Fairness

-----------------------------------------------------------------------------
(* What the phone promises. *)

\* No handler is running and no signal waits.
Quiet == step = "loop" /\ sip.queue = <<>>

\* Once the signals are worked off, the call that the phone shows is the dialog
\* that the transport holds, with its identifiers complete, and a call that is
\* shown as established carries media.  This is so for one incoming call beside
\* outgoing ones, whatever CANCEL, BYE, late response, repeated INVITE or timeout
\* of it the SIP task handled between two calls of a handler of the main loop.
\* It is not so with two incoming calls: a local dial that cannot be routed
\* disconnects and wipes the dialog of an INVITE whose signal is still queued,
\* and that signal rings the phone when another INVITE holds the dialog.
CallHasDialog ==
    (Quiet /\ Active(fsm) /\ ~fsm.fallback) =>
        /\ fsm.cur # NoCall /\ sip.call = fsm.cur /\ sip.dlg = fsm.cur
        /\ fsm.state = "IN_CALL" => sip.media /\ sip.phase = "ACTIVE"
        /\ fsm.state \in {"CALLING", "REMOTE_RINGING"} => sip.outInv

\* No audio path without a call: whenever the main loop is between handlers, a
\* path that holds the RTP port belongs to a call that is being connected or is
\* established.
MediaFollowsCall ==
    (step = "loop" /\ sip.phase \in {"PREPARED", "ACTIVE"})
        => fsm.state \in {"CONNECTING", "IN_CALL"}

\* A BYE is not on its way while the ACK of its dialog is awaited; a deferred one is
\* the BYE of the dialog that waits.
ByeWaits(t) ==
    /\ t.pBye /\ t.final.await /\ t.final.status = "200" => t.final.call # t.call
    /\ t.termAck => MustDeferBye(t)

\* "putting an invalid pre-ACK BYE on the wire" never happens: the local end of
\* an answered call waits for the ACK, and what it waits for is the ACK of this
\* very dialog.
ByeAwaitsAck == ByeWaits(sip)

\* "A delayed-offer UAS cannot prepare a converter, claim devices or start
\* playout": until the ACK brings the SDP answer the audio path stays closed.
DelayedOfferWaits ==
    (fsm.cur \in Delayed /\ sip.final.call = fsm.cur /\ sip.final.await)
        => sip.phase \notin {"PREPARED", "ACTIVE"}

\* A call that is ending waits for something that will come: a transaction with
\* a deadline, or the cleanup of the audio path.
TerminatingHasCause ==
    (Quiet /\ fsm.state = "TERMINATING") => TerminalPending(sip) \/ sip.phase # "IDLE"

\* What the phone shows of a call has something behind it: a dialog, or what is
\* left to do before the next call.
CallInv == TypeOK /\ CallHasDialog /\ TerminatingHasCause

\* "Public idle is published only after signaling, RTP, media tasks and buffers
\* are reusable."
IdleIsReusable ==
    (Quiet /\ fsm.state = "IDLE") => sip.call = NoCall /\ sip.phase = "IDLE"

\* Every ending ends.
TerminationEnds == fsm.state = "TERMINATING" ~> fsm.state = "IDLE"

\* An attempt to call connects, ends or makes way for the attempt through Home
\* Assistant, whatever the peer does.
AttemptResolves ==
    fsm.state \in {"CALLING", "REMOTE_RINGING"}
        ~> fsm.state \in {"IN_CALL", "IDLE"} \/ fsm.fallback

-----------------------------------------------------------------------------
(* What every step preserves, and ByeAwaitsAck and MediaFollowsCall follow   *)
(* from, for any number of calls.                                           *)

\* A 2xx of this phone waits for its ACK.
Answered(t) == t.final.await /\ t.final.status = "200"

OpenPath(t) == t.phase \in {"PREPARED", "ACTIVE"}

\* A dialog without Call-ID has nothing else: no INVITE, no identifiers.
EmptyIsEmpty(t) ==
    /\ t.pInvite => t.call # NoCall
    /\ t.call = NoCall => t.dlg = NoCall /\ ~t.delayed

\* While its ACK is awaited the 2xx is that of the dialog, unless that is gone.
AnswerOfDialog(t) ==
    Answered(t) => /\ t.call \in {t.final.call, NoCall}
                   /\ t.call = t.final.call => t.dlg = t.final.inv

\* A delayed offer that was answered is settled by the ACK, unless a BYE was first.
AckSettlesOffer(t) ==
    t.delayed /\ t.final.status = "200" /\ t.dlg \in InCalls /\ FinalHeld(t, t.dlg) =>
        t.final.await \/ t.pBye

TransportInv(t) ==
    EmptyIsEmpty(t) /\ AnswerOfDialog(t) /\ AckSettlesOffer(t) /\ ByeWaits(t)

\* An open audio path is a call's, or the running handler is about to stop it.
MediaOwned ==
    OpenPath(sip) =>
        fsm.state \in {"CONNECTING", "IN_CALL"} \/ step \in {"mediaOff", "mediaOffPending"}

\* What a handler that will call the transport for a call knows of it.
HandlerHasCall ==
    /\ fsm.state = "RINGING" => fsm.cur \in InCalls
    /\ step = "answer" => fsm.cur \in InCalls
    /\ step \in {"answer", "commit"} => fsm.state = "CONNECTING"
    /\ step = "invite" => fsm.cur \in OutCalls

\* While the ACK is awaited the machine is not idle, and it still has that call, as one
\* it accepted, or has none.
AnswerHasCall ==
    Answered(sip) =>
        /\ fsm.state # "IDLE" /\ step # "answer"
        /\ fsm.cur # NoCall => /\ fsm.cur = sip.final.call /\ fsm.accepted
                              /\ fsm.state \in {"CONNECTING", "IN_CALL"}

\* Before a call is answered no BYE of an incoming dialog is on its way.
NoByeBeforeAnswer ==
    fsm.state \in {"IDLE", "RINGING"} \/ step = "answer" => ~(sip.pBye /\ sip.dlg \in InCalls)

AnswerInv ==
    /\ TypeOK
    /\ TransportInv(sip)
    /\ MediaOwned /\ HandlerHasCall /\ AnswerHasCall /\ NoByeBeforeAnswer

=============================================================================
