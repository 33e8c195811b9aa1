----------------------------- MODULE SipDialog -----------------------------
(***************************************************************************)
(* The one SIP dialog of SipTransport over UDP, its transactions and the    *)
(* signals it queues for the call state machine.                            *)
(*                                                                         *)
(* Every entry point of the transport runs under dialog_mutex_, so it is a  *)
(* function from one state of the dialog, the record sip, to the next.      *)
(* Functions that can refuse have a companion predicate (CanBye, ...).      *)
(* The media path is known here by its phase only; MediaLifecycle says how  *)
(* that phase is kept.                                                      *)
(*                                                                         *)
(* The peers are external: said is what they have sent, and the network may *)
(* deliver it late, twice, out of order or never.                           *)
(***************************************************************************)
EXTENDS Sequences, Naturals

CONSTANTS
    InCalls,    \* Call-IDs of calls that peers may place
    OutCalls,   \* Call-IDs of calls that this phone may place
    NoCall,     \* the empty Call-ID
    MaxQueue    \* the network delivers while fewer signals than this wait

ASSUME CallAssumption ==
    /\ InCalls \cap OutCalls = {}
    /\ NoCall \notin InCalls \cup OutCalls
    /\ MaxQueue \in Nat

VARIABLES
    sip,    \* the dialog and its transactions
    said    \* for each call, what the peer has put on the network

dialogVars == <<sip, said>>

Calls == InCalls \cup OutCalls

\* What this phone has put on the wire for a call.
Sent == {"100", "180", "200", "REJECT", "INVITE", "CANCEL", "BYE", "ACK"}

\* What a peer puts on the wire by its own decision.  Its ACKs and its answers
\* to BYE follow from what it received.
PeerFinals == {"200", "200bad", "4xx", "488"}
PeerSays == {"NOOFFER", "INVITE", "CANCEL", "BYE"} \cup PeerFinals

\* The incoming calls whose INVITE carries no SDP offer.
Delayed == {c \in InCalls : "NOOFFER" \in said[c]}

NoFinal == [call |-> NoCall, inv |-> NoCall, status |-> "none", await |-> FALSE]

FinalResponses ==
    [call : Calls, inv : InCalls, status : {"200", "REJECT"}, await : BOOLEAN]

\* The signals of the main loop's queue, each with the calls it can be about.
SignalsOfCalls ==
    ({"INVITE", "READY", "CANCEL"} \X InCalls)
        \cup ({"OK", "RINGING"} \X OutCalls)
        \cup ({"BYE", "FINAL", "INCOMPAT"} \X Calls)
        \cup {<<"FINISH", NoCall>>}

DialogType ==
    [call : Calls \cup {NoCall},    \* call_id_
     dlg : Calls \cup {NoCall},     \* whose tags, URIs and INVITE headers are held
     media : BOOLEAN,               \* media_active_
     outInv : BOOLEAN,              \* outgoing_invite_pending_
     cancelReq : BOOLEAN,           \* cancel_requested_
     termAck : BOOLEAN,             \* terminate_after_invite_ack_
     delayed : BOOLEAN,             \* delayed_offer_pending_
     pInvite : BOOLEAN,             \* pending_invite_
     pCancel : BOOLEAN,             \* pending_cancel_
     pBye : BOOLEAN,                \* pending_bye_
     final : FinalResponses \cup {NoFinal},
                                    \* completed_invite_
     control : {"none", "BYE", "CANCEL"} \X (Calls \cup {NoCall}),
                                    \* completed_control_
     seen : BOOLEAN,                \* last_sip_status_code_ is not 0
     phase : {"IDLE", "PREPARED", "ACTIVE", "CLEANING"},
     out : [Calls -> SUBSET Sent],
     gone : SUBSET Calls,           \* INVITEs older than 64*T1
     queue : Seq(SignalsOfCalls)]

DialogInit ==
    /\ sip = [call |-> NoCall, dlg |-> NoCall, media |-> FALSE,
              outInv |-> FALSE, cancelReq |-> FALSE, termAck |-> FALSE,
              delayed |-> FALSE, pInvite |-> FALSE, pCancel |-> FALSE,
              pBye |-> FALSE, final |-> NoFinal, control |-> <<"none", NoCall>>,
              seen |-> FALSE, phase |-> "IDLE", out |-> [c \in Calls |-> {}],
              gone |-> {}, queue |-> <<>>]
    /\ \E without \in SUBSET InCalls :
          said = [c \in Calls |-> IF c \in without THEN {"NOOFFER"} ELSE {}]

-----------------------------------------------------------------------------
(* Media, dialog and transaction state. *)

\* terminal_transaction_pending_locked_
TerminalPending(t) == t.pCancel \/ t.pBye \/ t.final.await \/ t.termAck

\* stop_audio_path, abort_media_path
StopAudio(t) ==
    [t EXCEPT !.media = FALSE,
              !.phase = IF @ \in {"PREPARED", "ACTIVE"} THEN "CLEANING" ELSE @]

\* reset_dialog_.  The completed transactions survive it.
ResetDialog(t) ==
    [StopAudio(t) EXCEPT !.call = NoCall, !.dlg = NoCall, !.delayed = FALSE,
                         !.outInv = FALSE, !.cancelReq = FALSE, !.termAck = FALSE,
                         !.pInvite = FALSE, !.pCancel = FALSE, !.pBye = FALSE]

\* emit_sip_signal_: the main loop takes it from its queue later.
Emit(t, kind, c) == [t EXCEPT !.queue = Append(@, <<kind, c>>)]
EmitFinish(t) == Emit(t, "FINISH", NoCall)

Put(t, c, message) == [t EXCEPT !.out[c] = @ \cup {message}]

\* prepare_media_path.  The bind may fail.
CanPrepareMedia(t) == t.phase # "CLEANING"
PrepareMedia(t) == [t EXCEPT !.phase = IF @ = "IDLE" THEN "PREPARED" ELSE @]

\* commit_media_path, as far as it holds the media lock.
CanCommitMedia(t) == t.phase \in {"PREPARED", "ACTIVE"}
CommitMedia(t) == [t EXCEPT !.phase = "ACTIVE"]

\* remember_completed_response_ for an INVITE whose headers are those of inv.
\* An answer to another request does not evict the final response of the live
\* dialog while its ACK is awaited.
RememberFinal(t, c, inv, status) ==
    IF t.final.await /\ t.final.call = t.call /\ t.dlg \in InCalls
       /\ <<t.final.call, t.final.inv>> # <<c, inv>>
    THEN t
    ELSE [t EXCEPT !.final = [call |-> c, inv |-> inv, status |-> status, await |-> TRUE]]

\* send_response_: the reply carries the Call-ID in call_id_ and the headers of
\* the last INVITE, and reaches the caller only when they belong together.
CanRespond(t) == t.dlg \in InCalls
SendResponse(t, status) ==
    LET final == status \in {"200", "REJECT"}
        owned == IF final THEN RememberFinal(t, t.call, t.dlg, status) ELSE t
        seen == [owned EXCEPT !.seen = TRUE]
    IN  IF ~CanRespond(t) THEN t
        ELSE IF t.call = t.dlg THEN Put(seen, t.call, status) ELSE seen

\* send_stateless_response_ to an INVITE, kept for retransmissions or not.
SendStateless(t, c, cached) ==
    [IF cached THEN RememberFinal(t, c, c, "REJECT") ELSE t EXCEPT !.seen = TRUE]

-----------------------------------------------------------------------------
(* What the call state machine calls. *)

\* Variant: a BYE is sent whether or not the 2xx was acknowledged.
NeverDeferBye(t) == FALSE

\* defer_bye_until_uas_ack_locked_
MustDeferBye(t) ==
    /\ t.final.await
    /\ t.final.status = "200"
    /\ t.call # NoCall /\ t.final.call = t.call /\ t.final.inv = t.dlg

\* send_bye
CanBye(t, c) == t.call # NoCall /\ c = t.call
SendBye(t, c) ==
    IF ~CanBye(t, c) THEN t
    ELSE IF MustDeferBye(t) THEN StopAudio([t EXCEPT !.termAck = TRUE])
    ELSE StopAudio([Put(t, c, "BYE") EXCEPT !.pBye = TRUE])

\* send_cancel.  It takes effect whatever the dialog is.
SendCancel(t, c) ==
    LET own == [t EXCEPT !.call = c]
    IN  IF ~t.outInv THEN SendBye(own, c)
        ELSE [Put(own, c, "CANCEL") EXCEPT !.cancelReq = TRUE, !.pCancel = TRUE,
                                           !.pInvite = FALSE]

\* send_final_response
SendFinal(t, c) ==
    IF t.outInv THEN SendCancel(t, c)
    ELSE ResetDialog(SendResponse([t EXCEPT !.call = c], "REJECT"))

\* send_ringing
SendRinging(t, c) == SendResponse([t EXCEPT !.call = c], "180")

\* send_answer
CanAnswer(t) == t.phase # "CLEANING" /\ CanRespond(t)
SendAnswer(t, c) ==
    LET own == [t EXCEPT !.call = c, !.outInv = FALSE]
    IN  IF ~CanAnswer(t) THEN own
        ELSE [SendResponse(own, "200") EXCEPT !.media = @ \/ ~t.delayed]

\* send_invite
CanInvite(t) == ~TerminalPending(t) /\ t.phase = "IDLE"
SendInvite(t, c) ==
    IF ~CanInvite(t) THEN t
    ELSE [Put(ResetDialog(t), c, "INVITE") EXCEPT
              !.call = c, !.dlg = c, !.seen = FALSE, !.pInvite = TRUE, !.outInv = TRUE]

\* terminate_dialog_after_media_commit_failure_
EndAfterCommitFailure(t) ==
    IF t.call # NoCall /\ t.final.status = "200" /\ t.final.call = t.call
    THEN IF MustDeferBye(t) THEN [t EXCEPT !.termAck = TRUE] ELSE SendBye(t, t.call)
    ELSE t

\* disconnect
Disconnect(t) == IF TerminalPending(t) THEN t ELSE ResetDialog(t)

-----------------------------------------------------------------------------
(* The SIP task: requests. *)

\* replay_completed_response_: the request repeats one that was answered; the
\* INVITE is the one whose final response is kept.
Replayed(t, method, c) == t.control = <<method, c>>
FinalHeld(t, c) == t.final.call = c /\ t.final.inv = c

\* Requests and responses that carry the identifiers of the held dialog.
InDialog(t, c) == t.call = c /\ t.dlg = c

\* handle_invite_ for an INVITE without To tag.
HandleInvite(t, c, compatible) ==
    LET fresh == [t EXCEPT !.call = c, !.dlg = c, !.delayed = c \in Delayed]
    IN  IF FinalHeld(t, c) THEN t
        ELSE IF TerminalPending(t) THEN SendStateless(t, c, FALSE)         \* 503
        ELSE IF t.call \notin {NoCall, c} THEN SendStateless(t, c, TRUE)  \* 486, 491
        ELSE IF InDialog(t, c) THEN t            \* the 1xx is replayed
        ELSE IF t.call = c THEN SendStateless(t, c, FALSE)                 \* 486
        ELSE IF t.phase = "CLEANING" THEN SendStateless(t, c, TRUE)        \* 503
        ELSE IF compatible THEN Emit(SendResponse(fresh, "100"), "INVITE", c)
        ELSE ResetDialog(SendResponse(fresh, "REJECT"))                    \* 488

\* The ACK to a final response of the given status.  acceptable: the SDP answer
\* to a delayed offer can be used.
HandleAck(t, c, status, acceptable) ==
    LET acked == [t EXCEPT !.final.await = FALSE]
        ended == [acked EXCEPT !.termAck = FALSE]
        open == [acked EXCEPT !.delayed = FALSE, !.outInv = FALSE, !.media = TRUE]
        refused == [acked EXCEPT !.delayed = FALSE]
    IN  IF ~(FinalHeld(t, c) /\ t.final.status = status) THEN t
        ELSE IF status = "REJECT" THEN EmitFinish(acked)
        ELSE IF t.termAck
             THEN IF CanBye(ended, t.call) THEN SendBye(ended, t.call) ELSE ResetDialog(ended)
        ELSE IF ~InDialog(t, c) \/ t.pBye THEN acked
        ELSE IF ~t.delayed THEN open
        ELSE IF acceptable THEN Emit(open, "READY", c)
        ELSE Emit(SendBye(refused, c), "INCOMPAT", c)

\* BYE.  A crossed BYE keeps the local BYE transaction.
HandleBye(t, c) ==
    LET answered == Emit([t EXCEPT !.control = <<"BYE", c>>, !.seen = TRUE], "BYE", c)
    IN  IF Replayed(t, "BYE", c) THEN t
        ELSE IF ~InDialog(t, c) \/ ~(t.media \/ t.pBye)
             THEN [t EXCEPT !.seen = TRUE]                                   \* 481
        ELSE IF t.pBye THEN answered ELSE ResetDialog(answered)

\* Variant: a cancelled INVITE is answered without telling the call state machine.
HandleCancelSilently(t, c) ==
    IF InDialog(t, c) /\ ~t.media THEN ResetDialog(SendResponse(t, "REJECT")) ELSE t

\* CANCEL
HandleCancel(t, c) ==
    LET answered == [t EXCEPT !.control = <<"CANCEL", c>>]
    IN  IF Replayed(t, "CANCEL", c) THEN t
        ELSE IF ~InDialog(t, c) \/ t.media THEN [t EXCEPT !.seen = TRUE]
        ELSE ResetDialog(Emit(SendResponse(answered, "REJECT"), "CANCEL", c))

-----------------------------------------------------------------------------
(* The SIP task: responses. *)

\* replay_completed_invite_ack_: a final response that was acknowledged before
\* only has its ACK repeated.
AlreadyAcked(t, c) == "ACK" \in t.out[c]

\* 100 Trying, or a provisional response above it.
HandleProvisional(t, c, ringing) ==
    LET seen == [t EXCEPT !.seen = TRUE]
    IN  IF ~InDialog(t, c) THEN t
        ELSE IF ringing THEN Emit(seen, "RINGING", c) ELSE seen

\* A final response to the INVITE.  4xx stands for every refusal but 488, and for
\* a 2xx without To tag; 200bad is a 2xx whose SDP answer cannot be used.
HandleFinal(t, c, status) ==
    LET done == [Put(t, c, "ACK") EXCEPT !.seen = TRUE, !.pInvite = FALSE, !.outInv = FALSE]
    IN  IF AlreadyAcked(t, c) \/ ~InDialog(t, c) THEN t
        ELSE CASE status = "4xx" -> ResetDialog(Emit(done, "FINAL", c))
               [] status = "488" -> ResetDialog(Emit(done, "INCOMPAT", c))
               [] status \in {"200", "200bad"} ->
                    \* The CANCEL crossed the 2xx: the dialog exists, end it.
                    IF t.cancelReq THEN SendBye(done, c)
                    ELSE IF status = "200bad" THEN Emit(SendBye(done, c), "INCOMPAT", c)
                    ELSE Emit([done EXCEPT !.media = TRUE], "OK", c)

\* The answer to this phone's BYE, whatever its status.
HandleByeResponse(t, c) ==
    IF InDialog(t, c) /\ t.pBye THEN EmitFinish(ResetDialog(t)) ELSE t

-----------------------------------------------------------------------------
(* The SIP task: deadlines, pump_udp_retransmits_unlocked_. *)

\* Variants: the signal carries the Call-ID after the reset; there is no signal.
InviteDeadlineLateId(t) == Emit(ResetDialog(t), "FINAL", ResetDialog(t).call)
InviteDeadlineSilent(t) == ResetDialog(t)

\* The INVITE got no final response within 64*T1.
InviteDeadline(t) == Emit(ResetDialog(t), "FINAL", t.call)

\* Variant: nobody is told that the terminal transaction is over.
TerminalDeadlineSilent(t) == ResetDialog(t)

\* The CANCEL was not followed by the end of its INVITE, or the BYE was not
\* answered.
TerminalDeadline(t) == EmitFinish(ResetDialog(t))

\* 64*T1 after the final response it is forgotten.  The same pass gives up
\* waiting for its ACK, which ends the dialog of a 2xx.
FinalDeadline(t) ==
    LET forgotten == [t EXCEPT !.final = NoFinal, !.gone = @ \cup {t.final.call}]
        live == t.final.await /\ t.final.status = "200" /\ t.call # NoCall
                /\ t.final.call = t.call /\ t.final.inv = t.dlg
    IN  IF live
        THEN Emit(SendBye([forgotten EXCEPT !.termAck = FALSE], t.call), "FINAL", t.call)
        ELSE forgotten

-----------------------------------------------------------------------------
(* Steps of the SIP task and of the RTP worker. *)

\* The network delivers to a main loop that keeps up.
Room == Len(sip.queue) < MaxQueue

ReceiveInvite(c) ==
    /\ "INVITE" \in said[c] /\ c \notin sip.gone /\ Room
    /\ \E compatible \in BOOLEAN : sip' = HandleInvite(sip, c, compatible)
    /\ UNCHANGED said

ReceiveAck(c, status) ==
    /\ status \in sip.out[c] \/ <<c, c, status>> =
           <<sip.final.call, sip.final.inv, sip.final.status>>
    /\ Room
    /\ \E acceptable \in BOOLEAN : sip' = HandleAck(sip, c, status, acceptable)
    /\ UNCHANGED said

ReceiveBye(c) ==
    /\ "BYE" \in said[c] /\ Room
    /\ sip' = HandleBye(sip, c)
    /\ UNCHANGED said

ReceiveCancel(c) ==
    /\ "CANCEL" \in said[c] /\ Room
    /\ sip' = HandleCancel(sip, c)
    /\ UNCHANGED said

ReceiveProvisional(c) ==
    /\ "INVITE" \in sip.out[c] /\ Room
    /\ \E ringing \in BOOLEAN : sip' = HandleProvisional(sip, c, ringing)
    /\ UNCHANGED said

ReceiveFinal(c, status) ==
    /\ status \in said[c] /\ Room
    /\ sip' = HandleFinal(sip, c, status)
    /\ UNCHANGED said

ReceiveByeResponse(c) ==
    /\ "BYE" \in sip.out[c] /\ Room
    /\ sip' = HandleByeResponse(sip, c)
    /\ UNCHANGED said

InviteTimeout ==
    /\ sip.pInvite /\ sip.outInv
    /\ sip' = InviteDeadline(sip)
    /\ UNCHANGED said

TerminalTimeout ==
    /\ sip.pCancel \/ sip.pBye
    /\ sip' = TerminalDeadline(sip)
    /\ UNCHANGED said

FinalTimeout ==
    /\ sip.final # NoFinal
    /\ sip' = FinalDeadline(sip)
    /\ UNCHANGED said

\* The RTP worker closed the sockets: emit_media_quiesced_.
MediaQuiesced ==
    /\ sip.phase = "CLEANING"
    /\ sip' = EmitFinish([sip EXCEPT !.phase = "IDLE"])
    /\ UNCHANGED said

Receive == \/ \E c \in InCalls : \/ ReceiveInvite(c) \/ ReceiveCancel(c)
                                 \/ \E status \in {"200", "REJECT"} : ReceiveAck(c, status)
           \/ \E c \in OutCalls : \/ ReceiveProvisional(c)
                                  \/ \E status \in PeerFinals : ReceiveFinal(c, status)
           \/ \E c \in Calls : ReceiveBye(c) \/ ReceiveByeResponse(c)

Deadline == InviteTimeout \/ TerminalTimeout \/ FinalTimeout

-----------------------------------------------------------------------------
(* The peers. *)

Say(c, message) ==
    /\ message \notin said[c]
    /\ said' = [said EXCEPT ![c] = @ \cup {message}]
    /\ UNCHANGED sip

PeerCalls(c) == Say(c, "INVITE")

\* A caller cancels once it was told that its INVITE arrived.
PeerCancels(c) == "100" \in sip.out[c] /\ Say(c, "CANCEL")

\* The peer of an incoming call hangs up once it was answered; the peer of an
\* outgoing call once its answer was acknowledged.
PeerHangsUp(c) ==
    /\ IF c \in InCalls THEN "200" \in sip.out[c]
                        ELSE said[c] \cap {"200", "200bad"} # {} /\ "ACK" \in sip.out[c]
    /\ Say(c, "BYE")

\* A called peer sends one final response.
PeerAnswers(c, status) ==
    /\ "INVITE" \in sip.out[c]
    /\ said[c] \cap PeerFinals = {}
    /\ Say(c, status)

Peer == \/ \E c \in InCalls : PeerCalls(c) \/ PeerCancels(c)
        \/ \E c \in Calls : PeerHangsUp(c)
        \/ \E c \in OutCalls, status \in PeerFinals : PeerAnswers(c, status)

=============================================================================
