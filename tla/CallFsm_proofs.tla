--------------------------- MODULE CallFsm_proofs ---------------------------
(***************************************************************************)
(* Proofs about CallFsm, for any sets of calls, any queue length and any    *)
(* policy: the answer to a call and its ACK.                                *)
(*                                                                         *)
(* Every function of the transport maps one dialog to the next, so what it  *)
(* does is stated once, of any dialog: most are a SipStep, which gains      *)
(* neither a 2xx to wait for nor an open path.  Then each handler of the    *)
(* main loop is shown to keep the invariant (Good), at every point where    *)
(* the SIP task may run.                                                   *)
(***************************************************************************)
EXTENDS CallFsm, TLAPS

\* What the invariant knows of a dialog is as before.
SameDialog(t, u) ==
    /\ u.call = t.call /\ u.dlg = t.dlg /\ u.delayed = t.delayed
    /\ u.pInvite = t.pInvite /\ u.pBye = t.pBye /\ u.termAck = t.termAck
    /\ u.final = t.final

\* The invariant of the transport but for the delayed offer, which the steps of one
\* function may break in between.
BaseInv(t) == EmptyIsEmpty(t) /\ AnswerOfDialog(t) /\ ByeWaits(t)

\* No 2xx has come to be awaited and no audio path has been opened.
NothingGained(t, u) ==
    /\ Answered(u) => Answered(t) /\ u.final = t.final
    /\ OpenPath(u) => OpenPath(t)

\* No BYE of an incoming dialog was sent before it was answered.
NoNewBye(t, u) ==
    u.pBye /\ u.dlg \in InCalls => (t.pBye /\ t.dlg \in InCalls) \/ Answered(t)

\* What every step of the SIP task does at most, whatever it handles.
SipStep(t, u) ==
    /\ u \in DialogType /\ TransportInv(u)
    /\ NothingGained(t, u) /\ NoNewBye(t, u)

-----------------------------------------------------------------------------
(* What the elementary operations of the transport leave alone. *)

\* The fields of a dialog have their types.
LEMMA FieldTypes ==
    ASSUME NEW t \in DialogType
    PROVE  /\ t.call \in Calls \cup {NoCall} /\ t.dlg \in Calls \cup {NoCall}
           /\ t.final \in FinalResponses \cup {NoFinal}
           /\ {t.media, t.outInv, t.cancelReq, t.termAck, t.delayed, t.pInvite, t.pCancel,
               t.pBye, t.seen} \subseteq BOOLEAN
           /\ t.phase \in {"IDLE", "PREPARED", "ACTIVE", "CLEANING"}
           /\ t.out \in [Calls -> SUBSET Sent]
           /\ t.gone \subseteq Calls
           /\ t.queue \in Seq(SignalsOfCalls)
BY SMT DEF DialogType

\* The fields of a remembered final response have theirs.
LEMMA FinalTypes ==
    ASSUME NEW f \in FinalResponses \cup {NoFinal}
    PROVE  /\ f.call \in Calls \cup {NoCall} /\ f.inv \in InCalls \cup {NoCall}
           /\ f.status \in {"200", "REJECT", "none"} /\ f.await \in BOOLEAN
           /\ f.await => f \in FinalResponses
           /\ f # NoFinal => f.call \in Calls /\ f.inv \in InCalls
           /\ f.status = "200" => f.call \in Calls /\ f.inv \in InCalls
<1>1. CASE f \in FinalResponses
  <2>1. f.call \in Calls /\ f.inv \in InCalls /\ f.status \in {"200", "REJECT"}
        /\ f.await \in BOOLEAN
    BY <1>1, SMT DEF FinalResponses
  <2> QED BY <1>1, <2>1
<1>2. CASE f = NoFinal
  <2>1. f.call = NoCall /\ f.inv = NoCall /\ f.status = "none" /\ f.await = FALSE
    BY <1>2, SMT DEF NoFinal
  <2> QED BY <1>2, <2>1
<1> QED BY <1>1, <1>2

\* The same of the final response of a dialog: awaited, it is a real one.
LEMMA FinalOf ==
    ASSUME NEW t \in DialogType
    PROVE  /\ t.final.call \in Calls \cup {NoCall} /\ t.final.inv \in InCalls \cup {NoCall}
           /\ t.final.status \in {"200", "REJECT", "none"} /\ t.final.await \in BOOLEAN
           /\ t.final.await => t.final.call \in Calls /\ t.final.call # NoCall
                            /\ t.final.inv \in InCalls
           /\ t.final # NoFinal => t.final.call \in Calls /\ t.final.inv \in InCalls
           /\ t.final.status = "200" => t.final.call \in Calls /\ t.final.inv \in InCalls
<1>1. t.final \in FinalResponses \cup {NoFinal}
  BY FieldTypes
<1>2. t.final \in FinalResponses => t.final.call \in Calls /\ t.final.inv \in InCalls
  BY SMT DEF FinalResponses
<1> QED BY <1>1, <1>2, FinalTypes, CallAssumption DEF Calls

\* The invariant depends on those fields only.
LEMMA SameDialogInv ==
    ASSUME NEW t, NEW u, SameDialog(t, u)
    PROVE  /\ TransportInv(t) => TransportInv(u)
           /\ BaseInv(t) => BaseInv(u)
           /\ Answered(u) = Answered(t)
           /\ MustDeferBye(u) = MustDeferBye(t)
BY SMT DEF SameDialog, TransportInv, BaseInv, EmptyIsEmpty, AnswerOfDialog, AckSettlesOffer,
           ByeWaits, Answered, MustDeferBye, FinalHeld

\* emit_sip_signal_ only queues.
LEMMA EmitKeeps ==
    ASSUME NEW t \in DialogType, NEW kind, NEW c, <<kind, c>> \in SignalsOfCalls
    PROVE  /\ Emit(t, kind, c) \in DialogType
           /\ SameDialog(t, Emit(t, kind, c))
           /\ Emit(t, kind, c).phase = t.phase
<1> DEFINE q == Append(t.queue, <<kind, c>>)
           u == [t EXCEPT !.queue = q]
<1>1. q \in Seq(SignalsOfCalls)
  BY FieldTypes, SMT
<1>2. Emit(t, kind, c) = u
  BY Zenon DEF Emit
<1> HIDE DEF q
<1>3. u \in DialogType
  BY <1>1, Zenon DEF DialogType
<1>4. SameDialog(t, u) /\ u.phase = t.phase
  BY SMT DEF SameDialog, DialogType
<1> QED BY <1>2, <1>3, <1>4

\* Sending only sends.
LEMMA PutKeeps ==
    ASSUME NEW t \in DialogType, NEW c \in Calls, NEW message \in Sent
    PROVE  /\ Put(t, c, message) \in DialogType
           /\ SameDialog(t, Put(t, c, message))
           /\ Put(t, c, message).phase = t.phase
<1> DEFINE o == [t.out EXCEPT ![c] = @ \cup {message}]
           u == [t EXCEPT !.out = o]
<1>1. o \in [Calls -> SUBSET Sent]
  BY FieldTypes, SMT
<1>2. Put(t, c, message) = u
  BY Zenon DEF Put
<1> HIDE DEF o
<1>3. u \in DialogType
  BY <1>1, Zenon DEF DialogType
<1>4. SameDialog(t, u) /\ u.phase = t.phase
  BY SMT DEF SameDialog, DialogType
<1> QED BY <1>2, <1>3, <1>4

\* stop_audio_path closes the path and leaves the dialog as it is.
LEMMA StopAudioKeeps ==
    ASSUME NEW t \in DialogType
    PROVE  /\ StopAudio(t) \in DialogType
           /\ SameDialog(t, StopAudio(t))
           /\ ~OpenPath(StopAudio(t))
<1> DEFINE p == IF OpenPath(t) THEN "CLEANING" ELSE t.phase
           u == [t EXCEPT !.media = FALSE, !.phase = p]
<1>1. p \in {"IDLE", "PREPARED", "ACTIVE", "CLEANING"} /\ p \notin {"PREPARED", "ACTIVE"}
  BY FieldTypes, SMT DEF OpenPath
<1>2. StopAudio(t) = u
  BY Zenon DEF StopAudio, OpenPath
<1> HIDE DEF p
<1>3. u \in DialogType
  BY <1>1, Zenon DEF DialogType
<1>4. SameDialog(t, u) /\ u.phase = p
  BY SMT DEF SameDialog, DialogType
<1> QED BY <1>1, <1>2, <1>3, <1>4 DEF OpenPath

\* reset_dialog_ leaves the empty dialog, in which the invariant holds.
LEMMA ResetDialogClears ==
    ASSUME NEW t \in DialogType
    PROVE  /\ ResetDialog(t) \in DialogType
           /\ TransportInv(ResetDialog(t))
           /\ ~OpenPath(ResetDialog(t))
           /\ ResetDialog(t).call = NoCall
           /\ ResetDialog(t).dlg = NoCall
           /\ ResetDialog(t).final = t.final
           /\ ~ResetDialog(t).pBye
           /\ ~ResetDialog(t).termAck
           /\ ~ResetDialog(t).pInvite
<1> DEFINE s == StopAudio(t)
           u == [s EXCEPT !.call = NoCall, !.dlg = NoCall, !.delayed = FALSE,
                         !.outInv = FALSE, !.cancelReq = FALSE, !.termAck = FALSE,
                         !.pInvite = FALSE, !.pCancel = FALSE, !.pBye = FALSE]
<1>1. s \in DialogType /\ ~OpenPath(s) /\ s.final = t.final
  BY StopAudioKeeps DEF SameDialog
<1>2. ResetDialog(t) = u
  BY Zenon DEF ResetDialog
<1>3. NoCall \in Calls \cup {NoCall} /\ FALSE \in BOOLEAN
  OBVIOUS
<1> HIDE DEF s
<1>4. u \in DialogType
  BY <1>1, <1>3, ZenonT(60) DEF DialogType
<1>5. /\ u.call = NoCall /\ u.dlg = NoCall /\ u.final = s.final /\ u.phase = s.phase
      /\ u.pBye = FALSE /\ u.termAck = FALSE /\ u.pInvite = FALSE /\ u.delayed = FALSE
  BY <1>1, SMT DEF DialogType
<1>6. NoCall \notin InCalls
  BY CallAssumption
<1> HIDE DEF u
<1>7. u.final.await => u.final.call # NoCall
  BY <1>4, FinalOf
<1>8. TransportInv(u)
  BY <1>5, <1>6, <1>7, SMT DEF TransportInv, EmptyIsEmpty, AnswerOfDialog, AckSettlesOffer,
           ByeWaits, Answered, MustDeferBye, FinalHeld
<1>9. ~OpenPath(u)
  BY <1>1, <1>5, SMT DEF OpenPath
<1> QED BY <1>1, <1>2, <1>4, <1>5, <1>8, <1>9, Zenon

\* The same but for the final response, which was remembered or replaced.
SameIds(t, u) ==
    /\ u.call = t.call /\ u.dlg = t.dlg /\ u.delayed = t.delayed
    /\ u.pInvite = t.pInvite /\ u.pBye = t.pBye /\ u.termAck = t.termAck

\* prepare_media_path leaves the dialog as it is,
LEMMA PrepareMediaKeeps ==
    ASSUME NEW t \in DialogType
    PROVE  PrepareMedia(t) \in DialogType /\ SameDialog(t, PrepareMedia(t))
<1> DEFINE p == IF t.phase = "IDLE" THEN "PREPARED" ELSE t.phase
           u == [t EXCEPT !.phase = p]
<1>1. p \in {"IDLE", "PREPARED", "ACTIVE", "CLEANING"}
  BY FieldTypes, SMT
<1>2. PrepareMedia(t) = u
  BY Zenon DEF PrepareMedia
<1> HIDE DEF p
<1>3. u \in DialogType
  BY <1>1, Zenon DEF DialogType
<1>4. SameDialog(t, u)
  BY SMT DEF SameDialog, DialogType
<1> QED BY <1>2, <1>3, <1>4

\* and so does commit_media_path.
LEMMA CommitMediaKeeps ==
    ASSUME NEW t \in DialogType
    PROVE  CommitMedia(t) \in DialogType /\ SameDialog(t, CommitMedia(t))
<1>1. CommitMedia(t) \in DialogType
  BY Zenon DEF DialogType, CommitMedia
<1>2. SameDialog(t, CommitMedia(t))
  BY SMT DEF SameDialog, DialogType, CommitMedia
<1> QED BY <1>1, <1>2

\* remember_completed_response_ touches the final response only.
LEMMA RememberFinalKeeps ==
    ASSUME NEW t \in DialogType, NEW c \in Calls, NEW inv \in InCalls,
           NEW status \in {"200", "REJECT"}
    PROVE  /\ RememberFinal(t, c, inv, status) \in DialogType
           /\ SameIds(t, RememberFinal(t, c, inv, status))
           /\ RememberFinal(t, c, inv, status).phase = t.phase
           /\ RememberFinal(t, c, inv, status).final \in
                {t.final, [call |-> c, inv |-> inv, status |-> status, await |-> TRUE]}
<1> DEFINE f == [call |-> c, inv |-> inv, status |-> status, await |-> TRUE]
           u == [t EXCEPT !.final = f]
<1>1. f \in FinalResponses \cup {NoFinal}
  BY SMT DEF FinalResponses
<1>2. RememberFinal(t, c, inv, status) \in {t, u}
  BY Zenon DEF RememberFinal
<1> HIDE DEF f
<1>3. u \in DialogType
  BY <1>1, Zenon DEF DialogType
<1>4. SameIds(t, u) /\ u.phase = t.phase /\ u.final = f
  BY SMT DEF SameIds, DialogType
<1>5. SameIds(t, t)
  BY DEF SameIds
<1> HIDE DEF u
<1>6. CASE RememberFinal(t, c, inv, status) = u
  BY <1>6, <1>3, <1>4 DEF f
<1>7. CASE RememberFinal(t, c, inv, status) = t
  BY <1>7, <1>5
<1> QED BY <1>2, <1>6, <1>7

\* Noting that the peer was heard of leaves the dialog as it is.
LEMMA SeenKeeps ==
    ASSUME NEW t \in DialogType
    PROVE  /\ [t EXCEPT !.seen = TRUE] \in DialogType
           /\ SameDialog(t, [t EXCEPT !.seen = TRUE])
           /\ [t EXCEPT !.seen = TRUE].phase = t.phase
<1>1. [t EXCEPT !.seen = TRUE] \in DialogType
  BY Zenon DEF DialogType
<1> QED BY <1>1, SMT DEF SameDialog, DialogType

\* Steps that leave the dialog as it is compose.
LEMMA SameSteps ==
    ASSUME NEW t, NEW u, NEW v
    PROVE  /\ SameDialog(t, u) /\ SameDialog(u, v) => SameDialog(t, v)
           /\ SameIds(t, u) /\ SameIds(u, v) => SameIds(t, v)
           /\ SameDialog(t, u) => SameIds(t, u) /\ u.final = t.final
           /\ SameDialog(t, t)
BY Zenon DEF SameDialog, SameIds

\* send_response_ remembers a final response with the identifiers of the dialog, or keeps
\* the one that may not be evicted.
LEMMA SendResponseKeeps ==
    ASSUME NEW t \in DialogType, NEW status \in {"100", "180", "200", "REJECT"}, t.call \in Calls
    PROVE  /\ SendResponse(t, status) \in DialogType
           /\ SameIds(t, SendResponse(t, status))
           /\ SendResponse(t, status).phase = t.phase
           /\ \/ SendResponse(t, status).final = t.final
              \/ /\ status \in {"200", "REJECT"} /\ t.dlg \in InCalls
                 /\ SendResponse(t, status).final =
                      [call |-> t.call, inv |-> t.dlg, status |-> status, await |-> TRUE]
<1> DEFINE u == SendResponse(t, status)
           final == [call |-> t.call, inv |-> t.dlg, status |-> status, await |-> TRUE]
           owned == IF status \in {"200", "REJECT"} THEN RememberFinal(t, t.call, t.dlg, status)
                                                    ELSE t
           seen == [owned EXCEPT !.seen = TRUE]
<1>1. CASE t.dlg \notin InCalls
  <2>1. u = t
    BY <1>1, Zenon DEF SendResponse, CanRespond
  <2> HIDE DEF u
  <2> QED BY <2>1, SameSteps DEF u
<1>2. CASE t.dlg \in InCalls
  <2>1. /\ owned \in DialogType /\ SameIds(t, owned) /\ owned.phase = t.phase
        /\ owned.final = t.final \/ (status \in {"200", "REJECT"} /\ owned.final = final)
    <3>1. CASE status \in {"200", "REJECT"}
      <4> DEFINE r == RememberFinal(t, t.call, t.dlg, status)
      <4>1. r \in DialogType /\ SameIds(t, r) /\ r.phase = t.phase /\ r.final \in {t.final, final}
        BY <3>1, <1>2, RememberFinalKeeps
      <4>2. owned = r
        BY <3>1, Zenon
      <4> HIDE DEF owned, r, final
      <4> QED BY <4>1, <4>2, <3>1, Zenon
    <3>2. CASE status \notin {"200", "REJECT"}
      <4>1. owned = t
        BY <3>2, Zenon
      <4> HIDE DEF owned, final
      <4> QED BY <4>1, SameSteps, Zenon
    <3> QED BY <3>1, <3>2
  <2> HIDE DEF owned
  <2>2. seen \in DialogType /\ SameDialog(owned, seen) /\ seen.phase = owned.phase
    BY <2>1, SeenKeeps
  <2> HIDE DEF seen
  <2>3. seen.call \in Calls
    BY <2>1, <2>2 DEF SameDialog, SameIds
  <2> DEFINE put == Put(seen, t.call, status)
  <2>4. put \in DialogType /\ SameDialog(seen, put) /\ put.phase = seen.phase
    <3>1. status \in Sent
      BY DEF Sent
    <3> QED BY <3>1, <2>2, PutKeeps
  <2>5. u \in {seen, put}
    BY <1>2, Zenon DEF SendResponse, CanRespond, seen, owned
  <2> HIDE DEF u, put, final
  <2>6. u \in DialogType /\ SameDialog(owned, u) /\ u.phase = owned.phase
    BY <2>2, <2>4, <2>5, SameSteps
  <2>7. SameIds(t, u) /\ u.final = owned.final
    BY <2>1, <2>6, SameSteps
  <2> QED BY <2>1, <2>6, <2>7, <1>2 DEF final, u
<1> QED BY <1>1, <1>2

\* A refusal that replaces the final response awaits no 2xx.
LEMMA RejectedInv ==
    ASSUME NEW t, NEW u, SameIds(t, u), u.final.status = "REJECT", ~t.termAck, EmptyIsEmpty(t)
    PROVE  TransportInv(u) /\ ~Answered(u)
BY SMT DEF SameIds, TransportInv, EmptyIsEmpty, AnswerOfDialog, AckSettlesOffer, ByeWaits, Answered,
           MustDeferBye, FinalHeld

\* A BYE is deferred only while a 2xx awaits its ACK.
LEMMA NoAnswerNoDeferral ==
    ASSUME NEW t, ByeWaits(t), ~Answered(t)
    PROVE  ~t.termAck
BY DEF ByeWaits, MustDeferBye, Answered

\* send_bye defers the BYE exactly while the ACK of the dialog is awaited.
LEMMA SendByeSettles ==
    ASSUME NEW t \in DialogType, NEW c, BaseInv(t), CanBye(t, c)
    PROVE  /\ SendBye(t, c) \in DialogType /\ TransportInv(SendBye(t, c))
           /\ NothingGained(t, SendBye(t, c))
           /\ SendBye(t, c).call = t.call /\ SendBye(t, c).dlg = t.dlg
<1> DEFINE u == SendBye(t, c)
<1>1. c \in Calls /\ c = t.call
  BY FieldTypes DEF CanBye
<1>2. CASE MustDeferBye(t)
  <2> DEFINE s == [t EXCEPT !.termAck = TRUE]
  <2>1. s \in DialogType
    BY Zenon DEF DialogType
  <2>2. /\ s.call = t.call /\ s.dlg = t.dlg /\ s.delayed = t.delayed /\ s.pInvite = t.pInvite
        /\ s.pBye = t.pBye /\ s.termAck /\ s.final = t.final /\ s.phase = t.phase
    BY SMT DEF DialogType
  <2>3. u = StopAudio(s)
    BY <1>2, Zenon DEF SendBye, CanBye
  <2> HIDE DEF s, u
  <2>4. TransportInv(s) /\ Answered(s) = Answered(t)
    BY <1>2, <2>2, SMT DEF TransportInv, BaseInv, EmptyIsEmpty, AnswerOfDialog, AckSettlesOffer,
           ByeWaits, Answered, MustDeferBye, FinalHeld
  <2>5. u \in DialogType /\ SameDialog(s, u) /\ ~OpenPath(u)
    BY <2>1, <2>3, StopAudioKeeps
  <2>6. TransportInv(u) /\ Answered(u) = Answered(s)
    BY <2>4, <2>5, SameDialogInv
  <2>7. u.final = t.final /\ u.call = t.call /\ u.dlg = t.dlg
    BY <2>2, <2>5 DEF SameDialog
  <2> QED BY <2>4, <2>5, <2>6, <2>7 DEF NothingGained, u
<1>3. CASE ~MustDeferBye(t)
  <2> DEFINE b == Put(t, c, "BYE")
             s == [b EXCEPT !.pBye = TRUE]
  <2>1. b \in DialogType /\ SameDialog(t, b) /\ b.phase = t.phase
    BY <1>1, PutKeeps DEF Sent
  <2>2. u = StopAudio(s)
    BY <1>3, Zenon DEF SendBye
  <2> HIDE DEF b, u
  <2>3. s \in DialogType
    BY <2>1, Zenon DEF DialogType
  <2>4. /\ s.call = b.call /\ s.dlg = b.dlg /\ s.delayed = b.delayed /\ s.pInvite = b.pInvite
        /\ s.pBye /\ s.termAck = b.termAck /\ s.final = b.final
    BY <2>1, SMT DEF DialogType
  <2> HIDE DEF s
  <2>5. /\ s.call = t.call /\ s.dlg = t.dlg /\ s.delayed = t.delayed /\ s.pInvite = t.pInvite
        /\ s.pBye /\ s.termAck = t.termAck /\ s.final = t.final
    BY <2>1, <2>4, SMT DEF SameDialog
  <2>6. TransportInv(s) /\ Answered(s) = Answered(t)
    BY <1>1, <1>3, <2>5, FinalOf, SMT DEF TransportInv, BaseInv, EmptyIsEmpty, AnswerOfDialog,
       AckSettlesOffer,
           ByeWaits, Answered, MustDeferBye, FinalHeld, CanBye
  <2>7. u \in DialogType /\ SameDialog(s, u) /\ ~OpenPath(u)
    BY <2>2, <2>3, StopAudioKeeps
  <2>8. TransportInv(u) /\ Answered(u) = Answered(s)
    BY <2>6, <2>7, SameDialogInv
  <2>9. u.final = t.final /\ u.call = t.call /\ u.dlg = t.dlg
    BY <2>5, <2>7 DEF SameDialog
  <2> QED BY <2>6, <2>7, <2>8, <2>9 DEF NothingGained, u
<1> QED BY <1>2, <1>3

-----------------------------------------------------------------------------
(* Steps of the transport. *)

\* A step that leaves the dialog as it is.
LEMMA SameDialogStep ==
    ASSUME NEW t \in DialogType, NEW u \in DialogType, TransportInv(t), SameDialog(t, u),
           OpenPath(u) => OpenPath(t)
    PROVE  SipStep(t, u)
<1>1. TransportInv(u) /\ Answered(u) = Answered(t)
  BY SameDialogInv
<1> QED BY <1>1 DEF SipStep, NothingGained, NoNewBye, SameDialog

\* A step that ends in reset_dialog_.
LEMMA ResetDialogStep ==
    ASSUME NEW t, NEW s \in DialogType, NothingGained(t, s)
    PROVE  SipStep(t, ResetDialog(s))
<1> DEFINE u == ResetDialog(s)
<1>1. /\ u \in DialogType /\ TransportInv(u) /\ ~OpenPath(u) /\ u.final = s.final /\ ~u.pBye
  BY ResetDialogClears
<1>2. Answered(u) = Answered(s)
  BY <1>1 DEF Answered
<1> QED BY <1>1, <1>2 DEF SipStep, NothingGained, NoNewBye

\* A step may queue a signal,
LEMMA EmitStep ==
    ASSUME NEW t, NEW s, SipStep(t, s), NEW kind, NEW c, <<kind, c>> \in SignalsOfCalls
    PROVE  SipStep(t, Emit(s, kind, c))
<1> DEFINE u == Emit(s, kind, c)
<1>1. s \in DialogType /\ TransportInv(s)
  BY DEF SipStep
<1>2. u \in DialogType /\ SameDialog(s, u) /\ u.phase = s.phase
  BY <1>1, EmitKeeps
<1>3. TransportInv(u) /\ Answered(u) = Answered(s)
  BY <1>1, <1>2, SameDialogInv
<1> HIDE DEF u
<1>4. SipStep(t, u)
  BY <1>2, <1>3 DEF SipStep, NothingGained, NoNewBye, SameDialog, OpenPath
<1> QED BY <1>4 DEF u

\* among them the deferred finish.
LEMMA FinishStep ==
    ASSUME NEW t, NEW s, SipStep(t, s)
    PROVE  SipStep(t, EmitFinish(s))
<1>1. <<"FINISH", NoCall>> \in SignalsOfCalls
  BY DEF SignalsOfCalls
<1> QED BY <1>1, EmitStep DEF EmitFinish

\* Steps compose.
LEMMA StepsCompose ==
    ASSUME NEW t, NEW s, NEW u, SipStep(t, s), SipStep(s, u)
    PROVE  SipStep(t, u)
BY DEF SipStep, NothingGained, NoNewBye

\* Doing nothing is a step.
LEMMA NoStep ==
    ASSUME NEW t \in DialogType, TransportInv(t)
    PROVE  SipStep(t, t)
BY DEF SipStep, NothingGained, NoNewBye

\* Stopping the audio path is a step.
LEMMA StopAudioStep ==
    ASSUME NEW t \in DialogType, TransportInv(t)
    PROVE  SipStep(t, StopAudio(t))
BY StopAudioKeeps, SameDialogStep

\* The senders take the Call-ID of their caller,
LEMMA OwnCall ==
    ASSUME NEW t \in DialogType, NEW c \in Calls
    PROVE  /\ [t EXCEPT !.call = c] \in DialogType
           /\ [t EXCEPT !.call = c].call = c
           /\ [t EXCEPT !.call = c].dlg = t.dlg
           /\ [t EXCEPT !.call = c].delayed = t.delayed
           /\ [t EXCEPT !.call = c].pInvite = t.pInvite
           /\ [t EXCEPT !.call = c].pBye = t.pBye
           /\ [t EXCEPT !.call = c].termAck = t.termAck
           /\ [t EXCEPT !.call = c].final = t.final
           /\ [t EXCEPT !.call = c].phase = t.phase
<1>1. [t EXCEPT !.call = c] \in DialogType
  BY Zenon DEF DialogType
<1> QED BY <1>1, SMT DEF DialogType

\* No call has the empty Call-ID, and no call is both incoming and outgoing.
LEMMA NoCallIsNone ==
    NoCall \notin Calls /\ NoCall \notin InCalls /\ InCalls \cap OutCalls = {}
BY CallAssumption DEF Calls

\* which breaks nothing as long as no 2xx awaits its ACK.
LEMMA OwnCallInv ==
    ASSUME NEW t, NEW s, NEW c \in Calls, TransportInv(t), ~Answered(t),
           s.call = c, s.dlg = t.dlg, s.delayed = t.delayed, s.pBye = t.pBye,
           s.termAck = t.termAck, s.final = t.final
    PROVE  TransportInv(s) /\ ~Answered(s)
BY NoCallIsNone, SMT DEF TransportInv, EmptyIsEmpty, AnswerOfDialog, AckSettlesOffer, ByeWaits,
   Answered,
           MustDeferBye, FinalHeld

\* send_cancel, when no 2xx awaits its ACK.
LEMMA SendCancelSettles ==
    ASSUME NEW t \in DialogType, NEW c \in Calls, TransportInv(t), ~Answered(t)
    PROVE  /\ SendCancel(t, c) \in DialogType /\ TransportInv(SendCancel(t, c))
           /\ NothingGained(t, SendCancel(t, c))
           /\ t.outInv => NoNewBye(t, SendCancel(t, c))
<1> DEFINE own == [t EXCEPT !.call = c]
           u == SendCancel(t, c)
<1>1. own \in DialogType /\ own.call = c /\ own.final = t.final /\ own.phase = t.phase
      /\ own.dlg = t.dlg /\ own.pBye = t.pBye
  BY OwnCall
<1>2. TransportInv(own) /\ ~Answered(own)
  BY OwnCall, OwnCallInv
<1>3. c # NoCall
  BY NoCallIsNone
<1>4. CASE ~t.outInv
  <2>1. u = SendBye(own, c)
    BY <1>4, Zenon DEF SendCancel
  <2> HIDE DEF own, u
  <2>2. BaseInv(own) /\ CanBye(own, c)
    BY <1>1, <1>2, <1>3 DEF BaseInv, TransportInv, CanBye
  <2>3. u \in DialogType /\ TransportInv(u) /\ NothingGained(own, u)
    BY <2>1, <2>2, <1>1, SendByeSettles
  <2>4. NothingGained(t, u)
    BY <2>3, <1>1, <1>2 DEF NothingGained, OpenPath
  <2> QED BY <2>3, <2>4, <1>4 DEF u
<1>5. CASE t.outInv
  <2> DEFINE p == Put(own, c, "CANCEL")
             s == [p EXCEPT !.cancelReq = TRUE, !.pCancel = TRUE, !.pInvite = FALSE]
  <2>1. u = s
    BY <1>5, Zenon DEF SendCancel
  <2> HIDE DEF own, u
  <2>2. p \in DialogType /\ SameDialog(own, p) /\ p.phase = own.phase
    BY <1>1, PutKeeps DEF Sent
  <2> HIDE DEF p
  <2>3. s \in DialogType
    BY <2>2, Zenon DEF DialogType
  <2>4. /\ s.call = p.call /\ s.dlg = p.dlg /\ s.delayed = p.delayed /\ s.pBye = p.pBye
        /\ s.termAck = p.termAck /\ s.final = p.final /\ s.phase = p.phase
    BY <2>2, SMT DEF DialogType
  <2> HIDE DEF s
  <2>5. /\ s.call = own.call /\ s.dlg = own.dlg /\ s.delayed = own.delayed /\ s.pBye = own.pBye
        /\ s.termAck = own.termAck /\ s.final = own.final /\ s.phase = own.phase
    BY <2>2, <2>4 DEF SameDialog
  <2>6. TransportInv(s) /\ ~Answered(s)
    BY <2>5, <1>1, <1>2, OwnCallInv
  <2>7. NothingGained(t, s) /\ NoNewBye(t, s)
    BY <2>5, <2>6, <1>1 DEF NothingGained, NoNewBye, OpenPath
  <2> QED BY <2>1, <2>3, <2>6, <2>7 DEF u
<1> QED BY <1>4, <1>5

\* send_final_response, likewise.
LEMMA SendFinalStep ==
    ASSUME NEW t \in DialogType, NEW c \in Calls, TransportInv(t), ~Answered(t)
    PROVE  SipStep(t, SendFinal(t, c))
<1>1. CASE t.outInv
  <2>1. SendFinal(t, c) = SendCancel(t, c)
    BY <1>1, Zenon DEF SendFinal
  <2> QED BY <2>1, <1>1, SendCancelSettles DEF SipStep
<1>2. CASE ~t.outInv
  <2> DEFINE own == [t EXCEPT !.call = c]
             s == SendResponse(own, "REJECT")
  <2>1. SendFinal(t, c) = ResetDialog(s)
    BY <1>2, Zenon DEF SendFinal
  <2>2. own \in DialogType /\ own.call \in Calls /\ own.final = t.final /\ own.phase = t.phase
    BY OwnCall
  <2> HIDE DEF own
  <2>3. /\ s \in DialogType /\ s.phase = own.phase
        /\ \/ s.final = own.final
           \/ s.final = [call |-> own.call, inv |-> own.dlg, status |-> "REJECT", await |-> TRUE]
    BY <2>2, SendResponseKeeps
  <2> HIDE DEF s
  <2>4. NothingGained(t, s)
    BY <2>2, <2>3, SMT DEF NothingGained, Answered, OpenPath
  <2> QED BY <2>1, <2>3, <2>4, ResetDialogStep
<1> QED BY <1>1, <1>2

\* send_ringing, likewise.
LEMMA SendRingingStep ==
    ASSUME NEW t \in DialogType, NEW c \in Calls, TransportInv(t), ~Answered(t)
    PROVE  SipStep(t, SendRinging(t, c))
<1> DEFINE own == [t EXCEPT !.call = c]
           u == SendRinging(t, c)
<1>1. own \in DialogType /\ own.call = c /\ own.final = t.final /\ own.phase = t.phase
      /\ own.dlg = t.dlg /\ own.pBye = t.pBye
  BY OwnCall
<1>2. TransportInv(own) /\ ~Answered(own)
  BY OwnCall, OwnCallInv
<1>3. u = SendResponse(own, "180")
  BY Zenon DEF SendRinging
<1> HIDE DEF own, u
<1>4. u \in DialogType /\ SameIds(own, u) /\ u.phase = own.phase /\ u.final = own.final
  BY <1>1, <1>3, SendResponseKeeps
<1>5. SipStep(own, u)
  BY <1>1, <1>2, <1>4, SameDialogStep DEF SameDialog, SameIds, OpenPath
<1>6. SipStep(t, u)
  BY <1>1, <1>2, <1>5 DEF SipStep, NothingGained, NoNewBye, OpenPath
<1> QED BY <1>6 DEF u

\* send_answer: the 2xx that comes to be awaited is of the call that was answered.
LEMMA SendAnswerSettles ==
    ASSUME NEW t \in DialogType, NEW c \in Calls, TransportInv(t), ~Answered(t),
           ~(t.pBye /\ t.dlg \in InCalls)
    PROVE  /\ SendAnswer(t, c) \in DialogType /\ TransportInv(SendAnswer(t, c))
           /\ SendAnswer(t, c).phase = t.phase
           /\ Answered(SendAnswer(t, c)) => CanAnswer(t) /\ SendAnswer(t, c).final.call = c
           /\ ~(SendAnswer(t, c).pBye /\ SendAnswer(t, c).dlg \in InCalls)
<1> DEFINE own == [t EXCEPT !.call = c, !.outInv = FALSE]
           u == SendAnswer(t, c)
<1>1. own \in DialogType
  BY Zenon DEF DialogType
<1>2. /\ own.call = c /\ own.dlg = t.dlg /\ own.delayed = t.delayed /\ own.pBye = t.pBye
      /\ own.termAck = t.termAck /\ own.final = t.final /\ own.phase = t.phase
  BY SMT DEF DialogType
<1> HIDE DEF own
<1>3. TransportInv(own) /\ ~Answered(own)
  BY <1>2, OwnCallInv
<1>4. CASE ~CanAnswer(t)
  <2>1. u = own
    BY <1>4, Zenon DEF SendAnswer, own
  <2> QED BY <2>1, <1>1, <1>2, <1>3
<1>5. CASE CanAnswer(t)
  <2> DEFINE r == SendResponse(own, "200")
             m == r.media \/ ~t.delayed
             s == [r EXCEPT !.media = m]
  <2>1. u = s
    BY <1>5, Zenon DEF SendAnswer, own
  <2>2. /\ r \in DialogType /\ SameIds(own, r) /\ r.phase = own.phase
        /\ \/ r.final = own.final
           \/ r.final = [call |-> c, inv |-> own.dlg, status |-> "200", await |-> TRUE]
    BY <1>1, <1>2, SendResponseKeeps
  <2> HIDE DEF r, u
  <2>3. m \in BOOLEAN
    OBVIOUS
  <2> HIDE DEF m
  <2>4. s \in DialogType
    BY <2>2, <2>3, Zenon DEF DialogType
  <2>5. SameDialog(r, s) /\ s.phase = r.phase
    BY <2>2, SMT DEF DialogType, SameDialog
  <2> HIDE DEF s
  <2>6. SameIds(own, s) /\ s.final = r.final
    BY <2>2, <2>5, SameSteps
  <2>7. ~(s.pBye /\ s.dlg \in InCalls)
    BY <2>6, <1>2 DEF SameIds
  <2>8. CASE r.final = own.final
    <3>1. SameDialog(own, s)
      BY <2>6, <2>8 DEF SameDialog, SameIds
    <3>2. TransportInv(s) /\ ~Answered(s)
      BY <1>3, <3>1, SameDialogInv
    <3> QED BY <2>1, <2>2, <2>4, <2>5, <2>7, <3>2, <1>2 DEF u
  <2>9. CASE r.final = [call |-> c, inv |-> own.dlg, status |-> "200", await |-> TRUE]
    <3>1. s.final.call = c /\ s.final.inv = s.dlg /\ s.final.status = "200" /\ s.final.await
      BY <2>6, <2>9 DEF SameIds
    <3>2. s.dlg \in InCalls
      BY <1>5, <1>2, <2>6 DEF CanAnswer, CanRespond, SameIds
    <3>3. s.call = c /\ c # NoCall /\ ~s.termAck
      BY <2>6, <1>2, <1>3, NoCallIsNone, NoAnswerNoDeferral DEF SameIds, TransportInv
    <3>4. TransportInv(s)
      BY <3>1, <3>2, <3>3, <2>7, SMT DEF TransportInv, EmptyIsEmpty, AnswerOfDialog,
         AckSettlesOffer, ByeWaits, Answered, MustDeferBye, FinalHeld
    <3> QED BY <2>1, <2>2, <2>4, <2>5, <2>7, <3>1, <3>4, <1>2, <1>5 DEF u
  <2> QED BY <2>2, <2>8, <2>9
<1> QED BY <1>4, <1>5

\* send_invite starts from an empty dialog.
LEMMA SendInviteStep ==
    ASSUME NEW t \in DialogType, NEW c \in OutCalls, CanInvite(t)
    PROVE  SipStep(t, SendInvite(t, c))
<1> DEFINE r == ResetDialog(t)
           p == Put(r, c, "INVITE")
           u == [p EXCEPT !.call = c, !.dlg = c, !.seen = FALSE, !.pInvite = TRUE, !.outInv = TRUE]
<1>1. c \in Calls /\ c \in Calls \cup {NoCall} /\ c # NoCall /\ c \notin InCalls
  BY NoCallIsNone DEF Calls
<1>2. /\ r \in DialogType /\ ~OpenPath(r) /\ r.final = t.final /\ r.pBye = FALSE
      /\ r.termAck = FALSE
  BY ResetDialogClears, FieldTypes
<1>3. SendInvite(t, c) = u
  BY Zenon DEF SendInvite
<1> HIDE DEF r
<1>4. p \in DialogType /\ SameDialog(r, p) /\ p.phase = r.phase
  BY <1>1, <1>2, PutKeeps DEF Sent
<1> HIDE DEF p
<1>5. TRUE \in BOOLEAN /\ FALSE \in BOOLEAN
  OBVIOUS
<1>6. u \in DialogType
  BY <1>1, <1>4, <1>5, ZenonT(40) DEF DialogType
<1>7. /\ u.call = c /\ u.dlg = c /\ u.pBye = p.pBye /\ u.termAck = p.termAck
      /\ u.final = p.final /\ u.phase = p.phase
  BY <1>4, SMT DEF DialogType
<1> HIDE DEF u
<1>8. ~t.final.await
  BY DEF CanInvite, TerminalPending
<1>9. TransportInv(u) /\ ~Answered(u)
  BY <1>1, <1>2, <1>4, <1>7, <1>8, SMT DEF SameDialog, TransportInv, EmptyIsEmpty, AnswerOfDialog,
     AckSettlesOffer, ByeWaits, Answered, MustDeferBye, FinalHeld
<1>10. ~OpenPath(u) /\ ~u.pBye
  BY <1>2, <1>4, <1>7 DEF OpenPath, SameDialog
<1> QED BY <1>3, <1>6, <1>9, <1>10 DEF SipStep, NothingGained, NoNewBye

\* Deferring the BYE of the dialog whose ACK is awaited.
LEMMA TermAckOnly ==
    ASSUME NEW t \in DialogType, TransportInv(t), MustDeferBye(t)
    PROVE  /\ [t EXCEPT !.termAck = TRUE] \in DialogType
           /\ TransportInv([t EXCEPT !.termAck = TRUE])
           /\ NothingGained(t, [t EXCEPT !.termAck = TRUE])
<1> DEFINE s == [t EXCEPT !.termAck = TRUE]
<1>1. s \in DialogType
  BY Zenon DEF DialogType
<1>2. /\ s.call = t.call /\ s.dlg = t.dlg /\ s.delayed = t.delayed /\ s.pInvite = t.pInvite
      /\ s.pBye = t.pBye /\ s.final = t.final /\ s.phase = t.phase
  BY SMT DEF DialogType
<1> HIDE DEF s
<1>3. TransportInv(s)
  BY <1>2, SMT DEF TransportInv, EmptyIsEmpty, AnswerOfDialog, AckSettlesOffer,
         ByeWaits, Answered, MustDeferBye, FinalHeld
<1>4. NothingGained(t, s)
  BY <1>2 DEF NothingGained, Answered, OpenPath
<1> QED BY <1>1, <1>3, <1>4 DEF s

\* terminate_dialog_after_media_commit_failure_
LEMMA CommitFailureSettles ==
    ASSUME NEW t \in DialogType, TransportInv(t)
    PROVE  /\ EndAfterCommitFailure(t) \in DialogType /\ TransportInv(EndAfterCommitFailure(t))
           /\ NothingGained(t, EndAfterCommitFailure(t))
<1>1. CASE EndAfterCommitFailure(t) = t
  BY <1>1 DEF NothingGained
<1>2. CASE EndAfterCommitFailure(t) = [t EXCEPT !.termAck = TRUE] /\ MustDeferBye(t)
  BY <1>2, TermAckOnly, Zenon
<1>3. CASE EndAfterCommitFailure(t) = SendBye(t, t.call) /\ t.call # NoCall
  <2>1. BaseInv(t) /\ CanBye(t, t.call)
    BY <1>3 DEF BaseInv, TransportInv, CanBye
  <2> QED BY <2>1, <1>3, SendByeSettles
<1> QED BY <1>1, <1>2, <1>3, Zenon DEF EndAfterCommitFailure

\* disconnect
LEMMA DisconnectSettles ==
    ASSUME NEW t \in DialogType, TransportInv(t)
    PROVE  SipStep(t, Disconnect(t))
<1>1. NothingGained(t, t)
  BY DEF NothingGained
<1> QED BY <1>1, ResetDialogStep, NoStep, Zenon DEF Disconnect

\* send_bye as a step: the dialog is outgoing, or was answered.
LEMMA SendByeStep ==
    ASSUME NEW t \in DialogType, NEW c, BaseInv(t), CanBye(t, c),
           Answered(t) \/ t.dlg \notin InCalls
    PROVE  SipStep(t, SendBye(t, c))
BY SendByeSettles DEF SipStep, NoNewBye

\* Hearing of the peer is a step.
LEMMA SeenStep ==
    ASSUME NEW t \in DialogType, TransportInv(t)
    PROVE  SipStep(t, [t EXCEPT !.seen = TRUE])
<1> DEFINE u == [t EXCEPT !.seen = TRUE]
<1>1. u \in DialogType /\ SameDialog(t, u) /\ u.phase = t.phase
  BY SeenKeeps
<1> HIDE DEF u
<1>2. SipStep(t, u)
  BY <1>1, SameDialogStep DEF OpenPath
<1> QED BY <1>2 DEF u

\* A refusal may replace the final response while no BYE is deferred.
LEMMA RejectedStep ==
    ASSUME NEW t \in DialogType, NEW u \in DialogType, TransportInv(t), ~t.termAck,
           SameIds(t, u), u.phase = t.phase, u.final = t.final \/ u.final.status = "REJECT"
    PROVE  SipStep(t, u)
<1>1. CASE u.final = t.final
  BY <1>1, SameDialogStep DEF SameDialog, SameIds, OpenPath
<1>2. CASE u.final.status = "REJECT"
  <2>1. TransportInv(u) /\ ~Answered(u)
    BY <1>2, RejectedInv DEF TransportInv
  <2> QED BY <2>1 DEF SipStep, NothingGained, NoNewBye, SameIds, OpenPath
<1> QED BY <1>1, <1>2

\* send_stateless_response_
LEMMA SendStatelessStep ==
    ASSUME NEW t \in DialogType, NEW c \in InCalls, NEW cached, TransportInv(t), ~t.termAck
    PROVE  SipStep(t, SendStateless(t, c, cached))
<1> DEFINE r == RememberFinal(t, c, c, "REJECT")
           f == [call |-> c, inv |-> c, status |-> "REJECT", await |-> TRUE]
           u == [r EXCEPT !.seen = TRUE]
<1>1. r \in DialogType /\ SameIds(t, r) /\ r.phase = t.phase /\ r.final \in {t.final, f}
  BY RememberFinalKeeps DEF Calls
<1>2. f.status = "REJECT"
  OBVIOUS
<1>3. SendStateless(t, c, cached) \in {u, [t EXCEPT !.seen = TRUE]}
  BY Zenon DEF SendStateless
<1> HIDE DEF r, f
<1>4. u \in DialogType /\ SameDialog(r, u) /\ u.phase = r.phase
  BY <1>1, SeenKeeps
<1> HIDE DEF u
<1>5. SameIds(t, u) /\ u.phase = t.phase /\ u.final \in {t.final, f}
  BY <1>1, <1>4, SameSteps
<1>6. SipStep(t, u)
  BY <1>2, <1>4, <1>5, RejectedStep
<1> QED BY <1>3, <1>6, SeenStep

-----------------------------------------------------------------------------
(* The handlers of the SIP task. *)

\* The dialog that handle_invite_ makes, when nothing terminal is pending.
LEMMA FreshDialog ==
    ASSUME NEW t \in DialogType, NEW c \in InCalls, TransportInv(t),
           ~TerminalPending(t), ~FinalHeld(t, c),
           NEW fresh, fresh = [t EXCEPT !.call = c, !.dlg = c, !.delayed = c \in Delayed]
    PROVE  /\ fresh \in DialogType /\ fresh.call \in Calls
           /\ fresh.final = t.final /\ fresh.phase = t.phase
           /\ TransportInv(fresh) /\ ~Answered(fresh) /\ ~fresh.pBye /\ ~fresh.termAck
<1> DEFINE b == c \in Delayed
           u == [t EXCEPT !.call = c, !.dlg = c, !.delayed = b]
<1>1. c \in Calls \cup {NoCall} /\ b \in BOOLEAN /\ c \in Calls /\ c # NoCall
  BY NoCallIsNone DEF Calls
<1>2. fresh = u
  OBVIOUS
<1> HIDE DEF b
<1>3. u \in DialogType
  BY <1>1, Zenon DEF DialogType
<1>4. /\ u.call = c /\ u.dlg = c /\ u.pBye = t.pBye /\ u.termAck = t.termAck /\ u.final = t.final
      /\ u.phase = t.phase
  BY SMT DEF DialogType
<1> HIDE DEF u
<1>5. ~t.final.await /\ ~t.pBye /\ ~t.termAck
  BY DEF TerminalPending
<1>6. TransportInv(u) /\ ~Answered(u)
  BY <1>1, <1>4, <1>5, SMT DEF TransportInv, EmptyIsEmpty, AnswerOfDialog, AckSettlesOffer,
     ByeWaits, Answered, MustDeferBye, FinalHeld
<1> QED BY <1>1, <1>2, <1>3, <1>4, <1>5, <1>6

\* handle_invite_
LEMMA HandleInviteStep ==
    ASSUME NEW t \in DialogType, NEW c \in InCalls, NEW compatible, TransportInv(t)
    PROVE  SipStep(t, HandleInvite(t, c, compatible))
<1> DEFINE u == HandleInvite(t, c, compatible)
           fresh == [t EXCEPT !.call = c, !.dlg = c, !.delayed = c \in Delayed]
           trying == SendResponse(fresh, "100")
           refused == SendResponse(fresh, "REJECT")
           unchanged == FinalHeld(t, c)
           accepted == ~unchanged /\ ~TerminalPending(t)
<1>1. \/ u = t
      \/ u = SendStateless(t, c, FALSE)
      \/ accepted /\ u = SendStateless(t, c, TRUE)
      \/ accepted /\ u = Emit(trying, "INVITE", c)
      \/ accepted /\ u = ResetDialog(refused)
  BY Zenon DEF HandleInvite
<1>2. accepted => /\ fresh \in DialogType /\ fresh.call \in Calls
                  /\ fresh.final = t.final /\ fresh.phase = t.phase
                  /\ TransportInv(fresh) /\ ~Answered(fresh) /\ ~fresh.pBye /\ ~fresh.termAck
  BY FreshDialog
<1> HIDE DEF u, fresh
<1>3. CASE u = t
  BY <1>3, NoStep DEF u
<1>4. CASE u = SendStateless(t, c, FALSE)
  <2>1. u = [t EXCEPT !.seen = TRUE]
    BY <1>4, Zenon DEF SendStateless
  <2>2. SipStep(t, [t EXCEPT !.seen = TRUE])
    BY SeenStep
  <2> QED BY <2>1, <2>2 DEF u
<1>5. CASE accepted /\ u = SendStateless(t, c, TRUE)
  <2>1. ~t.termAck
    BY <1>5 DEF TerminalPending
  <2> QED BY <1>5, <2>1, SendStatelessStep DEF u
<1>6. CASE accepted /\ u = Emit(trying, "INVITE", c)
  <2>1. /\ trying \in DialogType /\ SameIds(fresh, trying) /\ trying.phase = fresh.phase
        /\ trying.final = fresh.final
    BY <1>2, <1>6, SendResponseKeeps
  <2>2. SipStep(fresh, trying)
    BY <1>2, <1>6, <2>1, SameDialogStep DEF SameDialog, SameIds, OpenPath
  <2>3. SipStep(t, trying)
    BY <1>2, <1>6, <2>2 DEF SipStep, NothingGained, NoNewBye, OpenPath
  <2>4. <<"INVITE", c>> \in SignalsOfCalls
    BY DEF SignalsOfCalls
  <2> QED BY <1>6, <2>3, <2>4, EmitStep DEF u
<1>7. CASE accepted /\ u = ResetDialog(refused)
  <2>1. /\ refused \in DialogType /\ refused.phase = fresh.phase
        /\ \/ refused.final = fresh.final
           \/ refused.final =
                [call |-> fresh.call, inv |-> fresh.dlg, status |-> "REJECT", await |-> TRUE]
    BY <1>2, <1>7, SendResponseKeeps
  <2> HIDE DEF refused
  <2>2. NothingGained(t, refused)
    BY <1>2, <1>7, <2>1, SMT DEF NothingGained, Answered, OpenPath
  <2> QED BY <1>7, <2>1, <2>2, ResetDialogStep DEF u
<1> QED BY <1>1, <1>3, <1>4, <1>5, <1>6, <1>7

\* The ACK ends the wait for it and nothing else.
LEMMA AckedKeeps ==
    ASSUME NEW t \in DialogType, NEW c \in InCalls, FinalHeld(t, c)
    PROVE  /\ [t EXCEPT !.final.await = FALSE] \in DialogType
           /\ SameIds(t, [t EXCEPT !.final.await = FALSE])
           /\ [t EXCEPT !.final.await = FALSE].phase = t.phase
           /\ [t EXCEPT !.final.await = FALSE].final.call = t.final.call
           /\ [t EXCEPT !.final.await = FALSE].final.inv = t.final.inv
           /\ [t EXCEPT !.final.await = FALSE].final.status = t.final.status
           /\ [t EXCEPT !.final.await = FALSE].final.await = FALSE
<1> DEFINE f == [t.final EXCEPT !.await = FALSE]
           u == [t EXCEPT !.final = f]
<1>1. t.final \in FinalResponses
  BY FieldTypes, NoCallIsNone, SMT DEF FinalHeld, NoFinal
<1>2. f \in FinalResponses
  BY <1>1, Zenon DEF FinalResponses
<1>6. f.call = t.final.call /\ f.inv = t.final.inv /\ f.status = t.final.status /\ f.await = FALSE
  BY <1>1, SMT DEF FinalResponses
<1>7. f \in FinalResponses \cup {NoFinal}
  BY <1>2
<1>3. [t EXCEPT !.final.await = FALSE] = u
  BY Zenon
<1> HIDE DEF f
<1>4. u \in DialogType
  BY <1>7, Zenon DEF DialogType
<1>5. SameIds(t, u) /\ u.phase = t.phase /\ u.final = f
  BY SMT DEF SameIds, DialogType
<1> HIDE DEF u
<1> QED BY <1>3, <1>4, <1>5, <1>6

\* The ACK with a usable answer opens the dialog for media.
LEMMA OpenedType ==
    ASSUME NEW t \in DialogType
    PROVE  [t EXCEPT !.delayed = FALSE, !.outInv = FALSE, !.media = TRUE] \in DialogType
<1>1. TRUE \in BOOLEAN /\ FALSE \in BOOLEAN
  OBVIOUS
<1> QED BY <1>1, Zenon DEF DialogType

\* The handler of ACK.  That a delayed offer is settled by the first ACK matters here: a
\* repeated one never makes it send a BYE.
LEMMA HandleAckStep ==
    ASSUME NEW t \in DialogType, NEW c \in InCalls, NEW status, NEW acceptable, TransportInv(t)
    PROVE  SipStep(t, HandleAck(t, c, status, acceptable))
<1> DEFINE u == HandleAck(t, c, status, acceptable)
           acked == [t EXCEPT !.final.await = FALSE]
           ended == [acked EXCEPT !.termAck = FALSE]
           open == [acked EXCEPT !.delayed = FALSE, !.outInv = FALSE, !.media = TRUE]
           refused == [acked EXCEPT !.delayed = FALSE]
           held == FinalHeld(t, c) /\ t.final.status = status
           whole == held /\ ~t.termAck /\ InDialog(t, c) /\ ~t.pBye
<1>1. CASE ~held
  <2>1. u = t
    BY <1>1, Zenon DEF HandleAck
  <2> HIDE DEF u
  <2> QED BY <2>1, NoStep DEF u
<1>2. CASE held
  <2> USE <1>2
  <2>1. \/ status = "REJECT" /\ u = EmitFinish(acked)
        \/ /\ t.termAck
           /\ \/ u = SendBye(ended, t.call) /\ CanBye(ended, t.call)
              \/ u = ResetDialog(ended)
        \/ ~t.termAck /\ (~InDialog(t, c) \/ t.pBye) /\ u = acked
        \/ whole /\ (u = open \/ u = Emit(open, "READY", c))
        \/ whole /\ t.delayed /\ status # "REJECT" /\ u = Emit(SendBye(refused, c), "INCOMPAT", c)
    BY Zenon DEF HandleAck
  <2>2. /\ acked \in DialogType /\ SameIds(t, acked) /\ acked.phase = t.phase
        /\ acked.final.call = t.final.call /\ acked.final.inv = t.final.inv
        /\ acked.final.status = t.final.status /\ acked.final.await = FALSE
    BY AckedKeeps
  <2> HIDE DEF u, acked
  <2>3. t.final.call = c /\ t.final.inv = c /\ c \in Calls /\ c # NoCall
    BY NoCallIsNone DEF FinalHeld, Calls
  <2>4. ~Answered(acked) /\ NothingGained(t, acked) /\ NoNewBye(t, acked)
    BY <2>2 DEF Answered, NothingGained, NoNewBye, OpenPath, SameIds
  <2>5. ASSUME ~t.termAck, status = "REJECT" \/ ~InDialog(t, c) \/ t.pBye
       PROVE  SipStep(t, acked)
    <3>1. TransportInv(acked)
      BY <2>2, <2>3, <2>5, SMT DEF SameIds, TransportInv, EmptyIsEmpty, AnswerOfDialog,
         AckSettlesOffer,
         ByeWaits, Answered, MustDeferBye, FinalHeld, InDialog
    <3> QED BY <3>1, <2>2, <2>4 DEF SipStep
  <2>6. status = "REJECT" => ~t.termAck
    BY DEF TransportInv, ByeWaits, MustDeferBye
  <2>7. CASE t.termAck
    <3>1. Answered(t)
      BY <2>7 DEF TransportInv, ByeWaits, MustDeferBye, Answered
    <3>2. ended \in DialogType
      BY <2>2, Zenon DEF DialogType
    <3>3. /\ ended.call = acked.call /\ ended.dlg = acked.dlg /\ ended.delayed = acked.delayed
          /\ ended.pInvite = acked.pInvite /\ ended.termAck = FALSE /\ ended.final = acked.final
          /\ ended.phase = acked.phase
      BY <2>2, SMT DEF DialogType
    <3> HIDE DEF ended
    <3>4. BaseInv(ended)
      BY <2>2, <3>3, SMT DEF SameIds, TransportInv, BaseInv, EmptyIsEmpty, AnswerOfDialog,
         ByeWaits, Answered, MustDeferBye
    <3>5. ~Answered(ended) /\ NothingGained(t, ended)
      BY <2>2, <3>3 DEF Answered, NothingGained, OpenPath
    <3>6. CanBye(ended, t.call) => SipStep(t, SendBye(ended, t.call))
      BY <3>1, <3>2, <3>4, <3>5, SendByeSettles DEF SipStep, NothingGained, NoNewBye
    <3>7. SipStep(t, ResetDialog(ended))
      BY <3>2, <3>5, ResetDialogStep
    <3> QED BY <2>1, <2>6, <2>7, <3>6, <3>7 DEF u
  <2>8. CASE whole /\ (u = open \/ u = Emit(open, "READY", c))
    <3>1. open \in DialogType
      <4>1. acked \in DialogType
        BY <2>2
      <4> QED BY <4>1, OpenedType
    <3>2. /\ open.call = acked.call /\ open.dlg = acked.dlg /\ open.delayed = FALSE
          /\ open.pInvite = acked.pInvite /\ open.termAck = acked.termAck
          /\ open.pBye = acked.pBye /\ open.final = acked.final /\ open.phase = acked.phase
      BY <2>2, SMT DEF DialogType
    <3> HIDE DEF open
    <3>3. TransportInv(open)
      BY <2>2, <2>8, <3>2, SMT DEF SameIds, TransportInv, EmptyIsEmpty, AnswerOfDialog,
         AckSettlesOffer,
         ByeWaits, Answered, MustDeferBye, FinalHeld
    <3>4. SipStep(t, open)
      BY <2>2, <3>1, <3>2, <3>3 DEF SipStep, NothingGained, NoNewBye, Answered, OpenPath, SameIds
    <3>5. <<"READY", c>> \in SignalsOfCalls
      BY DEF SignalsOfCalls
    <3>6. SipStep(t, Emit(open, "READY", c))
      BY <3>4, <3>5, EmitStep
    <3> QED BY <2>8, <3>4, <3>6 DEF u
  <2>9. CASE /\ whole /\ t.delayed /\ status # "REJECT"
             /\ u = Emit(SendBye(refused, c), "INCOMPAT", c)
    <3>1. refused \in DialogType
      BY <2>2, Zenon DEF DialogType
    <3>2. /\ refused.call = acked.call /\ refused.dlg = acked.dlg /\ refused.delayed = FALSE
          /\ refused.pInvite = acked.pInvite /\ refused.termAck = acked.termAck
          /\ refused.pBye = acked.pBye /\ refused.final = acked.final
          /\ refused.phase = acked.phase
      BY <2>2, SMT DEF DialogType
    <3> HIDE DEF refused
    <3>3. BaseInv(refused) /\ ~Answered(refused)
      BY <2>2, <2>9, <3>2, SMT DEF SameIds, TransportInv, BaseInv, EmptyIsEmpty, AnswerOfDialog,
         ByeWaits, Answered, MustDeferBye
    <3>4. CanBye(refused, c)
      BY <2>2, <2>3, <2>9, <3>2 DEF SameIds, CanBye, InDialog
    <3>5. t.final.status = "200"
      BY <2>3, <2>9, FinalOf, NoCallIsNone, FieldTypes DEF FinalResponses, NoFinal
    <3>6. Answered(t)
      BY <2>3, <2>9, <3>5 DEF TransportInv, AckSettlesOffer, FinalHeld, InDialog, Answered
    <3>7. SipStep(t, SendBye(refused, c))
      BY <2>2, <3>1, <3>2, <3>3, <3>4, <3>6, SendByeSettles
         DEF SipStep, NothingGained, NoNewBye, OpenPath
    <3>8. <<"INCOMPAT", c>> \in SignalsOfCalls
      BY <2>3 DEF SignalsOfCalls
    <3>9. SipStep(t, Emit(SendBye(refused, c), "INCOMPAT", c))
      BY <3>7, <3>8, EmitStep
    <3> QED BY <2>9, <3>9 DEF u
  <2> QED BY <2>1, <2>5, <2>6, <2>7, <2>8, <2>9, FinishStep DEF u
<1> QED BY <1>1, <1>2

\* The handler of BYE,
LEMMA HandleByeStep ==
    ASSUME NEW t \in DialogType, NEW c \in Calls, TransportInv(t)
    PROVE  SipStep(t, HandleBye(t, c))
<1> DEFINE u == HandleBye(t, c)
           k == <<"BYE", c>>
           answered == [t EXCEPT !.control = k, !.seen = TRUE]
           told == Emit(answered, "BYE", c)
<1>1. u \in {t, [t EXCEPT !.seen = TRUE], told, ResetDialog(told)}
  BY Zenon DEF HandleBye
<1>2. k \in {"none", "BYE", "CANCEL"} \X (Calls \cup {NoCall}) /\ k \in SignalsOfCalls
  BY DEF SignalsOfCalls
<1> HIDE DEF k
<1>3. answered \in DialogType
  BY <1>2, Zenon DEF DialogType
<1>4. SameDialog(t, answered) /\ answered.phase = t.phase
  BY SMT DEF SameDialog, DialogType
<1> HIDE DEF u, answered
<1>5. SipStep(t, answered)
  BY <1>3, <1>4, SameDialogStep DEF OpenPath
<1>6. SipStep(t, told)
  BY <1>2, <1>5, EmitStep DEF k
<1> HIDE DEF told
<1>7. SipStep(t, ResetDialog(told))
  BY <1>6, ResetDialogStep DEF SipStep
<1>8. SipStep(t, t) /\ SipStep(t, [t EXCEPT !.seen = TRUE])
  BY NoStep, SeenStep
<1>9. SipStep(t, u)
  BY <1>1, <1>6, <1>7, <1>8
<1> QED BY <1>9 DEF u

\* of CANCEL,
LEMMA HandleCancelStep ==
    ASSUME NEW t \in DialogType, NEW c \in InCalls, TransportInv(t)
    PROVE  SipStep(t, HandleCancel(t, c))
<1> DEFINE u == HandleCancel(t, c)
           k == <<"CANCEL", c>>
           answered == [t EXCEPT !.control = k]
           refused == SendResponse(answered, "REJECT")
           told == Emit(refused, "CANCEL", c)
<1>1. u \in {t, [t EXCEPT !.seen = TRUE]} \/ (InDialog(t, c) /\ u = ResetDialog(told))
  BY Zenon DEF HandleCancel
<1>2. k \in {"none", "BYE", "CANCEL"} \X (Calls \cup {NoCall}) /\ k \in SignalsOfCalls
  BY DEF SignalsOfCalls, Calls
<1> HIDE DEF k
<1>3. answered \in DialogType
  BY <1>2, Zenon DEF DialogType
<1>4. SameDialog(t, answered) /\ answered.phase = t.phase
  BY SMT DEF SameDialog, DialogType
<1> HIDE DEF u, answered
<1>5. SipStep(t, t) /\ SipStep(t, [t EXCEPT !.seen = TRUE])
  BY NoStep, SeenStep
<1>6. CASE InDialog(t, c) /\ u = ResetDialog(told)
  <2>1. answered.call \in Calls
    BY <1>4, <1>6 DEF SameDialog, InDialog, Calls
  <2>2. /\ refused \in DialogType /\ refused.phase = answered.phase
        /\ \/ refused.final = answered.final
           \/ refused.final =
                [call |-> answered.call, inv |-> answered.dlg, status |-> "REJECT", await |-> TRUE]
    BY <1>3, <2>1, SendResponseKeeps
  <2> HIDE DEF refused
  <2>3. told \in DialogType /\ SameDialog(refused, told) /\ told.phase = refused.phase
    BY <1>2, <2>2, EmitKeeps DEF k
  <2> HIDE DEF told
  <2>4. NothingGained(t, told)
    BY <1>4, <2>2, <2>3, SMT DEF NothingGained, Answered, OpenPath, SameDialog
  <2> QED BY <1>6, <2>3, <2>4, ResetDialogStep DEF u
<1>7. CASE u \in {t, [t EXCEPT !.seen = TRUE]}
  BY <1>5, <1>7 DEF u
<1> QED BY <1>1, <1>6, <1>7

\* of a provisional response,
LEMMA HandleProvisionalStep ==
    ASSUME NEW t \in DialogType, NEW c \in OutCalls, NEW ringing, TransportInv(t)
    PROVE  SipStep(t, HandleProvisional(t, c, ringing))
<1> DEFINE s == [t EXCEPT !.seen = TRUE]
<1>1. SipStep(t, t) /\ SipStep(t, s)
  BY NoStep, SeenStep
<1>2. <<"RINGING", c>> \in SignalsOfCalls
  BY DEF SignalsOfCalls
<1>3. HandleProvisional(t, c, ringing) \in {t, s, Emit(s, "RINGING", c)}
  BY Zenon DEF HandleProvisional
<1> HIDE DEF s
<1>4. SipStep(t, Emit(s, "RINGING", c))
  BY <1>1, <1>2, EmitStep
<1> QED BY <1>1, <1>3, <1>4

\* (what it notes of a final response keeps the types)
LEMMA DoneKeeps ==
    ASSUME NEW p \in DialogType
    PROVE  /\ [p EXCEPT !.seen = TRUE, !.pInvite = FALSE, !.outInv = FALSE] \in DialogType
           /\ [p EXCEPT !.media = TRUE] \in DialogType
           /\ SameDialog(p, [p EXCEPT !.media = TRUE])
           /\ [p EXCEPT !.media = TRUE].phase = p.phase
<1>1. TRUE \in BOOLEAN /\ FALSE \in BOOLEAN
  OBVIOUS
<1>2. [p EXCEPT !.seen = TRUE, !.pInvite = FALSE, !.outInv = FALSE] \in DialogType
  BY <1>1, Zenon DEF DialogType
<1>3. [p EXCEPT !.media = TRUE] \in DialogType
  BY Zenon DEF DialogType
<1>4. SameDialog(p, [p EXCEPT !.media = TRUE]) /\ [p EXCEPT !.media = TRUE].phase = p.phase
  BY SMT DEF SameDialog, DialogType
<1> QED BY <1>2, <1>3, <1>4

\* of a final response,
LEMMA HandleFinalStep ==
    ASSUME NEW t \in DialogType, NEW c \in OutCalls, NEW status \in PeerFinals, TransportInv(t)
    PROVE  SipStep(t, HandleFinal(t, c, status))
<1> DEFINE u == HandleFinal(t, c, status)
           p == Put(t, c, "ACK")
           done == [p EXCEPT !.seen = TRUE, !.pInvite = FALSE, !.outInv = FALSE]
           media == [done EXCEPT !.media = TRUE]
<1>1. CASE AlreadyAcked(t, c) \/ ~InDialog(t, c)
  <2>1. u = t
    BY <1>1, Zenon DEF HandleFinal
  <2> QED BY <2>1, NoStep
<1>2. CASE ~(AlreadyAcked(t, c) \/ ~InDialog(t, c))
  <2>1. status \in {"200", "200bad", "4xx", "488"}
    BY DEF PeerFinals
  <2>2. u \in {ResetDialog(Emit(done, "FINAL", c)), ResetDialog(Emit(done, "INCOMPAT", c)),
               SendBye(done, c), Emit(SendBye(done, c), "INCOMPAT", c), Emit(media, "OK", c)}
    <3>1. CASE status = "4xx"
      BY <1>2, <3>1, Zenon DEF HandleFinal
    <3>2. CASE status = "488"
      <4>1. status # "4xx"
        BY <3>2
      <4> QED BY <1>2, <3>2, <4>1 DEF HandleFinal
    <3>3. CASE status \in {"200", "200bad"}
      <4>1. status # "4xx" /\ status # "488"
        BY <3>3
      <4> QED BY <1>2, <3>3, <4>1, Zenon DEF HandleFinal
    <3> QED BY <2>1, <3>1, <3>2, <3>3
  <2>3. c \in Calls /\ c \notin InCalls /\ c # NoCall
    BY NoCallIsNone DEF Calls
  <2>4. p \in DialogType /\ SameDialog(t, p) /\ p.phase = t.phase
    BY <2>3, PutKeeps DEF Sent
  <2> HIDE DEF u, p
  <2>5. done \in DialogType
    BY <2>4, DoneKeeps
  <2>6. /\ done.call = p.call /\ done.dlg = p.dlg /\ done.delayed = p.delayed
        /\ done.pInvite = FALSE
        /\ done.pBye = p.pBye /\ done.termAck = p.termAck /\ done.final = p.final
        /\ done.phase = p.phase
    BY <2>4, SMT DEF DialogType
  <2> HIDE DEF done
  <2>7. TransportInv(done)
    BY <2>4, <2>6, SMT DEF SameDialog, TransportInv, EmptyIsEmpty, AnswerOfDialog, AckSettlesOffer,
       ByeWaits, Answered, MustDeferBye, FinalHeld
  <2>8. SipStep(t, done)
    BY <2>4, <2>5, <2>6, <2>7
       DEF SipStep, NothingGained, NoNewBye, Answered, OpenPath, SameDialog
  <2>9. <<"FINAL", c>> \in SignalsOfCalls /\ <<"INCOMPAT", c>> \in SignalsOfCalls
        /\ <<"OK", c>> \in SignalsOfCalls
    BY <2>3 DEF SignalsOfCalls
  <2>10. SipStep(t, ResetDialog(Emit(done, "FINAL", c)))
    <3>1. SipStep(t, Emit(done, "FINAL", c))
      BY <2>8, <2>9, EmitStep
    <3> QED BY <3>1, ResetDialogStep DEF SipStep
  <2>11. SipStep(t, ResetDialog(Emit(done, "INCOMPAT", c)))
    <3>1. SipStep(t, Emit(done, "INCOMPAT", c))
      BY <2>8, <2>9, EmitStep
    <3> QED BY <3>1, ResetDialogStep DEF SipStep
  <2>12. SipStep(t, SendBye(done, c))
    <3>1. done.dlg = c /\ CanBye(done, c)
      BY <1>2, <2>3, <2>4, <2>6 DEF CanBye, InDialog, SameDialog
    <3>2. BaseInv(done)
      BY <2>7 DEF BaseInv, TransportInv
    <3>3. SipStep(done, SendBye(done, c))
      BY <2>3, <2>5, <3>1, <3>2, SendByeStep
    <3> QED BY <2>8, <3>3, StepsCompose
  <2>13. SipStep(t, Emit(SendBye(done, c), "INCOMPAT", c))
    BY <2>9, <2>12, EmitStep
  <2>14. SipStep(t, Emit(media, "OK", c))
    <3>1. media \in DialogType /\ SameDialog(done, media) /\ media.phase = done.phase
      BY <2>5, DoneKeeps
    <3> HIDE DEF media
    <3>2. SipStep(done, media)
      BY <2>5, <2>7, <3>1, SameDialogStep DEF OpenPath
    <3> QED BY <2>8, <2>9, <3>2, StepsCompose, EmitStep
  <2>15. SipStep(t, u)
    BY <2>2, <2>10, <2>11, <2>12, <2>13, <2>14
  <2> QED BY <2>15 DEF u
<1> QED BY <1>1, <1>2

\* reset_dialog_ is a step.
LEMMA ResetStep ==
    ASSUME NEW t \in DialogType
    PROVE  SipStep(t, ResetDialog(t))
<1>1. NothingGained(t, t)
  BY DEF NothingGained
<1> QED BY <1>1, ResetDialogStep

\* and of the answer to BYE.
LEMMA HandleByeResponseStep ==
    ASSUME NEW t \in DialogType, NEW c, TransportInv(t)
    PROVE  SipStep(t, HandleByeResponse(t, c))
<1>1. SipStep(t, t) /\ SipStep(t, EmitFinish(ResetDialog(t)))
  BY NoStep, ResetStep, FinishStep
<1> QED BY <1>1, Zenon DEF HandleByeResponse

\* The deadline of the INVITE: there is a call to report, because an INVITE without
\* Call-ID is never pending.
LEMMA InviteDeadlineStep ==
    ASSUME NEW t \in DialogType, TransportInv(t), t.pInvite
    PROVE  SipStep(t, InviteDeadline(t))
<1>1. t.call \in Calls
  BY FieldTypes DEF TransportInv, EmptyIsEmpty
<1>2. <<"FINAL", t.call>> \in SignalsOfCalls
  BY <1>1 DEF SignalsOfCalls
<1> QED BY <1>2, ResetStep, EmitStep DEF InviteDeadline

\* The deadline of the final response.  A deferred BYE is sent with it, so none is left
\* that waits for an ACK nobody remembers.
LEMMA FinalDeadlineStep ==
    ASSUME NEW t \in DialogType, TransportInv(t), t.final # NoFinal
    PROVE  SipStep(t, FinalDeadline(t))
<1> DEFINE g == t.gone \cup {t.final.call}
           forgotten == [t EXCEPT !.final = NoFinal, !.gone = g]
           freed == [forgotten EXCEPT !.termAck = FALSE]
           u == FinalDeadline(t)
<1>1. \/ t.call # NoCall /\ Answered(t) /\ u = Emit(SendBye(freed, t.call), "FINAL", t.call)
      \/ ~MustDeferBye(t) /\ u = forgotten
  <2>1. CASE MustDeferBye(t)
    BY <2>1, Zenon DEF FinalDeadline, MustDeferBye, Answered
  <2>2. CASE ~MustDeferBye(t)
    BY <2>2, Zenon DEF FinalDeadline, MustDeferBye
  <2> QED BY <2>1, <2>2
<1>2. g \in SUBSET Calls /\ NoFinal \in FinalResponses \cup {NoFinal}
  BY FieldTypes, FinalOf
<1> HIDE DEF g, u
<1>3. forgotten \in DialogType
  BY <1>2, Zenon DEF DialogType
<1>4. SameIds(t, forgotten) /\ forgotten.final = NoFinal /\ forgotten.phase = t.phase
  BY SMT DEF SameIds, DialogType
<1> HIDE DEF forgotten
<1>5. NoFinal.status = "none" /\ NoFinal.await = FALSE
  BY DEF NoFinal
<1>6. ~Answered(forgotten)
  BY <1>4, <1>5 DEF Answered
<1>7. CASE ~MustDeferBye(t) /\ u = forgotten
  <2>1. TransportInv(forgotten)
    BY <1>4, <1>5, <1>7, SMT DEF SameIds, TransportInv, EmptyIsEmpty, AnswerOfDialog,
       AckSettlesOffer,
       ByeWaits, Answered, FinalHeld
  <2>2. SipStep(t, forgotten)
    BY <1>3, <1>4, <1>6, <2>1 DEF SipStep, NothingGained, NoNewBye, SameIds, OpenPath
  <2> QED BY <1>7, <2>2 DEF u
<1>8. CASE /\ t.call # NoCall /\ Answered(t)
           /\ u = Emit(SendBye(freed, t.call), "FINAL", t.call)
  <2>1. freed \in DialogType
    BY <1>3, Zenon DEF DialogType
  <2>2. /\ freed.call = forgotten.call /\ freed.dlg = forgotten.dlg
        /\ freed.delayed = forgotten.delayed /\ freed.pInvite = forgotten.pInvite
        /\ freed.termAck = FALSE /\ freed.final = forgotten.final /\ freed.phase = forgotten.phase
    BY <1>3, SMT DEF DialogType
  <2> HIDE DEF freed
  <2>3. BaseInv(freed) /\ ~Answered(freed)
    BY <1>4, <1>5, <2>2, SMT DEF SameIds, TransportInv, BaseInv, EmptyIsEmpty, AnswerOfDialog,
       ByeWaits, Answered
  <2>4. CanBye(freed, t.call)
    BY <1>4, <1>8, <2>2 DEF CanBye, SameIds
  <2>5. SipStep(t, SendBye(freed, t.call))
    BY <1>4, <1>8, <2>1, <2>2, <2>3, <2>4, SendByeSettles
       DEF SipStep, NothingGained, NoNewBye, OpenPath
  <2>6. <<"FINAL", t.call>> \in SignalsOfCalls
    BY <1>8, FieldTypes DEF SignalsOfCalls
  <2> QED BY <1>8, <2>5, <2>6, EmitStep DEF u
<1> QED BY <1>1, <1>7, <1>8

\* The report of the RTP worker.
LEMMA QuiescedStep ==
    ASSUME NEW t \in DialogType, TransportInv(t)
    PROVE  SipStep(t, EmitFinish([t EXCEPT !.phase = "IDLE"]))
<1> DEFINE s == [t EXCEPT !.phase = "IDLE"]
<1>1. s \in DialogType
  BY Zenon DEF DialogType
<1>2. SameDialog(t, s) /\ s.phase = "IDLE"
  BY SMT DEF SameDialog, DialogType
<1> HIDE DEF s
<1>3. SipStep(t, s)
  BY <1>1, <1>2, SameDialogStep DEF OpenPath
<1>4. SipStep(t, EmitFinish(s))
  BY <1>3, FinishStep
<1> QED BY <1>4 DEF s

-----------------------------------------------------------------------------
(* The call state machine. *)

\* The conjuncts of the invariant that relate the handler to the transport, of any state.
HandlerOk(t, f, s) ==
    /\ OpenPath(t) => f.state \in {"CONNECTING", "IN_CALL"} \/ s \in {"mediaOff", "mediaOffPending"}
    /\ f.state = "RINGING" => f.cur \in InCalls
    /\ s = "answer" => f.cur \in InCalls
    /\ s \in {"answer", "commit"} => f.state = "CONNECTING"
    /\ s = "invite" => f.cur \in OutCalls
    /\ Answered(t) =>
          /\ f.state # "IDLE" /\ s # "answer"
          /\ f.cur # NoCall => /\ f.cur = t.final.call /\ f.accepted
                              /\ f.state \in {"CONNECTING", "IN_CALL"}
    /\ f.state \in {"IDLE", "RINGING"} \/ s = "answer" => ~(t.pBye /\ t.dlg \in InCalls)

\* The invariant of any state.
Good(t, f, s) ==
    /\ t \in DialogType /\ TransportInv(t)
    /\ f \in FsmType /\ s \in Steps
    /\ HandlerOk(t, f, s)

\* It is AnswerInv, before a step and after it.
LEMMA AnswerInvIsGood ==
    /\ AnswerInv <=> Good(sip, fsm, step) /\ said \in [Calls -> SUBSET PeerSays]
    /\ AnswerInv' <=> Good(sip', fsm', step') /\ said' \in [Calls -> SUBSET PeerSays]
<1>1. AnswerInv <=> Good(sip, fsm, step) /\ said \in [Calls -> SUBSET PeerSays]
  BY Zenon DEF AnswerInv, TypeOK, Good, HandlerOk, MediaOwned, HandlerHasCall, AnswerHasCall,
     NoByeBeforeAnswer
<1>2. AnswerInv' <=> Good(sip', fsm', step') /\ said' \in [Calls -> SUBSET PeerSays]
  BY Zenon DEF AnswerInv, TypeOK, Good, HandlerOk, MediaOwned, HandlerHasCall, AnswerHasCall,
     NoByeBeforeAnswer,
    TransportInv, EmptyIsEmpty, AnswerOfDialog, AckSettlesOffer, ByeWaits, Answered, OpenPath,
    MustDeferBye, FinalHeld,
    FsmType, DialogType
<1> QED BY <1>1, <1>2

\* The SIP task keeps the invariant at any point of any handler.
LEMMA GoodStep ==
    ASSUME NEW t, NEW u, NEW f, NEW s, Good(t, f, s), SipStep(t, u)
    PROVE  Good(u, f, s)
BY NoCallIsNone DEF Good, SipStep, HandlerOk, NothingGained, NoNewBye

\* The fields of the machine have their types.
LEMMA FsmFields ==
    ASSUME NEW f \in FsmType
    PROVE  /\ f.state \in States /\ f.cur \in Calls \cup {NoCall}
           /\ f.terminal \in Calls \cup {NoCall} /\ f.dialed \subseteq OutCalls
           /\ f.accepted \in BOOLEAN /\ f.setup \in BOOLEAN
BY SMT DEF FsmType

\* Setting its state changes nothing else.
LEMMA StateTo ==
    ASSUME NEW f \in FsmType, NEW s \in States
    PROVE  /\ [f EXCEPT !.state = s] \in FsmType
           /\ [f EXCEPT !.state = s].state = s
           /\ [f EXCEPT !.state = s].cur = f.cur
           /\ [f EXCEPT !.state = s].accepted = f.accepted
<1>1. [f EXCEPT !.state = s] \in FsmType
  BY Zenon DEF FsmType
<1> QED BY <1>1, SMT DEF FsmType

\* end_call_ leaves no call.
LEMMA EndCallKeeps ==
    ASSUME NEW f \in FsmType, NEW x \in Calls \cup {NoCall}, NEW incompatible
    PROVE  /\ EndCall([f EXCEPT !.terminal = x], incompatible) \in FsmType
           /\ EndCall([f EXCEPT !.terminal = x], incompatible).cur = NoCall
           /\ EndCall([f EXCEPT !.terminal = x], incompatible).state \in {"CALLING", "TERMINATING"}
<1> DEFINE g == [f EXCEPT !.terminal = x]
           a == [g EXCEPT !.cur = NoCall, !.state = "CALLING"]
           i == [g EXCEPT !.cur = NoCall, !.setup = FALSE, !.mediaAnswer = FALSE,
                          !.accepted = FALSE]
           b == [i EXCEPT !.state = "TERMINATING", !.fallback = FALSE]
<1>1. NoCall \in Calls \cup {NoCall} /\ FALSE \in BOOLEAN /\ "CALLING" \in States
      /\ "TERMINATING" \in States
  BY DEF States
<1>2. g \in FsmType
  BY Zenon DEF FsmType
<1>3. EndCall(g, incompatible) \in {a, b}
  BY Zenon DEF EndCall, ClearIdentity
<1> HIDE DEF g
<1>4. a \in FsmType /\ i \in FsmType
  BY <1>1, <1>2, Zenon DEF FsmType
<1>5. a.cur = NoCall /\ a.state = "CALLING" /\ i.cur = NoCall
  BY <1>2, SMT DEF FsmType
<1> HIDE DEF i
<1>6. b \in FsmType
  BY <1>1, <1>4, Zenon DEF FsmType
<1>7. b.cur = NoCall /\ b.state = "TERMINATING"
  BY <1>4, <1>5, SMT DEF FsmType
<1> HIDE DEF a, b
<1>8. ASSUME NEW e \in {a, b}
      PROVE  e \in FsmType /\ e.cur = NoCall /\ e.state \in {"CALLING", "TERMINATING"}
  BY <1>4, <1>5, <1>6, <1>7
<1> QED BY <1>3, <1>8 DEF g

\* Where request_call_termination_ may be called: with a 2xx waiting for its ACK, only for
\* the call that was answered and only to send BYE.
Endable(t, f, action) ==
    /\ t \in DialogType /\ TransportInv(t) /\ f \in FsmType
    /\ Answered(t) =>
          /\ f.state # "IDLE"
          /\ f.cur # NoCall => /\ action \in {"NONE", "BYE", "AUTO"} /\ f.accepted
                              /\ f.state \in {"CONNECTING", "IN_CALL"}
    /\ f.state \in {"IDLE", "TERMINATING"} => ~OpenPath(t)
    /\ f.state = "IDLE" => ~(t.pBye /\ t.dlg \in InCalls)

\* What it signals keeps the invariant of the transport.
LEMMA SignalEndSettles ==
    ASSUME NEW t, NEW f, NEW action \in {"NONE", "BYE", "AUTO", "FINAL"}, Endable(t, f, action),
           NEW chosen, chosen = IF f.cur = NoCall THEN "NONE" ELSE Resolve(f, action)
    PROVE  SignalEnd(t, f.cur, chosen) \in DialogType /\ TransportInv(SignalEnd(t, f.cur, chosen))
<1> USE DEF Endable
<1>1. CASE chosen = "NONE"
  <2>1. SignalEnd(t, f.cur, chosen) = t
    BY <1>1 DEF SignalEnd
  <2> QED BY <2>1
<1>2. CASE chosen = "BYE"
  <2>1. SignalEnd(t, f.cur, chosen) = SendBye(t, f.cur)
    BY <1>2 DEF SignalEnd
  <2>2. CASE CanBye(t, f.cur)
    <3>1. BaseInv(t)
      BY DEF BaseInv, TransportInv
    <3> QED BY <2>1, <2>2, <3>1, SendByeSettles
  <2>3. CASE ~CanBye(t, f.cur)
    <3>1. SendBye(t, f.cur) = t
      BY <2>3, Zenon DEF SendBye
    <3> QED BY <2>1, <3>1
  <2> QED BY <2>2, <2>3
<1>3. CASE chosen \notin {"NONE", "BYE"}
  <2>1. f.cur \in Calls
    BY <1>3, FsmFields
  <2>2. f.cur # NoCall /\ chosen = Resolve(f, action)
    BY <1>3
  <2>3. ~Answered(t)
    BY <1>3, <2>2 DEF Resolve
  <2>4. chosen \in {"CANCEL", "FINAL"}
    BY <1>3, <2>2, FsmFields DEF Resolve, States
  <2>5. SignalEnd(t, f.cur, chosen) \in {SendCancel(t, f.cur), SendFinal(t, f.cur)}
    BY <2>4 DEF SignalEnd
  <2> QED BY <2>1, <2>3, <2>5, SendCancelSettles, SendFinalStep DEF SipStep
<1> QED BY <1>1, <1>2, <1>3

\* request_call_termination_
LEMMA TerminateGood ==
    ASSUME NEW t, NEW f, NEW action \in {"NONE", "BYE", "AUTO", "FINAL"}, NEW cache,
           NEW incompatible, Endable(t, f, action), Terminate(f, t, action, cache, incompatible)
    PROVE  Good(sip', fsm', step')
<1> USE DEF Endable
<1> DEFINE chosen == IF f.cur = NoCall THEN "NONE" ELSE Resolve(f, action)
           x == IF cache /\ f.cur # NoCall THEN f.cur ELSE f.terminal
           e == EndCall([f EXCEPT !.terminal = x], incompatible)
           s == SignalEnd(t, f.cur, chosen)
<1>1. CASE f.state = "TERMINATING"
  <2>1. fsm' = (IF Finished(t) THEN FinishState(f) ELSE f) /\ sip' = t /\ step' = "loop"
    BY <1>1, Zenon DEF Terminate
  <2>2. FinishState(f) = [f EXCEPT !.state = "IDLE"]
    BY <1>1, Zenon DEF FinishState
  <2>3. /\ FinishState(f) \in FsmType /\ FinishState(f).state = "IDLE"
    <3>1. "IDLE" \in States
      BY DEF States
    <3> QED BY <2>2, <3>1, StateTo
  <2>4. CASE Finished(t)
    <3>1. ~Answered(t) /\ ~t.pBye
      BY <2>4 DEF Finished, TerminalPending, Answered
    <3> QED BY <2>1, <2>3, <2>4, <3>1, <1>1 DEF Good, HandlerOk, Steps
  <2>5. CASE ~Finished(t)
    BY <2>1, <2>5, <1>1 DEF Good, HandlerOk, Steps
  <2> QED BY <2>4, <2>5
<1>2. CASE f.state = "IDLE" /\ ~(f.setup /\ f.cur # NoCall)
  <2>1. fsm' = f /\ sip' = t /\ step' = "loop"
    BY <1>2 DEF Terminate
  <2> QED BY <2>1, <1>2 DEF Good, HandlerOk, Steps
<1>3. CASE f.state # "TERMINATING" /\ ~(f.state = "IDLE" /\ ~(f.setup /\ f.cur # NoCall))
  <2>1. /\ fsm' = e /\ sip' = EmitFinish(s)
        /\ step' \in {"mediaOff", "mediaOffPending"}
    BY <1>3, Zenon DEF Terminate
  <2>2. x \in Calls \cup {NoCall}
    BY FsmFields
  <2>3. s \in DialogType /\ TransportInv(s)
    BY SignalEndSettles
  <2> HIDE DEF x, s
  <2>4. e \in FsmType /\ e.cur = NoCall /\ e.state \in {"CALLING", "TERMINATING"}
    BY <2>2, EndCallKeeps
  <2> HIDE DEF e
  <2>5. EmitFinish(s) \in DialogType /\ TransportInv(EmitFinish(s))
    BY <2>3, NoStep, FinishStep DEF SipStep
  <2> QED BY <2>1, <2>4, <2>5 DEF Good, HandlerOk, Steps
<1> QED BY <1>1, <1>2, <1>3

\* Between handlers, and in most of their steps, that is so.
LEMMA GoodIsEndable ==
    ASSUME NEW t, NEW f, NEW s, Good(t, f, s), s \notin {"mediaOff", "mediaOffPending"},
           NEW action \in {"NONE", "BYE", "AUTO"}
    PROVE  Endable(t, f, action)
BY DEF Good, HandlerOk, Endable

\* Taking a signal from the queue.
LEMMA TakenGood ==
    ASSUME Good(sip, fsm, step), NEW kind, TakeSignal(kind)
    PROVE  /\ Good(Taken, fsm, step) /\ step = "loop"
           /\ kind \in {"INVITE", "READY", "CANCEL"} => Signalled \in InCalls
           /\ kind \in {"OK", "RINGING"} => Signalled \in OutCalls
           /\ kind \in {"BYE", "FINAL", "INCOMPAT"} => Signalled \in Calls
<1> DEFINE q == Tail(sip.queue)
           h == Head(sip.queue)
<1>1. sip \in DialogType /\ TransportInv(sip)
  BY DEF Good
<1>2. sip.queue \in Seq(SignalsOfCalls) /\ sip.queue # <<>>
  BY <1>1, FieldTypes DEF TakeSignal
<1>3. q \in Seq(SignalsOfCalls) /\ h \in SignalsOfCalls
  BY <1>2, SMT
<1>4. Taken = [sip EXCEPT !.queue = q]
  BY Zenon DEF Taken
<1> HIDE DEF q
<1>5. Taken \in DialogType
  BY <1>1, <1>3, <1>4, Zenon DEF DialogType
<1>6. SameDialog(sip, Taken) /\ Taken.phase = sip.phase
  BY <1>1, <1>4, SMT DEF SameDialog, DialogType
<1>7. SipStep(sip, Taken)
  BY <1>1, <1>5, <1>6, SameDialogStep DEF OpenPath
<1>8. h[1] = kind /\ Signalled = h[2] /\ step = "loop"
  BY DEF TakeSignal, Signalled
<1> HIDE DEF h
<1>9. /\ h[1] \in {"INVITE", "READY", "CANCEL"} => h[2] \in InCalls
      /\ h[1] \in {"OK", "RINGING"} => h[2] \in OutCalls
      /\ h[1] \in {"BYE", "FINAL", "INCOMPAT"} => h[2] \in Calls
  BY <1>3, SMT DEF SignalsOfCalls
<1> QED BY <1>7, <1>8, <1>9, GoodStep

\* The machine with a new incoming call.
IncomingOf(f, c) == [f EXCEPT !.cur = c, !.setup = TRUE, !.accepted = FALSE,
                              !.terminal = NoCall, !.mediaAnswer = c \in Delayed]

\* It has that call.
LEMMA RingingCall ==
    ASSUME NEW f \in FsmType, NEW c \in InCalls
    PROVE  /\ IncomingOf(f, c) \in FsmType
           /\ IncomingOf(f, c).cur = c
           /\ IncomingOf(f, c).state = f.state
<1> DEFINE b == c \in Delayed
           h == [f EXCEPT !.cur = c, !.setup = TRUE, !.accepted = FALSE,
                               !.terminal = NoCall, !.mediaAnswer = b]
<1>1. c \in Calls \cup {NoCall} /\ NoCall \in Calls \cup {NoCall} /\ b \in BOOLEAN
      /\ TRUE \in BOOLEAN /\ FALSE \in BOOLEAN
  BY DEF Calls
<1> HIDE DEF b
<1>2. h \in FsmType
  BY <1>1, Zenon DEF FsmType
<1>3. h.cur = c /\ h.state = f.state
  BY SMT DEF FsmType
<1> HIDE DEF h
<1>4. IncomingOf(f, c) = h
  BY Zenon DEF IncomingOf, h, b
<1> QED BY <1>2, <1>3, <1>4

\* complete_incoming_answer_, for a call that was not answered yet or whose delayed
\* offer the ACK has settled.
LEMMA CompleteAnswerGood ==
    ASSUME NEW t \in DialogType, TransportInv(t), NEW f \in FsmType, NEW send \in BOOLEAN,
           send => /\ f.cur \in InCalls /\ ~Answered(t)
                   /\ ~(t.pBye /\ t.dlg \in InCalls),
           ~send => /\ f.state = "CONNECTING"
                    /\ Answered(t) /\ f.cur # NoCall => f.cur = t.final.call /\ f.accepted,
           f.state \in {"IDLE", "TERMINATING"} => ~OpenPath(t),
           CompleteAnswer(f, t, send)
    PROVE  Good(sip', fsm', step')
<1> DEFINE waiting == send /\ f.mediaAnswer
           g == [f EXCEPT !.setup = FALSE, !.state = "CONNECTING"]
<1>1. CASE /\ fsm' = g
           /\ sip' = IF waiting THEN t ELSE PrepareMedia(t)
           /\ step' = IF send THEN "answer" ELSE "commit"
  <2>1. g \in FsmType /\ g.state = "CONNECTING" /\ g.cur = f.cur /\ g.accepted = f.accepted
    <3>1. "CONNECTING" \in States /\ FALSE \in BOOLEAN
      BY DEF States
    <3>2. g \in FsmType
      BY <3>1, Zenon DEF FsmType
    <3> QED BY <3>2, SMT DEF FsmType
  <2> HIDE DEF g
  <2>2. sip' \in DialogType /\ SameDialog(t, sip')
    BY <1>1, PrepareMediaKeeps, SameSteps
  <2>3. TransportInv(sip') /\ Answered(sip') = Answered(t)
    BY <2>2, SameDialogInv
  <2>4. sip'.pBye = t.pBye /\ sip'.dlg = t.dlg /\ sip'.final = t.final
    BY <2>2 DEF SameDialog
  <2>5. step' \in {"answer", "commit"} /\ (step' = "answer" <=> send)
    BY <1>1
  <2>6. HandlerOk(sip', fsm', step')
    BY <1>1, <2>1, <2>3, <2>4, <2>5 DEF HandlerOk
  <2> QED BY <1>1, <2>1, <2>2, <2>3, <2>5, <2>6 DEF Good, Steps
<1>2. CASE Terminate(f, t, IF send THEN "FINAL" ELSE "BYE", send, FALSE)
  <2>1. CASE send
    <3>1. Endable(t, f, "FINAL")
      BY <2>1 DEF Endable
    <3>2. Terminate(f, t, "FINAL", send, FALSE)
      BY <1>2, <2>1
    <3> QED BY <3>1, <3>2, TerminateGood
  <2>2. CASE ~send
    <3>1. Endable(t, f, "BYE")
      BY <2>2 DEF Endable
    <3>2. Terminate(f, t, "BYE", send, FALSE)
      BY <1>2, <2>2
    <3> QED BY <3>1, <3>2, TerminateGood
  <2> QED BY <2>1, <2>2
<1> QED BY <1>1, <1>2, Zenon DEF CompleteAnswer

\* A new incoming call,
LEMMA TakeInviteGood ==
    ASSUME Good(sip, fsm, step), TakeInvite
    PROVE  Good(sip', fsm', step')
<1> DEFINE t == Taken
           c == Signalled
           ringing == IncomingOf(fsm, c)
           rung == [ringing EXCEPT !.setup = FALSE, !.state = "RINGING"]
           marked == [fsm EXCEPT !.terminal = c]
<1>1. Good(t, fsm, step) /\ step = "loop" /\ c \in InCalls /\ OnInvite(t, c)
  BY TakenGood DEF TakeInvite
<1> HIDE DEF t, c
<1>2. t \in DialogType /\ TransportInv(t) /\ fsm \in FsmType /\ c \in Calls
  BY <1>1 DEF Good, Calls
<1>3. CASE fsm.state # "IDLE"
  BY <1>1, <1>3 DEF OnInvite, Nothing
<1>4. CASE fsm.state = "IDLE"
  <2>1. ~Answered(t) /\ ~(t.pBye /\ t.dlg \in InCalls) /\ ~OpenPath(t)
    BY <1>1, <1>4 DEF Good, HandlerOk
  <2>2. ringing \in FsmType /\ ringing.cur = c /\ ringing.state = "IDLE"
    BY <1>1, <1>2, <1>4, RingingCall
  <2>3. SipStep(t, SendFinal(t, c)) /\ SipStep(t, SendRinging(t, c))
    BY <1>2, <2>1, SendFinalStep, SendRingingStep
  <2>4. \/ sip' = SendFinal(t, c) /\ fsm' = fsm /\ step' = step
        \/ sip' = SendFinal(t, c) /\ fsm' = marked /\ step' = "disconnect"
        \/ CompleteAnswer(ringing, t, TRUE)
        \/ sip' = SendRinging(t, c) /\ fsm' = rung /\ step' = step
        \/ Terminate(ringing, SendRinging(t, c), "FINAL", TRUE, FALSE)
    BY <1>1, <1>4, Zenon DEF OnInvite, IncomingOf
  <2> HIDE DEF ringing
  <2>5. CASE sip' = SendFinal(t, c) /\ fsm' = fsm /\ step' = step
    BY <2>3, <2>5, <1>1, GoodStep
  <2>6. CASE sip' = SendFinal(t, c) /\ fsm' = marked /\ step' = "disconnect"
    <3>1. marked \in FsmType
      BY <1>2, Zenon DEF FsmType
    <3>2. marked.state = "IDLE" /\ marked.cur = fsm.cur
      BY <1>2, <1>4, SMT DEF FsmType
    <3> HIDE DEF marked
    <3>3. ~Answered(sip') /\ ~(sip'.pBye /\ sip'.dlg \in InCalls) /\ ~OpenPath(sip')
      BY <2>1, <2>3, <2>6 DEF SipStep, NothingGained, NoNewBye
    <3> QED BY <2>3, <2>6, <3>1, <3>2, <3>3 DEF Good, HandlerOk, SipStep, Steps
  <2>7. CASE CompleteAnswer(ringing, t, TRUE)
    BY <1>1, <1>2, <2>1, <2>2, <2>7, CompleteAnswerGood
  <2>8. CASE sip' = SendRinging(t, c) /\ fsm' = rung /\ step' = step
    <3>1. rung \in FsmType /\ rung.state = "RINGING" /\ rung.cur = c
      <4>1. "RINGING" \in States /\ FALSE \in BOOLEAN
        BY DEF States
      <4>2. rung \in FsmType
        BY <2>2, <4>1, Zenon DEF FsmType
      <4> QED BY <2>2, <4>2, SMT DEF FsmType
    <3> HIDE DEF rung
    <3>2. ~Answered(sip') /\ ~(sip'.pBye /\ sip'.dlg \in InCalls) /\ ~OpenPath(sip')
      BY <2>1, <2>3, <2>8 DEF SipStep, NothingGained, NoNewBye
    <3> QED BY <1>1, <2>3, <2>8, <3>1, <3>2 DEF Good, HandlerOk, SipStep, Steps
  <2>9. CASE Terminate(ringing, SendRinging(t, c), "FINAL", TRUE, FALSE)
    <3>1. Endable(SendRinging(t, c), ringing, "FINAL")
      BY <2>1, <2>2, <2>3 DEF Endable, SipStep, NothingGained, NoNewBye
    <3> QED BY <2>9, <3>1, TerminateGood
  <2> QED BY <2>4, <2>5, <2>6, <2>7, <2>8, <2>9
<1> QED BY <1>3, <1>4

\* the ACK that brings the SDP answer,
LEMMA TakeReadyGood ==
    ASSUME Good(sip, fsm, step), TakeReady
    PROVE  Good(sip', fsm', step')
<1> DEFINE t == Taken
           g == [fsm EXCEPT !.mediaAnswer = FALSE]
<1>1. Good(t, fsm, step) /\ step = "loop" /\ OnReady(t, Signalled)
  BY TakenGood DEF TakeReady
<1> HIDE DEF t
<1>2. t \in DialogType /\ TransportInv(t) /\ fsm \in FsmType
  BY <1>1 DEF Good
<1>3. CASE Nothing(t)
  BY <1>1, <1>3 DEF Nothing
<1>4. CASE fsm.state = "CONNECTING" /\ CompleteAnswer(g, t, FALSE)
  <2>1. g \in FsmType
    BY <1>2, Zenon DEF FsmType
  <2>2. g.state = fsm.state /\ g.cur = fsm.cur /\ g.accepted = fsm.accepted
    BY <1>2, SMT DEF FsmType
  <2> HIDE DEF g
  <2>3. Answered(t) /\ g.cur # NoCall => g.cur = t.final.call /\ g.accepted
    BY <1>1, <2>2 DEF Good, HandlerOk
  <2>4. g.state = "CONNECTING"
    BY <1>4, <2>2
  <2> QED BY <1>2, <1>4, <2>1, <2>3, <2>4, CompleteAnswerGood
<1> QED BY <1>1, <1>3, <1>4, Zenon DEF OnReady

\* (an ending where the invariant holds)
LEMMA EndGood ==
    ASSUME NEW t, NEW f, NEW s, Good(t, f, s), s \notin {"mediaOff", "mediaOffPending"},
           NEW action \in {"NONE", "BYE", "AUTO"}, NEW cache, NEW incompatible,
           Terminate(f, t, action, cache, incompatible)
    PROVE  Good(sip', fsm', step')
<1>1. Endable(t, f, action)
  BY GoodIsEndable
<1> QED BY <1>1, TerminateGood

\* BYE and CANCEL,
LEMMA TakeRemoteEndGood ==
    ASSUME Good(sip, fsm, step), TakeBye \/ TakeCancel
    PROVE  Good(sip', fsm', step')
<1> DEFINE t == Taken
<1>1. Good(t, fsm, step) /\ step = "loop" /\ OnRemoteEnd(t, Signalled)
  BY TakenGood DEF TakeBye, TakeCancel
<1> HIDE DEF t
<1>2. CASE Nothing(t)
  BY <1>1, <1>2 DEF Nothing
<1>3. CASE Terminate(fsm, t, "NONE", FALSE, FALSE)
  BY <1>1, <1>3, EndGood
<1> QED BY <1>1, <1>2, <1>3 DEF OnRemoteEnd

\* the answer to an outgoing call,
LEMMA TakeOkGood ==
    ASSUME Good(sip, fsm, step), TakeOk
    PROVE  Good(sip', fsm', step')
<1> DEFINE t == Taken
           g == [fsm EXCEPT !.state = "IN_CALL"]
<1>1. Good(t, fsm, step) /\ step = "loop" /\ OnOk(t, Signalled)
  BY TakenGood DEF TakeOk
<1> HIDE DEF t
<1>2. t \in DialogType /\ TransportInv(t) /\ fsm \in FsmType
  BY <1>1 DEF Good
<1>3. CASE Nothing(t)
  BY <1>1, <1>3 DEF Nothing
<1>4. CASE /\ fsm.state \in {"CALLING", "REMOTE_RINGING"}
           /\ sip' = CommitMedia(t) /\ fsm' = g /\ step' = step
  <2>1. g \in FsmType /\ g.state = "IN_CALL" /\ g.cur = fsm.cur
    <3>1. "IN_CALL" \in States
      BY DEF States
    <3> QED BY <1>2, <3>1, StateTo
  <2> HIDE DEF g
  <2>2. sip' \in DialogType /\ SameDialog(t, sip')
    BY <1>2, <1>4, CommitMediaKeeps
  <2>3. TransportInv(sip') /\ Answered(sip') = Answered(t)
    BY <1>2, <2>2, SameDialogInv
  <2>4. Answered(t) => fsm.cur = NoCall
    BY <1>1, <1>4 DEF Good, HandlerOk
  <2> QED BY <1>1, <1>4, <2>1, <2>2, <2>3, <2>4 DEF Good, HandlerOk
<1>5. CASE /\ sip' = t /\ step' = "startFailed" /\ fsm' = fsm
           /\ fsm.state \in {"CALLING", "REMOTE_RINGING"}
  BY <1>1, <1>5 DEF Good, HandlerOk, Steps
<1> QED BY <1>1, <1>3, <1>4, <1>5, Zenon DEF OnOk

\* a refusal or a timeout of the INVITE.
LEMMA TakeFinalGood ==
    ASSUME Good(sip, fsm, step), TakeFinal \/ TakeIncompatible
    PROVE  Good(sip', fsm', step')
<1> DEFINE t == Taken
           g == [fsm EXCEPT !.fallback = TRUE, !.tried = TRUE]
<1>1. /\ Good(t, fsm, step) /\ step = "loop"
      /\ OnFinal(t, Signalled, FALSE) \/ OnFinal(t, Signalled, TRUE)
  BY TakenGood DEF TakeFinal, TakeIncompatible
<1> HIDE DEF t
<1>2. fsm \in FsmType
  BY <1>1 DEF Good
<1>3. g \in FsmType
  BY <1>2, Zenon DEF FsmType
<1>4. g.state = fsm.state /\ g.cur = fsm.cur /\ g.accepted = fsm.accepted
  BY <1>2, SMT DEF FsmType
<1>5. \/ Nothing(t)
      \/ \E incompatible \in BOOLEAN : \/ Terminate(fsm, t, "NONE", FALSE, incompatible)
                                       \/ Terminate(g, t, "NONE", FALSE, incompatible)
  <2>1. ASSUME NEW incompatible \in BOOLEAN, OnFinal(t, Signalled, incompatible)
        PROVE  \/ Nothing(t)
               \/ Terminate(fsm, t, "NONE", FALSE, incompatible)
               \/ Terminate(g, t, "NONE", FALSE, incompatible)
    BY <2>1, Zenon DEF OnFinal
  <2> QED BY <1>1, <2>1
<1> HIDE DEF g
<1>6. Good(t, g, step)
  BY <1>1, <1>3, <1>4 DEF Good, HandlerOk
<1>7. CASE Nothing(t)
  BY <1>1, <1>7 DEF Nothing
<1>8. ASSUME NEW incompatible \in BOOLEAN,
             \/ Terminate(fsm, t, "NONE", FALSE, incompatible)
             \/ Terminate(g, t, "NONE", FALSE, incompatible)
      PROVE  Good(sip', fsm', step')
  BY <1>1, <1>6, <1>8, EndGood
<1> QED BY <1>5, <1>7, <1>8

\* A new attempt has its call,
LEMMA AttemptKeeps ==
    ASSUME NEW f \in FsmType, NEW c \in OutCalls
    PROVE  /\ BeginAttempt(f, c) \in FsmType
           /\ BeginAttempt(f, c).cur = c
           /\ BeginAttempt(f, c).state = "CALLING"
           /\ [BeginAttempt(f, c) EXCEPT !.tried = FALSE] \in FsmType
           /\ [BeginAttempt(f, c) EXCEPT !.tried = FALSE].cur = c
           /\ [BeginAttempt(f, c) EXCEPT !.tried = FALSE].state = "CALLING"
<1> DEFINE d == f.dialed \cup {c}
           g == [f EXCEPT !.cur = c, !.state = "CALLING", !.terminal = NoCall,
                          !.fallback = FALSE, !.dialed = d]
           h == [g EXCEPT !.tried = FALSE]
<1>1. /\ c \in Calls \cup {NoCall} /\ NoCall \in Calls \cup {NoCall} /\ "CALLING" \in States
      /\ FALSE \in BOOLEAN /\ d \in SUBSET OutCalls
  BY FsmFields DEF Calls, States
<1>2. BeginAttempt(f, c) = g
  BY Zenon DEF BeginAttempt
<1> HIDE DEF d
<1>3. g \in FsmType
  BY <1>1, Zenon DEF FsmType
<1>4. g.cur = c /\ g.state = "CALLING"
  BY SMT DEF FsmType
<1> HIDE DEF g
<1>5. h \in FsmType
  BY <1>3, Zenon DEF FsmType
<1>6. h.cur = g.cur /\ h.state = g.state
  BY <1>3, SMT DEF FsmType
<1> QED BY <1>2, <1>3, <1>4, <1>5, <1>6

\* can be ended,
LEMMA AttemptEndable ==
    ASSUME NEW t \in DialogType, TransportInv(t), ~Answered(t), NEW f \in FsmType,
           f.state = "CALLING"
    PROVE  Endable(t, f, "NONE")
BY DEF Endable

\* and is ready for the INVITE.
LEMMA AttemptGood ==
    ASSUME NEW t \in DialogType, TransportInv(t), ~Answered(t), ~OpenPath(t), NEW f \in FsmType,
           f.state = "CALLING", f.cur \in OutCalls
    PROVE  Good(t, f, "invite")
BY DEF Good, HandlerOk, Steps

\* start_call_attempt_
LEMMA StartGood ==
    ASSUME Good(sip, fsm, step), Start \/ StartUnroutable
    PROVE  Good(sip', fsm', step')
<1>1. /\ sip \in DialogType /\ TransportInv(sip) /\ fsm \in FsmType
      /\ ~Answered(sip) /\ ~OpenPath(sip)
  BY DEF Start, StartUnroutable, CanStart, Good, HandlerOk
<1>2. ASSUME NEW c \in Fresh
      PROVE  /\ [BeginAttempt(fsm, c) EXCEPT !.tried = FALSE] \in FsmType
             /\ [BeginAttempt(fsm, c) EXCEPT !.tried = FALSE].cur \in OutCalls
             /\ [BeginAttempt(fsm, c) EXCEPT !.tried = FALSE].state = "CALLING"
  BY <1>1, AttemptKeeps DEF Fresh
<1>3. CASE Start
  <2>1. PICK c \in Fresh : fsm' = [BeginAttempt(fsm, c) EXCEPT !.tried = FALSE]
    BY <1>3 DEF Start
  <2>2. fsm' \in FsmType /\ fsm'.cur \in OutCalls /\ fsm'.state = "CALLING"
    BY <1>2, <2>1
  <2>3. sip' = sip /\ step' = "invite"
    BY <1>3 DEF Start, dialogVars
  <2> QED BY <1>1, <2>2, <2>3, AttemptGood
<1>4. CASE StartUnroutable
  <2>1. PICK c \in Fresh :
          Terminate([BeginAttempt(fsm, c) EXCEPT !.tried = FALSE], sip, "NONE", FALSE, FALSE)
    BY <1>4 DEF StartUnroutable
  <2>2. Endable(sip, [BeginAttempt(fsm, c) EXCEPT !.tried = FALSE], "NONE")
    BY <1>1, <1>2, AttemptEndable
  <2> QED BY <2>1, <2>2, TerminateGood
<1> QED BY <1>3, <1>4

\* The INVITE of an attempt.
LEMMA InviteStepGood ==
    ASSUME Good(sip, fsm, step), InviteStep
    PROVE  Good(sip', fsm', step')
<1>1. step = "invite" /\ sip \in DialogType /\ fsm.cur \in OutCalls
  BY DEF InviteStep, Good, HandlerOk
<1>2. CASE CanInvite(sip)
  <2>1. sip' = SendInvite(sip, fsm.cur) /\ step' = "loop" /\ fsm' = fsm
    BY <1>2 DEF InviteStep
  <2>2. Good(sip, fsm, "loop")
    BY <1>1 DEF Good, HandlerOk, Steps
  <2>3. SipStep(sip, SendInvite(sip, fsm.cur))
    BY <1>1, <1>2, SendInviteStep
  <2> QED BY <2>1, <2>2, <2>3, GoodStep
<1>3. CASE Terminate(fsm, sip, "NONE", FALSE, FALSE)
  BY <1>1, <1>3, EndGood
<1> QED BY <1>2, <1>3 DEF InviteStep

\* The deferred finish: it makes the machine idle only when nothing terminal is pending.
LEMMA TakeFinishGood ==
    ASSUME Good(sip, fsm, step), TakeFinish
    PROVE  Good(sip', fsm', step')
<1> DEFINE t == Taken
<1>1. Good(t, fsm, step) /\ step = "loop" /\ Finish(t)
  BY TakenGood DEF TakeFinish
<1> HIDE DEF t
<1>2. t \in DialogType /\ TransportInv(t) /\ fsm \in FsmType
  BY <1>1 DEF Good
<1>3. CASE fsm' = fsm /\ sip' = t /\ step' = "loop"
  BY <1>1, <1>3
<1>4. CASE Finished(t) /\ fsm' = FinishState(fsm) /\ sip' = t /\ step' = "loop"
  <2>1. ~Answered(t) /\ ~t.pBye
    BY <1>4 DEF Finished, TerminalPending, Answered
  <2>2. CASE fsm.state = "TERMINATING"
    <3>1. FinishState(fsm) = [fsm EXCEPT !.state = "IDLE"]
      BY <2>2, Zenon DEF FinishState
    <3>2. "IDLE" \in States
      BY DEF States
    <3>3. fsm' \in FsmType /\ fsm'.state = "IDLE"
      BY <1>2, <1>4, <3>1, <3>2, StateTo
    <3>4. ~OpenPath(t)
      BY <1>1, <2>2 DEF Good, HandlerOk
    <3> QED BY <1>1, <1>2, <1>4, <2>1, <3>3, <3>4 DEF Good, HandlerOk, Steps
  <2>3. CASE fsm.state # "TERMINATING"
    <3>1. FinishState(fsm) = fsm
      <4> DEFINE s == fsm.state
      <4>1. FinishState(fsm) = [fsm EXCEPT !.state = fsm.state]
        BY <2>3, Zenon DEF FinishState
      <4>2. [fsm EXCEPT !.state = fsm.state] = fsm
        BY <1>2, Zenon DEF FsmType
      <4> QED BY <4>1, <4>2
    <3> QED BY <1>1, <1>4, <3>1
  <2> QED BY <2>2, <2>3
<1>5. ASSUME NEW c \in Fresh, Finished(t),
             \/ fsm' = BeginAttempt(fsm, c) /\ sip' = t /\ step' = "invite"
             \/ Terminate(BeginAttempt(fsm, c), t, "NONE", FALSE, FALSE)
      PROVE  Good(sip', fsm', step')
  <2> DEFINE g == BeginAttempt(fsm, c)
  <2>1. g \in FsmType /\ g.cur \in OutCalls /\ g.state = "CALLING"
    BY <1>2, AttemptKeeps DEF Fresh
  <2>2. ~Answered(t) /\ ~OpenPath(t)
    BY <1>5 DEF Finished, TerminalPending, Answered, OpenPath
  <2>3. Good(t, g, "invite") /\ Endable(t, g, "NONE")
    BY <1>2, <2>1, <2>2, AttemptGood, AttemptEndable
  <2> QED BY <1>5, <2>3, TerminateGood
<1>6. \/ fsm' = fsm /\ sip' = t /\ step' = "loop"
      \/ Finished(t) /\ fsm' = FinishState(fsm) /\ sip' = t /\ step' = "loop"
      \/ /\ Finished(t)
         /\ \E c \in Fresh :
               \/ fsm' = BeginAttempt(fsm, c) /\ sip' = t /\ step' = "invite"
               \/ Terminate(BeginAttempt(fsm, c), t, "NONE", FALSE, FALSE)
  BY <1>1, Zenon DEF Finish
<1> QED BY <1>3, <1>4, <1>5, <1>6

\* The peer rings.
LEMMA TakeRingingGood ==
    ASSUME Good(sip, fsm, step), TakeRinging
    PROVE  Good(sip', fsm', step')
<1> DEFINE t == Taken
           g == [fsm EXCEPT !.state = "REMOTE_RINGING"]
<1>1. Good(t, fsm, step) /\ step = "loop" /\ OnRinging(t)
  BY TakenGood DEF TakeRinging
<1> HIDE DEF t
<1>2. fsm \in FsmType
  BY <1>1 DEF Good
<1>3. sip' = t /\ step' = step
  BY <1>1 DEF OnRinging
<1>4. CASE fsm.state = "CALLING"
  <2>1. fsm' = g
    BY <1>1, <1>4, Zenon DEF OnRinging
  <2>2. g \in FsmType /\ g.state = "REMOTE_RINGING" /\ g.cur = fsm.cur
    <3>1. "REMOTE_RINGING" \in States
      BY DEF States
    <3> QED BY <1>2, <3>1, StateTo
  <2> HIDE DEF g
  <2> QED BY <1>1, <1>3, <1>4, <2>1, <2>2 DEF Good, HandlerOk
<1>5. CASE fsm.state # "CALLING"
  <2>1. fsm' = [fsm EXCEPT !.state = fsm.state]
    BY <1>1, <1>5, Zenon DEF OnRinging
  <2>2. [fsm EXCEPT !.state = fsm.state] = fsm
    BY <1>2, Zenon DEF FsmType
  <2> QED BY <1>1, <1>3, <2>1, <2>2
<1> QED BY <1>4, <1>5

\* Sending the answer: from here on its ACK is awaited, for the call of the machine.
LEMMA AnswerStepGood ==
    ASSUME Good(sip, fsm, step), AnswerStep
    PROVE  Good(sip', fsm', step')
<1> DEFINE u == SendAnswer(sip, fsm.cur)
           g == [fsm EXCEPT !.accepted = TRUE]
<1>1. /\ step = "answer" /\ sip \in DialogType /\ TransportInv(sip) /\ fsm \in FsmType
      /\ fsm.cur \in InCalls /\ fsm.cur \in Calls /\ fsm.state = "CONNECTING"
      /\ ~Answered(sip) /\ ~(sip.pBye /\ sip.dlg \in InCalls)
  BY DEF AnswerStep, Good, HandlerOk, Calls
<1>2. /\ u \in DialogType /\ TransportInv(u)
      /\ Answered(u) => CanAnswer(sip) /\ u.final.call = fsm.cur
      /\ ~(u.pBye /\ u.dlg \in InCalls)
  BY <1>1, SendAnswerSettles
<1> HIDE DEF u
<1>3. CASE /\ sip' = u /\ fsm' = g
           /\ step' = IF fsm.mediaAnswer THEN "loop" ELSE "commit"
  <2>1. g \in FsmType
    BY <1>1, Zenon DEF FsmType
  <2>2. g.state = "CONNECTING" /\ g.cur = fsm.cur /\ g.accepted = TRUE
    BY <1>1, SMT DEF FsmType
  <2> HIDE DEF g
  <2>3. step' \in {"loop", "commit"}
    BY <1>3
  <2> QED BY <1>2, <1>3, <2>1, <2>2, <2>3 DEF Good, HandlerOk, Steps
<1>4. CASE ~CanAnswer(sip) /\ Terminate(fsm, StopAudio(u), "NONE", FALSE, FALSE)
  <2>1. /\ StopAudio(u) \in DialogType /\ SameDialog(u, StopAudio(u)) /\ ~OpenPath(StopAudio(u))
    BY <1>2, StopAudioKeeps
  <2>2. TransportInv(StopAudio(u)) /\ ~Answered(StopAudio(u))
    BY <1>2, <1>4, <2>1, SameDialogInv
  <2>3. Endable(StopAudio(u), fsm, "NONE")
    BY <1>1, <2>1, <2>2 DEF Endable
  <2> QED BY <1>4, <2>3, TerminateGood
<1> QED BY <1>3, <1>4, Zenon DEF AnswerStep, u

\* Opening the audio path of an answered call, or failing to.
LEMMA CommitStepGood ==
    ASSUME Good(sip, fsm, step), CommitStep
    PROVE  Good(sip', fsm', step')
<1> DEFINE g == [fsm EXCEPT !.state = "IN_CALL"]
<1>1. /\ step = "commit" /\ sip \in DialogType /\ TransportInv(sip) /\ fsm \in FsmType
      /\ fsm.state = "CONNECTING"
  BY DEF CommitStep, Good, HandlerOk
<1>2. CASE sip' = CommitMedia(sip) /\ fsm' = g /\ step' = "loop"
  <2>1. g \in FsmType /\ g.state = "IN_CALL" /\ g.cur = fsm.cur /\ g.accepted = fsm.accepted
    <3>1. "IN_CALL" \in States
      BY DEF States
    <3> QED BY <1>1, <3>1, StateTo
  <2> HIDE DEF g
  <2>2. sip' \in DialogType /\ SameDialog(sip, sip')
    BY <1>1, <1>2, CommitMediaKeeps
  <2>3. TransportInv(sip') /\ Answered(sip') = Answered(sip) /\ sip'.final = sip.final
    BY <1>1, <2>2, SameDialogInv DEF SameDialog
  <2> QED BY <1>1, <1>2, <2>1, <2>2, <2>3 DEF Good, HandlerOk, Steps
<1>3. CASE sip' = EndAfterCommitFailure(sip) /\ step' = "commitFailed" /\ fsm' = fsm
  <2>1. sip' \in DialogType /\ TransportInv(sip') /\ NothingGained(sip, sip')
    BY <1>1, <1>3, CommitFailureSettles
  <2> QED BY <1>1, <1>3, <2>1 DEF Good, HandlerOk, NothingGained, Steps
<1> QED BY <1>2, <1>3, Zenon DEF CommitStep

\* What follows when it failed.
LEMMA FailedStepsGood ==
    ASSUME Good(sip, fsm, step), CommitFailedStep \/ StartFailedStep
    PROVE  Good(sip', fsm', step')
<1>1. step \in {"commitFailed", "startFailed"} /\ sip \in DialogType /\ TransportInv(sip)
  BY DEF Good, CommitFailedStep, StartFailedStep
<1>2. Good(StopAudio(sip), fsm, step)
  BY <1>1, StopAudioStep, GoodStep
<1>3. \/ Terminate(fsm, StopAudio(sip), "BYE", FALSE, FALSE)
      \/ Terminate(fsm, sip, "BYE", FALSE, FALSE)
  BY DEF CommitFailedStep, StartFailedStep
<1> QED BY <1>1, <1>2, <1>3, EndGood

\* Stopping the audio path of an ending.
LEMMA MediaOffGood ==
    ASSUME Good(sip, fsm, step), MediaOff
    PROVE  Good(sip', fsm', step')
<1>1. /\ sip' = StopAudio(sip) /\ fsm' = fsm /\ step' \in {"disconnect", "loop"}
      /\ sip \in DialogType /\ TransportInv(sip)
  BY DEF MediaOff, Good
<1>2. Good(StopAudio(sip), fsm, step)
  BY <1>1, StopAudioStep, GoodStep
<1>3. ~OpenPath(StopAudio(sip))
  BY <1>1, StopAudioKeeps
<1> QED BY <1>1, <1>2, <1>3 DEF Good, HandlerOk, Steps

\* Its last step.
LEMMA DisconnectGood ==
    ASSUME Good(sip, fsm, step), DisconnectStep
    PROVE  Good(sip', fsm', step')
<1>1. /\ sip' = Disconnect(sip) /\ fsm' = fsm /\ step' = "loop" /\ step = "disconnect"
      /\ sip \in DialogType /\ TransportInv(sip)
  BY DEF DisconnectStep, Good
<1>2. Good(Disconnect(sip), fsm, step)
  BY <1>1, DisconnectSettles, GoodStep
<1> QED BY <1>1, <1>2 DEF Good, HandlerOk, Steps

\* The user and the timeouts of the main loop.
LEMMA UserGood ==
    ASSUME Good(sip, fsm, step), Answer \/ HangUp \/ UnansweredTimeout
    PROVE  Good(sip', fsm', step')
<1>1. step = "loop" /\ sip \in DialogType /\ TransportInv(sip) /\ fsm \in FsmType
  BY DEF Answer, HangUp, UnansweredTimeout, Good
<1>2. CASE Answer
  <2>1. fsm.state = "RINGING" /\ CompleteAnswer(fsm, sip, TRUE)
    BY <1>2 DEF Answer
  <2>2. fsm.cur \in InCalls /\ ~Answered(sip) /\ ~(sip.pBye /\ sip.dlg \in InCalls)
    BY <2>1, NoCallIsNone DEF Good, HandlerOk
  <2> QED BY <1>1, <2>1, <2>2, CompleteAnswerGood
<1>3. CASE HangUp \/ UnansweredTimeout
  <2>1. \/ Terminate(fsm, sip, "AUTO", TRUE, FALSE)
        \/ Terminate(fsm, sip, "NONE", TRUE, FALSE)
    BY <1>3 DEF HangUp, UnansweredTimeout
  <2> QED BY <1>1, <2>1, EndGood
<1> QED BY <1>2, <1>3

\* The SIP task and the RTP worker.
LEMMA SipTaskGood ==
    ASSUME Good(sip, fsm, step), SipTask \/ RtpWorker
    PROVE  Good(sip', fsm', step')
<1>1. fsm' = fsm /\ step' = step /\ sip \in DialogType /\ TransportInv(sip)
  BY DEF SipTask, RtpWorker, Good
<1>2. SipStep(sip, sip')
  <2>1. ASSUME NEW c \in InCalls, ReceiveInvite(c)
        PROVE  SipStep(sip, sip')
    BY <1>1, <2>1, HandleInviteStep DEF ReceiveInvite
  <2>2. ASSUME NEW c \in InCalls, ReceiveCancel(c)
        PROVE  SipStep(sip, sip')
    BY <1>1, <2>2, HandleCancelStep DEF ReceiveCancel
  <2>3. ASSUME NEW c \in InCalls, NEW status, ReceiveAck(c, status)
        PROVE  SipStep(sip, sip')
    BY <1>1, <2>3, HandleAckStep DEF ReceiveAck
  <2>4. ASSUME NEW c \in OutCalls, ReceiveProvisional(c)
        PROVE  SipStep(sip, sip')
    BY <1>1, <2>4, HandleProvisionalStep DEF ReceiveProvisional
  <2>5. ASSUME NEW c \in OutCalls, NEW status \in PeerFinals, ReceiveFinal(c, status)
        PROVE  SipStep(sip, sip')
    BY <1>1, <2>5, HandleFinalStep DEF ReceiveFinal
  <2>6. ASSUME NEW c \in Calls, ReceiveBye(c) \/ ReceiveByeResponse(c)
        PROVE  SipStep(sip, sip')
    BY <1>1, <2>6, HandleByeStep, HandleByeResponseStep DEF ReceiveBye, ReceiveByeResponse
  <2>7. CASE InviteTimeout
    BY <1>1, <2>7, InviteDeadlineStep DEF InviteTimeout
  <2>8. CASE TerminalTimeout
    BY <1>1, <2>8, ResetStep, FinishStep DEF TerminalTimeout, TerminalDeadline
  <2>9. CASE FinalTimeout
    BY <1>1, <2>9, FinalDeadlineStep DEF FinalTimeout
  <2>10. CASE RtpWorker
    BY <1>1, <2>10, QuiescedStep DEF RtpWorker, MediaQuiesced
  <2> QED BY <2>1, <2>2, <2>3, <2>4, <2>5, <2>6, <2>7, <2>8, <2>9, <2>10
          DEF SipTask, Receive, Deadline
<1> QED BY <1>1, <1>2, GoodStep

-----------------------------------------------------------------------------
(* The invariant and what follows from it. *)

\* It holds at the start.
LEMMA AnswerInvInit == Init => AnswerInv
<1> SUFFICES ASSUME Init
             PROVE  AnswerInv
  OBVIOUS
<1>1. sip \in DialogType
  <2>1. /\ NoCall \in Calls \cup {NoCall} /\ FALSE \in BOOLEAN
        /\ NoFinal \in FinalResponses \cup {NoFinal}
        /\ <<"none", NoCall>> \in {"none", "BYE", "CANCEL"} \X (Calls \cup {NoCall})
        /\ "IDLE" \in {"IDLE", "PREPARED", "ACTIVE", "CLEANING"}
        /\ [c \in Calls |-> {}] \in [Calls -> SUBSET Sent]
        /\ {} \in SUBSET Calls /\ <<>> \in Seq(SignalsOfCalls)
    OBVIOUS
  <2> QED BY <2>1, ZenonT(60) DEF Init, DialogInit, DialogType
<1>2. /\ sip.call = NoCall /\ sip.dlg = NoCall /\ sip.pInvite = FALSE /\ sip.delayed = FALSE
      /\ sip.pBye = FALSE /\ sip.termAck = FALSE /\ sip.final = NoFinal /\ sip.phase = "IDLE"
  BY DEF Init, DialogInit
<1>3. NoFinal.await = FALSE /\ NoFinal.status = "none"
  BY DEF NoFinal
<1>4. TransportInv(sip) /\ ~Answered(sip) /\ ~OpenPath(sip)
  BY <1>2, <1>3, SMT DEF TransportInv, EmptyIsEmpty, AnswerOfDialog, AckSettlesOffer, ByeWaits,
     Answered, OpenPath
<1>5. fsm \in FsmType /\ fsm.state = "IDLE" /\ step = "loop"
  <2>1. /\ NoCall \in Calls \cup {NoCall} /\ FALSE \in BOOLEAN /\ "IDLE" \in States
        /\ {} \in SUBSET OutCalls
    BY DEF States
  <2>2. fsm \in FsmType
    BY <2>1, Zenon DEF Init, FsmType
  <2> QED BY <2>2 DEF Init
<1>6. said \in [Calls -> SUBSET PeerSays]
  BY DEF Init, DialogInit, PeerSays
<1>7. Good(sip, fsm, step)
  BY <1>1, <1>2, <1>4, <1>5 DEF Good, HandlerOk, Steps
<1> QED BY <1>6, <1>7, AnswerInvIsGood

\* The peers say what peers say.
LEMMA SaidStep ==
    ASSUME said \in [Calls -> SUBSET PeerSays], Next
    PROVE  said' \in [Calls -> SUBSET PeerSays]
<1>1. ASSUME NEW c \in Calls, NEW message \in PeerSays, Say(c, message)
      PROVE  said' \in [Calls -> SUBSET PeerSays]
  BY <1>1 DEF Say
<1>2. CASE Peers
  BY <1>1, <1>2 DEF Peers, Peer, PeerCalls, PeerCancels, PeerHangsUp, PeerAnswers, PeerSays, Calls
<1>3. CASE Main
  BY <1>3 DEF Main, TakeInvite, TakeReady, TakeBye, TakeCancel, TakeOk, TakeFinal,
     TakeIncompatible, TakeRinging, TakeFinish, TakeSignal, InviteStep, AnswerStep, CommitStep,
     CommitFailedStep, StartFailedStep, MediaOff, DisconnectStep
<1>4. CASE User
  BY <1>4 DEF User, Start, StartUnroutable, Answer, HangUp, UnansweredTimeout, dialogVars
<1>5. CASE SipTask \/ RtpWorker
  BY <1>5 DEF SipTask, RtpWorker, Receive, Deadline, ReceiveInvite, ReceiveCancel, ReceiveAck,
     ReceiveProvisional, ReceiveFinal, ReceiveBye, ReceiveByeResponse, InviteTimeout,
     TerminalTimeout, FinalTimeout, MediaQuiesced
<1> QED BY <1>2, <1>3, <1>4, <1>5 DEF Next

\* Every step preserves it.
LEMMA AnswerInvStep == AnswerInv /\ [Next]_vars => AnswerInv'
<1> SUFFICES ASSUME AnswerInv, [Next]_vars
             PROVE  AnswerInv'
  OBVIOUS
<1>1. Good(sip, fsm, step) /\ said \in [Calls -> SUBSET PeerSays]
  BY AnswerInvIsGood
<1>2. CASE UNCHANGED vars
  BY <1>1, <1>2, AnswerInvIsGood DEF vars
<1>3. CASE Next
  <2>1. CASE Main
    <3>1. ASSUME TakeInvite \/ TakeReady \/ TakeBye \/ TakeCancel \/ TakeOk
         PROVE  Good(sip', fsm', step')
      BY <1>1, <3>1, TakeInviteGood, TakeReadyGood, TakeRemoteEndGood, TakeOkGood
    <3>2. ASSUME TakeFinal \/ TakeIncompatible \/ TakeRinging \/ TakeFinish
         PROVE  Good(sip', fsm', step')
      BY <1>1, <3>2, TakeFinalGood, TakeRingingGood, TakeFinishGood
    <3>3. ASSUME InviteStep \/ AnswerStep \/ CommitStep
         PROVE  Good(sip', fsm', step')
      BY <1>1, <3>3, InviteStepGood, AnswerStepGood, CommitStepGood
    <3>4. ASSUME CommitFailedStep \/ StartFailedStep \/ MediaOff \/ DisconnectStep
         PROVE  Good(sip', fsm', step')
      BY <1>1, <3>4, FailedStepsGood, MediaOffGood, DisconnectGood
    <3>5. Good(sip', fsm', step')
      BY <2>1, <3>1, <3>2, <3>3, <3>4 DEF Main
    <3> QED BY <1>1, <1>3, <3>5, SaidStep, AnswerInvIsGood
  <2>2. CASE User
    <3>1. Good(sip', fsm', step')
      BY <1>1, <2>2, StartGood, UserGood DEF User
    <3> QED BY <1>1, <1>3, <3>1, SaidStep, AnswerInvIsGood
  <2>3. CASE SipTask \/ RtpWorker
    <3>1. Good(sip', fsm', step')
      BY <1>1, <2>3, SipTaskGood
    <3> QED BY <1>1, <1>3, <3>1, SaidStep, AnswerInvIsGood
  <2>4. CASE Peers
    <3>1. sip' = sip /\ fsm' = fsm /\ step' = step
      BY <2>4 DEF Peers, Peer, PeerCalls, PeerCancels, PeerHangsUp, PeerAnswers, Say
    <3> QED BY <1>1, <1>3, <3>1, SaidStep, AnswerInvIsGood
  <2> QED BY <1>3, <2>1, <2>2, <2>3, <2>4 DEF Next
<1> QED BY <1>2, <1>3

\* For any number of calls, any queue and any policy, AnswerInv holds: while the
\* 2xx of this phone waits for its ACK, the machine, the dialog and the remembered
\* response agree on the call, whatever the SIP task did between two calls of a handler.
THEOREM AnswerInvariant == Spec => []AnswerInv
BY AnswerInvInit, AnswerInvStep, PTL DEF Spec

\* No BYE of an answered dialog is on its way before its ACK, and a deferred BYE
\* is that of the dialog whose ACK is awaited (defer_bye_until_uas_ack_locked_).
THEOREM ByeAwaitsItsAck == Spec => []ByeAwaitsAck
<1>1. AnswerInv => ByeAwaitsAck
  BY DEF AnswerInv, TransportInv, ByeAwaitsAck
<1> QED BY <1>1, AnswerInvariant, PTL

\* Between handlers an open audio path is that of a call that is being connected
\* or is established.
THEOREM MediaIsOfACall == Spec => []MediaFollowsCall
<1>1. AnswerInv => MediaFollowsCall
  BY DEF AnswerInv, MediaOwned, MediaFollowsCall, OpenPath
<1> QED BY <1>1, AnswerInvariant, PTL

=============================================================================
