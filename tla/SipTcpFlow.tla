----------------------------- MODULE SipTcpFlow -----------------------------
(***************************************************************************)
(* The TCP signalling flow of SipTransport: its one connection, the one     *)
(* record that may wait for that connection, the byte stream that is cut    *)
(* into SIP messages, and the choice between TCP and UDP.                   *)
(*                                                                         *)
(* The main loop dials, answers and hangs up; the SIP task owns the sockets *)
(* and runs select.  dialog_mutex_ and tcp_send_mutex_ make an operation of *)
(* the transport one step; what either thread does outside them is a step   *)
(* of its own.  The dialog and the call are only as much of SipDialog and   *)
(* CallFsm as owns a transport.  Peers and the network are external.        *)
(***************************************************************************)
EXTENDS Integers, Sequences, FiniteSets, SequencesExt, FiniteSetsExt

CONSTANTS
    Peers,      \* hosts this phone may call, or that connect to it
    Dials,      \* calls placed, numbered 1..Dials; 0 is the call that comes in
    Conns,      \* bound: sockets that exist at a time are 1..Conns
    Inputs,     \* bound: what the network starts by itself
    MaxRx       \* MAX_SIP_TCP_RX_BUFFER, in halves of a message

ASSUME TcpAssumption == {Dials, Conns, Inputs, MaxRx} \subseteq Nat /\ Conns > 0

VARIABLES
    flow,       \* tcp_flow_: socket, connecting_socket, the two requests, target, pending, rx_buffer
    tcp,        \* remote_sip_tcp_
    dlg,        \* call_id_, outgoing_invite_pending_, media_active_, a terminal transaction
    conns,      \* the sockets of the phone and what is on their way in
    backlog,    \* connections the listener has not accepted
    wake,       \* a byte in sip_wake_socket_
    task,       \* the SIP task: place, what select reported, the message in hand
    main,       \* the main loop: place, current call, its target, its transport
    events,     \* what the SIP task has deferred to the main loop
    wire,       \* INVITEs a peer has received over TCP: <<call, peer>>
    udpSent,    \* calls whose INVITE went out over UDP
    retracted,  \* calls whose INVITE was taken back before a byte was sent
    inputs      \* what the network may still start

transport == <<flow, tcp, dlg, conns, wake, wire, udpSent, retracted>>
vars == <<transport, backlog, task, main, events, inputs>>

None == -1
In == 0
Calls == 0..Dials
NoMessage == [kind |-> "none", call |-> None]
NoDialog == [call |-> None, out |-> FALSE, media |-> FALSE, term |-> FALSE]
NoSocket == [st |-> "free", peer |-> "none", inbox |-> <<>>, half |-> NoMessage]
NoReady == [wake |-> FALSE, conn |-> 0, accept |-> FALSE, udp |-> NoMessage, sock |-> 0]
Resting == [at |-> "close", ready |-> NoReady, eof |-> FALSE, lost |-> None]

Init ==
    /\ flow = [sock |-> 0, conning |-> 0, closeReq |-> FALSE, connectReq |-> FALSE,
               target |-> "none", pending |-> NoMessage, rx |-> <<>>]
    /\ tcp = FALSE /\ dlg = NoDialog
    /\ conns = [i \in 1..Conns |-> NoSocket] /\ backlog = 0 /\ wake = FALSE
    /\ task = Resting
    /\ main = [at |-> "idle", call |-> None, peer |-> "none", dialled |-> 0]
    /\ events = <<>>
    /\ wire = {} /\ udpSent = {} /\ retracted = {} /\ inputs = Inputs

-----------------------------------------------------------------------------
(* The flow, as a function from one state of the transport to the next.     *)

s == [flow |-> flow, tcp |-> tcp, dlg |-> dlg, conns |-> conns, wake |-> wake,
      wire |-> wire, udpSent |-> udpSent, retracted |-> retracted]

Becomes(t) ==
    /\ flow' = t.flow /\ tcp' = t.tcp /\ dlg' = t.dlg /\ conns' = t.conns
    /\ wake' = t.wake /\ wire' = t.wire /\ udpSent' = t.udpSent /\ retracted' = t.retracted

\* shutdown(): the stream ends once what has arrived is read.
Shut(c, i) == [c EXCEPT ![i].st = "gone"]

\* The waiting record is dropped; an INVITE among them has then never been sent.
Forget(t) ==
    [t EXCEPT !.flow.pending = NoMessage,
              !.retracted = @ \cup (IF t.flow.pending.kind = "INVITE"
                                    THEN {t.flow.pending.call} ELSE {})]

\* The flow is given up by whoever is not the SIP task.
Abandon(t) ==
    [t EXCEPT !.flow.connectReq = FALSE, !.flow.closeReq = TRUE, !.wake = TRUE]

\* request_tcp_client_close_
RequestClose(t) ==
    [Abandon(Forget(t)) EXCEPT
              !.conns = IF t.flow.sock = 0 THEN @ ELSE Shut(@, t.flow.sock)]

\* Mutant: rx_buffer outlives its connection.
CloseFlowKeepingBytes(t) ==
    [t EXCEPT !.flow.sock = 0, !.flow.conning = 0, !.flow.closeReq = FALSE,
              !.conns = [i \in 1..Conns |->
                            IF i \in {t.flow.sock, t.flow.conning} THEN NoSocket ELSE @[i]]]

\* Mutant: connecting_socket is not closed with the flow.
CloseFlowKeepingConnect(t) ==
    [t EXCEPT !.flow.sock = 0, !.flow.conning = 0, !.flow.closeReq = FALSE, !.flow.rx = <<>>,
              !.conns = [i \in 1..Conns |-> IF i = t.flow.sock THEN NoSocket ELSE @[i]]]

\* close_tcp_flow_
CloseFlow(t) ==
    [t EXCEPT !.flow.sock = 0, !.flow.conning = 0, !.flow.closeReq = FALSE, !.flow.rx = <<>>,
              !.conns = [i \in 1..Conns |->
                            IF i \in {t.flow.sock, t.flow.conning} THEN NoSocket ELSE @[i]]]

\* reset_dialog_: a record that has not been flushed goes with its dialog.
ResetDialog(t) ==
    [(IF t.flow.pending = NoMessage THEN t ELSE Abandon(Forget(t))) EXCEPT !.dlg = NoDialog]

Owned(t) == t.dlg # NoDialog

\* close_tcp_dialog_
LosesDialog(t) == t.tcp /\ Owned(t)
CloseDialog(t) ==
    [Forget(CloseFlow(t)) EXCEPT !.flow.connectReq = FALSE, !.tcp = FALSE,
                                 !.dlg = IF LosesDialog(t) THEN NoDialog ELSE @]

\* send_sip_tcp_record_: written to the stream, or the stream is shut down.
Written(t, record, i) ==
    {<<TRUE, IF record.kind = "INVITE"
             THEN [t EXCEPT !.wire = @ \cup {<<record.call, t.conns[i].peer>>}] ELSE t>>,
     <<FALSE, [t EXCEPT !.conns = Shut(@, i)]>>}

\* send_sip_: over UDP, on the stream, or into the one place a record waits in.
Sends(t, record) ==
    IF ~ t.tcp
    THEN {<<TRUE, [t EXCEPT !.udpSent = @ \cup (IF record.kind = "INVITE"
                                                THEN {record.call} ELSE {})]>>}
    ELSE IF t.flow.sock # 0 /\ ~ t.flow.closeReq /\ ~ t.flow.connectReq
    THEN Written(t, record, t.flow.sock)
    ELSE IF t.flow.pending = NoMessage
    THEN {<<TRUE, [t EXCEPT !.flow.pending = record, !.wake = TRUE]>>}
    ELSE {<<FALSE, t>>}

\* Mutant: The queued record is sent and stays queued.
PromotesKeeping(t) ==
    LET i == t.flow.conning
        up == [t EXCEPT !.flow = [@ EXCEPT !.sock = i, !.closeReq = FALSE,
                                           !.connectReq = FALSE, !.rx = <<>>]]
        sent == IF t.flow.pending = NoMessage THEN {<<TRUE, up>>}
                                              ELSE Written(up, t.flow.pending, i)
    IN  {<<r[1], [r[2] EXCEPT !.flow.conning = 0]>> : r \in sent}

\* promote_tcp_flow_
Promotes(t) ==
    LET i == t.flow.conning
        up == [t EXCEPT !.flow = [@ EXCEPT !.sock = i, !.closeReq = FALSE,
                                           !.connectReq = FALSE, !.rx = <<>>,
                                           !.pending = NoMessage]]
        sent == IF t.flow.pending = NoMessage THEN {<<TRUE, up>>}
                                              ELSE Written(up, t.flow.pending, i)
    IN  {<<r[1], [r[2] EXCEPT !.flow.conning = 0]>> : r \in sent}

Record(k, c) == [kind |-> k, call |-> c]
Responds(t, c) == {r[2] : r \in Sends(t, Record("response", c))}

-----------------------------------------------------------------------------
(* The dialog, as far as it owns a transport; m is the message received.    *)
(* Each operator is a set of pairs: the transport after it, what it tells.  *)

Silent(ts) == {<<t, <<>>>> : t \in ts}
Tells(ts, kind, c) == {<<t, <<[kind |-> kind, call |-> c, lost |-> None]>>>> : t \in ts}

\* handle_sip_datagram_
Dispatch(t, m) ==
    LET ours == t.dlg.call = m.call
        ended == {ResetDialog(u) : u \in Responds(t, m.call)}
    IN  CASE m.kind = "invite" /\ ~ Owned(t) ->
                Tells({[u EXCEPT !.dlg.call = m.call] : u \in Responds(t, m.call)}, "incoming", m.call)
          [] m.kind = "answer" /\ ours /\ t.dlg.out ->
                Tells({[u EXCEPT !.dlg.out = FALSE, !.dlg.media = ~ u.dlg.term]
                            : u \in Responds(t, m.call)}, "answered", m.call)
          [] m.kind = "refuse" /\ ours /\ t.dlg.out -> Tells(ended, "ended", m.call)
          [] m.kind = "bye" /\ ours /\ t.dlg.media -> Tells(ended, "ended", m.call)
          [] m.kind = "done" /\ ours /\ t.dlg.term /\ ~ t.dlg.out ->
                Tells({ResetDialog(t)}, "ended", m.call)
          [] m.kind \in {"invite", "probe"} /\ ~ (m.kind = "invite" /\ ~ Owned(t)) ->
                Silent(Responds(t, m.call))
          [] OTHER -> Silent({t})

\* What a peer may say: it answers the INVITEs it has received.
MaySay(asked) ==
    [kind : {"invite", "probe"}, call : {In}] \cup
    [kind : {"answer", "refuse", "bye", "done"}, call : asked]

-----------------------------------------------------------------------------
(* The main loop.                                                           *)

UnmovedByMain == UNCHANGED <<backlog, task, inputs>>

\* place_call: the call is current and CALLING before the transport is asked.
Dial(p, t) ==
    /\ main.at = "idle" /\ main.dialled < Dials
    /\ main' = [at |-> "originate", call |-> main.dialled + 1, peer |-> p,
                dialled |-> main.dialled + 1]
    /\ Becomes(LET u == [s EXCEPT !.tcp = t] IN IF tcp /\ ~ t THEN RequestClose(u) ELSE u)
    /\ UNCHANGED events /\ UnmovedByMain

\* originate: the old flow is given up, then the new one is requested.
Originate ==
    /\ main.at = "originate"
    /\ IF tcp THEN /\ Becomes(RequestClose(s)) /\ main' = [main EXCEPT !.at = "request"]
              ELSE /\ main' = [main EXCEPT !.at = "invite"] /\ UNCHANGED transport
    /\ UNCHANGED events /\ UnmovedByMain

RequestConnect ==
    /\ main.at = "request"
    /\ Becomes([Forget(s) EXCEPT !.flow.target = main.peer, !.flow.connectReq = TRUE, !.wake = TRUE])
    /\ main' = [main EXCEPT !.at = "invite"]
    /\ UNCHANGED events /\ UnmovedByMain

HungUp == [main EXCEPT !.at = "idle", !.call = None, !.peer = "none"]
Disconnected(t) == IF t.dlg.term THEN t ELSE ResetDialog(t)

\* send_invite
Invite ==
    /\ main.at = "invite"
    /\ IF dlg.term THEN main' = HungUp /\ UNCHANGED transport
       ELSE \E r \in Sends([ResetDialog(s) EXCEPT !.dlg.call = main.call],
                           Record("INVITE", main.call)) :
                /\ Becomes(IF r[1] THEN [r[2] EXCEPT !.dlg.out = TRUE] ELSE ResetDialog(r[2]))
                /\ main' = IF r[1] THEN [main EXCEPT !.at = "calling"] ELSE HungUp
    /\ UNCHANGED events /\ UnmovedByMain

\* send_cancel: an INVITE that still waits is taken back instead.
Retracts(t) == t.tcp /\ t.flow.pending.kind = "INVITE" /\ t.flow.pending.call = t.dlg.call
Retract(t) == ResetDialog(Abandon(Forget(t)))

\* dispatch_call_termination: CANCEL for a call that is not answered, whatever the
\* dialog has become; BYE for one that is.  What cannot be sent is disconnected.
TakenOver == IF main.at = "calling" THEN [s EXCEPT !.dlg.call = main.call] ELSE s
Silenced(t) == [t EXCEPT !.dlg.media = FALSE]
Ending(t) == [t EXCEPT !.dlg.media = FALSE, !.dlg.term = TRUE]
HangUp ==
    /\ main.at \in {"calling", "call"} /\ main' = HungUp
    /\ LET cancel == main.at = "calling" /\ dlg.out
       IN  IF TakenOver.dlg.call # main.call THEN Becomes(Disconnected(s))
           ELSE IF cancel /\ Retracts(TakenOver) THEN Becomes(Retract(TakenOver))
           ELSE \E r \in Sends(TakenOver,
                               Record(IF cancel THEN "CANCEL" ELSE "BYE", main.call)) :
                    Becomes(IF r[1] THEN Ending(r[2]) ELSE Disconnected(Silenced(r[2])))
    /\ UNCHANGED events /\ UnmovedByMain

\* The deferred callbacks: a signal of the dialog, or the loss of the connection.
Answered(e) ==
    IF main.at = "idle" /\ dlg.call = e.call
    THEN \E r \in Sends(s, Record("response", e.call)) :
            IF r[1] THEN /\ Becomes([r[2] EXCEPT !.dlg.media = TRUE])
                         /\ main' = [main EXCEPT !.at = "call", !.call = e.call]
                    ELSE Becomes(Disconnected(r[2])) /\ UNCHANGED main
    ELSE UNCHANGED <<main, transport>>

HandleEvent ==
    /\ main.at \in {"idle", "calling", "call"} /\ events # <<>>
    /\ events' = Tail(events)
    /\ LET e == Head(events)
           current == main.call # None /\ e.call = main.call
       IN  CASE e.kind = "incoming" -> Answered(e)
             [] e.kind = "answered" /\ current ->
                    main' = [main EXCEPT !.at = "call"] /\ UNCHANGED transport
             [] e.kind \in {"ended", "gone"} /\ current ->
                    main' = HungUp /\ Becomes(Disconnected(s))
             [] OTHER -> UNCHANGED <<main, transport>>
    /\ UnmovedByMain

-----------------------------------------------------------------------------
(* The SIP task, from the top of its loop.                                  *)

TaskStep(from) == task.at = from /\ UNCHANGED main
Goes(to) == task' = [task EXCEPT !.at = to]
GoesAnew == task' = Resting

\* Where the SIP task is while it still has a loss to tell, by where it goes next.
Telling == [close |-> "tell, then close", select |-> "tell, then select",
            accept |-> "tell, then accept"]

\* Mutant: Only a call with media is told that it is lost.
LosesQuietly(t, next) ==
    /\ Becomes(CloseDialog(t))
    /\ task' = IF LosesDialog(t) /\ t.dlg.media
               THEN [task EXCEPT !.at = Telling[next], !.lost = t.dlg.call]
               ELSE IF next = "close" THEN Resting ELSE [task EXCEPT !.at = next]

\* The dialog the flow carried is lost; the main loop is told a step later.
Loses(t, next) ==
    /\ Becomes(CloseDialog(t))
    /\ task' = IF LosesDialog(t) THEN [task EXCEPT !.at = Telling[next], !.lost = t.dlg.call]
               ELSE IF next = "close" THEN Resting ELSE [task EXCEPT !.at = next]

\* emit_connection_change_: the call that is current by now is named.
Tell(next) ==
    /\ TaskStep(Telling[next])
    /\ events' = Append(events, [kind |-> "gone", call |-> main.call, lost |-> task.lost])
    /\ task' = IF next = "close" THEN Resting ELSE [task EXCEPT !.at = next, !.lost = None]
    /\ UNCHANGED <<transport, backlog, inputs>>

UnmovedByTask == UNCHANGED <<backlog, events, inputs>>

PrepareClose ==
    /\ TaskStep("close") /\ Goes("connect") /\ UnmovedByTask
    /\ IF flow.closeReq THEN Becomes(CloseFlow(s)) ELSE UNCHANGED transport

Free(t) == CHOOSE i \in 1..Conns : t.conns[i] = NoSocket

PrepareConnect ==
    /\ TaskStep("connect") /\ UnmovedByTask
    /\ LET t == CloseFlow(s)
           dialling == [t EXCEPT !.flow.conning = Free(t),
                                 !.conns[Free(t)] = [NoSocket EXCEPT !.st = "dialling",
                                                                     !.peer = flow.target]]
       IN  IF ~ flow.connectReq THEN Goes("select") /\ UNCHANGED transport
           ELSE \/ Becomes(dialling) /\ Goes("requested")
                \/ Loses(t, "select")

\* connect() is in progress: the request has been taken up.
ConnectBegun ==
    /\ TaskStep("requested") /\ Goes("select") /\ UnmovedByTask
    /\ Becomes([s EXCEPT !.flow.connectReq = FALSE])

Deadline == flow.conning # 0 /\ conns[flow.conning].st = "late"

\* select, with what it finds ready; a datagram is met here.
Ready(udp) ==
    [wake |-> wake,
     conn |-> IF flow.conning # 0 /\ conns[flow.conning].st \in {"open", "refused"}
              THEN flow.conning ELSE 0,
     accept |-> backlog # 0,
     udp |-> udp,
     sock |-> IF flow.sock # 0 /\ (conns[flow.sock].inbox # <<>> \/ conns[flow.sock].st = "gone")
              THEN flow.sock ELSE 0]

Select ==
    /\ TaskStep("select") /\ ~ Deadline
    /\ \E udp \in {NoMessage} \cup (IF inputs > 0 THEN MaySay(udpSent) ELSE {}) :
            /\ Ready(udp) # NoReady
            /\ task' = [task EXCEPT !.at = "write", !.ready = Ready(udp)]
            /\ inputs' = IF udp = NoMessage THEN inputs ELSE inputs - 1
    /\ Becomes([s EXCEPT !.wake = FALSE])
    /\ UNCHANGED <<backlog, events>>

ConnectExpired ==
    /\ TaskStep("select") /\ Deadline /\ UnmovedByTask
    /\ Loses(s, "close")

\* The deadline of an INVITE, a CANCEL or a BYE passes unanswered.
TransactionExpires ==
    /\ TaskStep("select") /\ (dlg.out \/ dlg.term) /\ GoesAnew
    /\ Becomes(ResetDialog(s))
    /\ events' = Append(events, [kind |-> "ended", call |-> dlg.call, lost |-> None])
    /\ UNCHANGED <<backlog, inputs>>

ConnectResolved ==
    /\ TaskStep("write") /\ UnmovedByTask
    /\ IF task.ready.conn = 0 THEN Goes("accept") /\ UNCHANGED transport
       ELSE IF conns[flow.conning].st = "refused" THEN Loses(s, "accept")
       ELSE \E r \in Promotes(s) : IF r[1] THEN Becomes(r[2]) /\ Goes("accept")
                                          ELSE Loses(r[2], "accept")

\* is_active() and can_accept_session_ of VoipStack
CallActive == main.at # "idle"
MayAccept == main.at # "call"

\* Mutant: The listener asks for the INVITE only.
RefusesAcceptOfInvite ==
    \/ dlg.out /\ (~ tcp \/ flow.sock # 0 \/ flow.conning # 0 \/ flow.connectReq)
    \/ ~ MayAccept /\ flow.sock = 0

RefusesAccept ==
    \/ Owned(s) /\ (~ tcp \/ flow.sock # 0 \/ flow.conning # 0 \/ flow.connectReq)
    \/ CallActive /\ flow.sock # 0 /\ conns[flow.sock].peer # conns[backlog].peer
    \/ ~ MayAccept /\ flow.sock = 0

\* Who owns the transport is looked up before the connection is taken over.
AcceptChecked ==
    /\ TaskStep("accept") /\ UNCHANGED <<events, inputs>>
    /\ IF ~ task.ready.accept THEN Goes("udp") /\ UNCHANGED <<transport, backlog>>
       ELSE IF RefusesAccept
       THEN /\ GoesAnew /\ backlog' = 0
            /\ Becomes([s EXCEPT !.conns[backlog] = NoSocket])
       ELSE Goes("accepting") /\ UNCHANGED <<transport, backlog>>

Accept ==
    /\ TaskStep("accepting") /\ Goes("udp") /\ backlog' = 0
    /\ Becomes([CloseFlow(s) EXCEPT !.flow.sock = backlog, !.tcp = TRUE])
    /\ UNCHANGED <<events, inputs>>

\* A datagram is ignored while a TCP session is active, and replaces an idle one.
UdpChecked ==
    /\ TaskStep("udp") /\ UNCHANGED transport /\ UnmovedByTask
    /\ Goes(IF \/ task.ready.udp = NoMessage
               \/ Owned(s) /\ tcp /\ (flow.sock # 0 \/ flow.conning # 0 \/ flow.connectReq)
            THEN "stream" ELSE "replace")

UdpReplaces ==
    /\ TaskStep("replace") /\ Goes("datagram") /\ UnmovedByTask
    /\ Becomes([(IF flow.sock # 0 THEN CloseFlow(s) ELSE s) EXCEPT !.tcp = FALSE])

Dispatched(t, m, next) ==
    \E d \in Dispatch(t, m) : /\ Becomes(d[1]) /\ events' = events \o d[2] /\ Goes(next)

UdpDispatched ==
    /\ TaskStep("datagram") /\ UNCHANGED <<backlog, inputs>>
    /\ Dispatched(s, task.ready.udp, "stream")

\* handle_sip_stream_: everything that has arrived is read, then cut into messages.
StreamRead ==
    /\ TaskStep("stream") /\ UnmovedByTask
    /\ LET i == flow.sock
           got == flow.rx \o conns[i].inbox
       IN  IF i = 0 \/ i # task.ready.sock THEN GoesAnew /\ UNCHANGED transport
           ELSE IF Len(got) > MaxRx THEN Loses(s, "close")
           ELSE /\ Becomes([s EXCEPT !.flow.rx = got, !.conns[i].inbox = <<>>])
                /\ task' = [task EXCEPT !.at = "frame", !.eof = conns[i].st = "gone"]

Framed ==
    /\ TaskStep("frame") /\ UNCHANGED <<backlog, inputs>>
    /\ LET whole == Len(flow.rx) >= 2
       IN  IF flow.sock # task.ready.sock \/ (~ whole /\ flow.rx = <<>> /\ ~ task.eof)
           THEN GoesAnew /\ UNCHANGED <<transport, events>>
           ELSE IF flow.rx # <<>> /\ Head(flow.rx).m.kind = "junk"
           THEN Loses(s, "close") /\ UNCHANGED events
           ELSE IF whole
           THEN Dispatched([s EXCEPT !.flow.rx = SubSeq(@, 3, Len(@))], flow.rx[2].m, "frame")
           ELSE IF task.eof THEN Loses(s, "close") /\ UNCHANGED events
           ELSE GoesAnew /\ UNCHANGED <<transport, events>>

-----------------------------------------------------------------------------
(* The network.                                                             *)

Network == UNCHANGED <<flow, tcp, dlg, wake, wire, udpSent, retracted, task, main, events>>

ConnectEnds(how) ==
    /\ flow.conning # 0 /\ conns[flow.conning].st = "dialling"
    /\ conns' = [conns EXCEPT ![flow.conning].st = how]
    /\ UNCHANGED <<backlog, inputs>> /\ Network

Spends == inputs > 0 /\ inputs' = inputs - 1

PeerConnects(p) ==
    /\ backlog = 0 /\ Cardinality({i \in 1..Conns : conns[i] = NoSocket}) > 1 /\ Spends
    /\ backlog' = Free(s)
    /\ conns' = [conns EXCEPT ![Free(s)] = [NoSocket EXCEPT !.st = "open", !.peer = p]]
    /\ Network

PeerCloses(i) ==
    /\ conns[i].st = "open" /\ Spends
    /\ conns' = [conns EXCEPT ![i].st = "gone"] /\ UNCHANGED backlog /\ Network

Piece(i, m, part) == [conn |-> i, m |-> m, part |-> part]

\* The first half of a message arrives; the rest follows when it follows.
PeerWrites(i) ==
    /\ conns[i].st = "open" /\ conns[i].half = NoMessage /\ Spends
    /\ \E m \in MaySay({c \in Calls : <<c, conns[i].peer>> \in wire}) \cup {Record("junk", In)} :
            conns' = [conns EXCEPT ![i].inbox = Append(@, Piece(i, m, 1)), ![i].half = m]
    /\ UNCHANGED backlog /\ Network

PeerFinishes(i) ==
    /\ conns[i].st = "open" /\ conns[i].half # NoMessage
    /\ conns' = [conns EXCEPT ![i].inbox = Append(@, Piece(i, conns[i].half, 2)),
                              ![i].half = NoMessage]
    /\ UNCHANGED <<backlog, inputs>> /\ Network

-----------------------------------------------------------------------------
MainNext ==
    \/ \E p \in Peers, t \in BOOLEAN : Dial(p, t)
    \/ Originate \/ RequestConnect \/ Invite \/ HangUp \/ HandleEvent

TaskNext ==
    \/ PrepareClose \/ PrepareConnect \/ ConnectBegun
    \/ Select \/ ConnectExpired \/ TransactionExpires
    \/ ConnectResolved \/ AcceptChecked \/ Accept
    \/ UdpChecked \/ UdpReplaces \/ UdpDispatched
    \/ StreamRead \/ Framed
    \/ \E next \in {"close", "select", "accept"} : Tell(next)

NetworkNext ==
    \/ \E how \in {"open", "refused", "late"} : ConnectEnds(how)
    \/ \E p \in Peers : PeerConnects(p)
    \/ \E i \in 1..Conns : PeerCloses(i) \/ PeerWrites(i) \/ PeerFinishes(i)

Next == MainNext \/ TaskNext \/ NetworkNext

Spec == Init /\ [][Next]_vars

(* Properties.                                                              *)

Symmetry == Permutations(Peers)

Messages == [kind : {"INVITE", "response", "CANCEL", "BYE", "invite", "probe", "answer",
                     "refuse", "bye", "done", "junk"}, call : Calls] \cup {NoMessage}
Pieces == [conn : 1..Conns, m : Messages, part : {1, 2}]
FlowRecord == [sock : 0..Conns, conning : 0..Conns, closeReq : BOOLEAN, connectReq : BOOLEAN,
               target : Peers \cup {"none"}, pending : Messages, rx : Seq(Pieces)]
DialogRecord == [call : Calls \cup {None}, out : BOOLEAN, media : BOOLEAN, term : BOOLEAN]
SocketRecord == [st : {"free", "dialling", "open", "refused", "late", "gone"},
                 peer : Peers \cup {"none"}, inbox : Seq(Pieces), half : Messages]
Transports == [flow : FlowRecord, tcp : BOOLEAN, dlg : DialogRecord,
               conns : [1..Conns -> SocketRecord], wake : BOOLEAN,
               wire : SUBSET (Calls \X Peers), udpSent : SUBSET Calls,
               retracted : SUBSET Calls]
ReadyRecord == [wake : BOOLEAN, conn : 0..Conns, accept : BOOLEAN, udp : Messages,
                sock : 0..Conns]
TaskRecord == [at : {"close", "connect", "requested", "select", "write", "accept", "accepting",
                     "udp", "replace", "datagram", "stream", "frame"}
                    \cup {Telling[next] : next \in DOMAIN Telling},
               ready : ReadyRecord, eof : BOOLEAN, lost : Calls \cup {None}]
MainRecord == [at : {"idle", "originate", "request", "invite", "calling", "call"},
               call : Calls \cup {None}, peer : Peers \cup {"none"}, dialled : 0..Dials]
Signals == [kind : {"incoming", "answered", "ended"}, call : Calls, lost : {None}] \cup
           [kind : {"gone"}, call : Calls \cup {None}, lost : Calls \cup {None}]

\* Every socket that exists is held by the flow, which dials only when it has no
\* connection, or waits in the listener, which leaves one for the flow.
SocketsAreHeld(t, b) ==
    /\ \A i \in 1..Conns :
          IF i \in {t.flow.sock, t.flow.conning, b}
          THEN t.conns[i].st # "free" /\ t.conns[i].peer \in Peers
          ELSE t.conns[i] = NoSocket
    /\ t.flow.conning # 0 => t.flow.sock = 0
    /\ b # 0 => b \notin {t.flow.sock, t.flow.conning} /\ Conns > 1

TypeOK ==
    /\ s \in Transports /\ Len(flow.rx) <= MaxRx
    /\ backlog \in 0..Conns /\ SocketsAreHeld(s, backlog)
    /\ task \in TaskRecord /\ main \in MainRecord
    /\ events \in Seq(Signals) /\ inputs \in 0..Inputs

\* An INVITE that was taken back out of the pre-connect slot, by a CANCEL, a
\* reset or a loss, is never received by a peer, whatever the connect does.
RetractedStaysUnsent ==
    \A c \in retracted : ~ \E p \in Peers : <<c, p>> \in wire

\* Messages are cut at their own boundaries: rx_buffer holds pieces of the one
\* connection that exists, first halves in the odd places.
FramesAreWhole ==
    \A k \in DOMAIN flow.rx :
        flow.rx[k].conn = flow.sock /\ flow.rx[k].part = IF k % 2 = 1 THEN 1 ELSE 2

\* What is read and what is written each belong to one connection and one call,
\* however often the flow was replaced, retracted or lost in between.
FlowInv == TypeOK /\ RetractedStaysUnsent /\ FramesAreWhole

\* A call of the main loop whose dialog is gone has been told so, or will be.
LossIsTold ==
    main.at \in {"calling", "call"} /\ dlg.call # main.call
        => (\E k \in DOMAIN events : events[k].call = main.call) \/ task.lost # None

\* A connection that is accepted, or a datagram, never takes the connection of
\* an established TCP call away from it.
CallKeepsConnection ==
    [][ task.at \in {"accepting", "replace"} /\ task' # task /\ tcp /\ dlg.media
            => flow'.sock = flow.sock /\ tcp' ]_vars

\* While the transport owns an INVITE, a dialog or a terminal transaction, an
\* accepted connection does not change the selected signalling transport.
OwnedTransportIsFrozen ==
    [][ task.at = "accepting" /\ task' # task /\ Owned(s) => tcp' = tcp ]_vars

-----------------------------------------------------------------------------
(* What these properties rest on.                                           *)

\* The pieces that are read of a socket, then those on their way, are the halves
\* of whole messages in turn; a half is missing where their number is odd.
HalfOf(k) == IF k % 2 = 1 THEN 1 ELSE 2
ReadOf(t, i) == IF i = t.flow.sock THEN Len(t.flow.rx) ELSE 0
ReadInOrder(t) ==
    \A k \in DOMAIN t.flow.rx :
        t.flow.rx[k].conn = t.flow.sock /\ t.flow.rx[k].part = HalfOf(k)
SocketInOrder(c, i, read) ==
    /\ \A k \in DOMAIN c.inbox : c.inbox[k].conn = i /\ c.inbox[k].part = HalfOf(read + k)
    /\ c.half = NoMessage <=> HalfOf(read + Len(c.inbox)) = 2
PiecesInOrder(t) ==
    ReadInOrder(t) /\ \A i \in 1..Conns : SocketInOrder(t.conns[i], i, ReadOf(t, i))

\* The INVITE of c has neither been received nor taken back; nor does it wait.
Unheard(t, c) == c \notin t.retracted /\ \A p \in Peers : <<c, p>> \notin t.wire
Unused(t, c) == Unheard(t, c) /\ t.flow.pending # Record("INVITE", c)
WaitsUnheard(t) == \A c \in Calls : t.flow.pending = Record("INVITE", c) => Unheard(t, c)
NotHeardOnceRetracted(t) == \A c \in t.retracted, p \in Peers : <<c, p>> \notin t.wire

\* The call that the main loop is about to place has a peer and a number that
\* nothing has been sent for.
Placing == main.at \in {"originate", "request", "invite"}
CallIsNew ==
    /\ Placing => main.call = main.dialled /\ main.call # In /\ main.peer \in Peers
    /\ main.at = "idle" <=> main.call = None
    /\ \A c \in Calls : c > main.dialled \/ (Placing /\ c = main.call) => Unused(s, c)

\* A connect that is requested has a target; one that is reported is the flow's.
HasTarget(t) == t.flow.connectReq => t.flow.target \in Peers
ReportedIsAwaited == task.at = "write" /\ task.ready.conn # 0 => flow.conning = task.ready.conn

\* A dialog has a call; what tells a loss says that a call ended.
DialogHasCall(t) == t.dlg.call = None => t.dlg = NoDialog
LossHasEvent ==
    main.at \in {"calling", "call"} /\ dlg.call # main.call
        => \/ \E k \in DOMAIN events :
                 events[k].kind \in {"ended", "gone"} /\ events[k].call = main.call
           \/ task.lost # None
TellsItsLoss == task.lost # None => task.at \in {Telling[next] : next \in DOMAIN Telling}

TransportInv(t, b) ==
    /\ t \in Transports /\ Len(t.flow.rx) <= MaxRx /\ SocketsAreHeld(t, b)
    /\ PiecesInOrder(t) /\ WaitsUnheard(t) /\ NotHeardOnceRetracted(t) /\ DialogHasCall(t)
    /\ HasTarget(t)

TcpInv ==
    /\ TypeOK /\ TransportInv(s, backlog) /\ CallIsNew /\ ReportedIsAwaited
    /\ LossHasEvent /\ TellsItsLoss

=============================================================================
