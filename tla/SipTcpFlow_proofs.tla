------------------------ MODULE SipTcpFlow_proofs ------------------------
(***************************************************************************)
(* Proofs about SipTcpFlow, for any peers, any number of calls and sockets  *)
(* and any length of the receive buffer.                                    *)
(*                                                                         *)
(* What the flow does is a function of the transport, so what an operation  *)
(* keeps is stated once, of any transport (Moves); a step of the main loop, *)
(* of the SIP task or of the network is then one or two of those.           *)
(***************************************************************************)
EXTENDS SipTcpFlow, FiniteSetTheorems, SequenceTheorems, TLAPS

\* A call whose INVITE has gone nowhere is still one.
NothingInvited(t, u) == \A c \in Calls : Unused(t, c) => Unused(u, c)

\* What an operation of the flow does at most, but for the dialog.
Moves(t, u, b) == TransportInv(u, b) /\ NothingInvited(t, u)

\* The sockets and what has been read of them are as before.
SameSockets(t, u) ==
    /\ u.conns = t.conns /\ u.flow.sock = t.flow.sock /\ u.flow.conning = t.flow.conning
    /\ u.flow.rx = t.flow.rx

-----------------------------------------------------------------------------
(* Types. *)

\* The fields of a transport have their types.
LEMMA FieldTypes ==
  ASSUME NEW t \in Transports
  PROVE  /\ t.flow \in FlowRecord /\ t.tcp \in BOOLEAN /\ t.dlg \in DialogRecord
         /\ t.conns \in [1..Conns -> SocketRecord] /\ t.wake \in BOOLEAN
         /\ t.wire \subseteq Calls \X Peers /\ t.udpSent \subseteq Calls
         /\ t.retracted \subseteq Calls
         /\ t.flow.sock \in 0..Conns /\ t.flow.conning \in 0..Conns
         /\ t.flow.closeReq \in BOOLEAN /\ t.flow.connectReq \in BOOLEAN
         /\ t.flow.target \in Peers \cup {"none"} /\ t.flow.pending \in Messages
         /\ t.flow.rx \in Seq(Pieces)
         /\ t.dlg.call \in Calls \cup {None} /\ t.dlg.out \in BOOLEAN
         /\ t.dlg.media \in BOOLEAN /\ t.dlg.term \in BOOLEAN
<1>1. /\ t.flow \in FlowRecord /\ t.tcp \in BOOLEAN /\ t.dlg \in DialogRecord
      /\ t.conns \in [1..Conns -> SocketRecord] /\ t.wake \in BOOLEAN
      /\ t.wire \subseteq Calls \X Peers /\ t.udpSent \subseteq Calls
      /\ t.retracted \subseteq Calls
  BY DEF Transports
<1>2. \A f \in FlowRecord :
         /\ f.sock \in 0..Conns /\ f.conning \in 0..Conns
         /\ f.closeReq \in BOOLEAN /\ f.connectReq \in BOOLEAN
         /\ f.target \in Peers \cup {"none"} /\ f.pending \in Messages
         /\ f.rx \in Seq(Pieces)
  BY DEF FlowRecord
<1>3. \A d \in DialogRecord :
         /\ d.call \in Calls \cup {None} /\ d.out \in BOOLEAN
         /\ d.media \in BOOLEAN /\ d.term \in BOOLEAN
  BY DEF DialogRecord
<1> QED
  BY <1>1, <1>2, <1>3

\* Those of a socket have theirs.
LEMMA SocketTypes ==
  ASSUME NEW t \in Transports, NEW i \in 1..Conns
  PROVE  /\ t.conns[i] \in SocketRecord /\ t.conns[i].inbox \in Seq(Pieces)
         /\ t.conns[i].half \in Messages /\ t.conns[i].peer \in Peers \cup {"none"}
         /\ t.conns[i].st \in {"free", "dialling", "open", "refused", "late", "gone"}
<1>1. t.conns[i] \in SocketRecord
  BY FieldTypes
<1> QED
  BY <1>1 DEF SocketRecord

\* No message is none, and a record with a call is a message.
LEMMA MessageTypes ==
  /\ NoMessage \in Messages
  /\ \A c \in Calls, k \in {"INVITE", "response", "CANCEL", "BYE", "invite", "probe", "answer",
                            "refuse", "bye", "done", "junk"} :
        Record(k, c) \in Messages /\ Record(k, c) # NoMessage
  /\ \A m \in Messages : m # NoMessage => m.call \in Calls
  /\ \A m \in Messages, c \in Calls : m.kind = "INVITE" /\ m.call = c <=> m = Record("INVITE", c)
<1>1. \A c \in Calls : Record("INVITE", c).kind = "INVITE" /\ Record("INVITE", c).call = c
  BY DEF Record
<1>2. \A m \in Messages, c \in Calls : m.kind = "INVITE" /\ m.call = c => m = Record("INVITE", c)
  BY DEF Messages, Record, NoMessage
<1> QED
  BY <1>1, <1>2 DEF Messages, Record, NoMessage

\* A dialog there is none of, and a socket there is none of, have the types of both.
LEMMA NothingTypes == NoDialog \in DialogRecord /\ NoSocket \in SocketRecord
<1>1. FALSE \in BOOLEAN
  OBVIOUS
<1>2. None \in Calls \cup {None}
  OBVIOUS
<1>3. NoDialog \in DialogRecord
  BY <1>1, <1>2, Zenon DEF NoDialog, DialogRecord
<1>4. NoSocket \in SocketRecord
  BY MessageTypes, EmptySeq DEF NoSocket, SocketRecord
<1> QED
  BY <1>3, <1>4

\* A transport with another flow, another dialog or other sockets is one.
LEMMA TransportUpdates ==
  ASSUME NEW t \in Transports
  PROVE  /\ \A f \in FlowRecord : [t EXCEPT !.flow = f] \in Transports
         /\ \A d \in DialogRecord : [t EXCEPT !.dlg = d] \in Transports
         /\ \A c \in [1..Conns -> SocketRecord] : [t EXCEPT !.conns = c] \in Transports
         /\ \A b \in BOOLEAN : [t EXCEPT !.tcp = b] \in Transports
         /\ \A b \in BOOLEAN : [t EXCEPT !.wake = b] \in Transports
         /\ \A w \in SUBSET (Calls \X Peers) : [t EXCEPT !.wire = w] \in Transports
         /\ \A c \in SUBSET Calls : [t EXCEPT !.udpSent = c] \in Transports
         /\ \A c \in SUBSET Calls : [t EXCEPT !.retracted = c] \in Transports
BY Zenon DEF Transports

\* A flow with one field changed is a flow.
LEMMA FlowUpdates ==
  ASSUME NEW f \in FlowRecord
  PROVE  /\ \A m \in Messages : [f EXCEPT !.pending = m] \in FlowRecord
         /\ \A b \in BOOLEAN : [f EXCEPT !.closeReq = b] \in FlowRecord
         /\ \A b \in BOOLEAN : [f EXCEPT !.connectReq = b] \in FlowRecord
         /\ \A p \in Peers \cup {"none"} : [f EXCEPT !.target = p] \in FlowRecord
         /\ \A i \in 0..Conns : [f EXCEPT !.sock = i] \in FlowRecord
         /\ \A i \in 0..Conns : [f EXCEPT !.conning = i] \in FlowRecord
         /\ \A r \in Seq(Pieces) : [f EXCEPT !.rx = r] \in FlowRecord
BY Zenon DEF FlowRecord

\* Giving up keeps the sockets; the record that waits is dropped.
LEMMA AbandonType ==
  ASSUME NEW t \in Transports
  PROVE  Abandon(t) \in Transports /\ Forget(t) \in Transports
<1> DEFINE f == [[t.flow EXCEPT !.connectReq = FALSE] EXCEPT !.closeReq = TRUE]
           g == [t.flow EXCEPT !.pending = NoMessage]
           c == IF t.flow.pending.kind = "INVITE" THEN {t.flow.pending.call} ELSE {}
<1>1. f \in FlowRecord /\ g \in FlowRecord
  BY FlowUpdates, FieldTypes, MessageTypes
<1>2. c \subseteq Calls
  BY FieldTypes, MessageTypes DEF NoMessage
<1> HIDE DEF c
<1>3. Abandon(t) = [[t EXCEPT !.flow = f] EXCEPT !.wake = TRUE]
  BY DEF Abandon, Transports, FlowRecord
<1>4. Forget(t) = [[t EXCEPT !.flow = g] EXCEPT !.retracted = t.retracted \cup c]
  BY DEF Forget, Transports, FlowRecord, c
<1> HIDE DEF f, g
<1>5. [t EXCEPT !.flow = f] \in Transports /\ [t EXCEPT !.flow = g] \in Transports
  BY <1>1, TransportUpdates
<1>6. Abandon(t) \in Transports
  BY <1>3, <1>5, TransportUpdates
<1>7. t.retracted \cup c \in SUBSET Calls
  BY <1>2, FieldTypes
<1>8. Forget(t) \in Transports
  BY <1>4, <1>5, <1>7, TransportUpdates
<1> QED
  BY <1>6, <1>8

\* What giving up changes.
LEMMA AbandonFields ==
  ASSUME NEW t \in Transports
  PROVE  /\ SameSockets(t, Abandon(t)) /\ SameSockets(t, Forget(t))
         /\ Abandon(t).dlg = t.dlg /\ Forget(t).dlg = t.dlg
         /\ Abandon(t).tcp = t.tcp /\ Forget(t).tcp = t.tcp
         /\ Abandon(t).wire = t.wire /\ Forget(t).wire = t.wire
         /\ Abandon(t).retracted = t.retracted
         /\ Abandon(t).flow.pending = t.flow.pending /\ Forget(t).flow.pending = NoMessage
         /\ ~ Abandon(t).flow.connectReq /\ Forget(t).flow.connectReq = t.flow.connectReq
         /\ Forget(t).flow.target = t.flow.target
         /\ Forget(t).retracted
              = t.retracted \cup {c \in Calls : t.flow.pending = Record("INVITE", c)}
<1>1. t.flow \in FlowRecord /\ t.flow.pending \in Messages
  BY FieldTypes
<1>2. (IF t.flow.pending.kind = "INVITE" THEN {t.flow.pending.call} ELSE {})
         = {c \in Calls : t.flow.pending = Record("INVITE", c)}
  BY <1>1, MessageTypes DEF NoMessage
<1> QED
  BY <1>1, <1>2 DEF Abandon, Forget, SameSockets, Transports, FlowRecord

-----------------------------------------------------------------------------
(* What the parts of the invariant rest on. *)

\* The parts about sockets and pieces look at those only.
LEMMA SameSocketsKept ==
  ASSUME NEW t, NEW u, NEW b, SameSockets(t, u)
  PROVE  /\ SocketsAreHeld(t, b) => SocketsAreHeld(u, b)
         /\ PiecesInOrder(t) => PiecesInOrder(u)
         /\ Len(t.flow.rx) <= MaxRx => Len(u.flow.rx) <= MaxRx
<1>1. SocketsAreHeld(t, b) => SocketsAreHeld(u, b)
  BY DEF SameSockets, SocketsAreHeld
<1>2. ReadInOrder(t) => ReadInOrder(u)
  BY DEF SameSockets, ReadInOrder
<1>3. \A i : ReadOf(u, i) = ReadOf(t, i)
  BY DEF SameSockets, ReadOf
<1>4. PiecesInOrder(t) => PiecesInOrder(u)
  BY <1>2, <1>3 DEF SameSockets, PiecesInOrder
<1> QED
  BY <1>1, <1>4 DEF SameSockets

\* No INVITE is written, and none waits that did not: then none is lost track of.
LEMMA NoNewInvite ==
  ASSUME NEW t \in Transports, NEW u \in Transports,
         WaitsUnheard(t), NotHeardOnceRetracted(t), u.wire = t.wire,
         \A c \in Calls : u.flow.pending = Record("INVITE", c)
              => t.flow.pending = Record("INVITE", c) /\ c \notin u.retracted \ t.retracted,
         \A c \in u.retracted : c \in t.retracted \/ t.flow.pending = Record("INVITE", c)
  PROVE  WaitsUnheard(u) /\ NotHeardOnceRetracted(u) /\ NothingInvited(t, u)
<1> USE DEF WaitsUnheard, NotHeardOnceRetracted, Unheard
<1>1. WaitsUnheard(u)
  OBVIOUS
<1>2. NotHeardOnceRetracted(u)
  <2>1. u.retracted \subseteq Calls
    BY FieldTypes
  <2> QED
    BY <2>1
<1>3. NothingInvited(t, u)
  BY DEF NothingInvited, Unused
<1> QED
  BY <1>1, <1>2, <1>3

\* Moves that follow one another are a move.
LEMMA MovesOn ==
  ASSUME NEW t, NEW u, NEW v, NEW b, Moves(t, u, b), Moves(u, v, b)
  PROVE  Moves(t, v, b)
BY DEF Moves, NothingInvited

\* Nothing done is one of the things that may be done.
LEMMA StayMoves ==
  ASSUME NEW t, NEW b, TransportInv(t, b)
  PROVE  Moves(t, t, b)
BY DEF Moves, NothingInvited

\* An operation that leaves sockets, dialog and wire alone.
LEMMA FlagMoves ==
  ASSUME NEW t, NEW u \in Transports, NEW b, TransportInv(t, b),
         SameSockets(t, u), u.dlg = t.dlg, u.wire = t.wire, HasTarget(u),
         \A c \in Calls : u.flow.pending = Record("INVITE", c)
              => t.flow.pending = Record("INVITE", c) /\ c \notin u.retracted \ t.retracted,
         \A c \in u.retracted : c \in t.retracted \/ t.flow.pending = Record("INVITE", c)
  PROVE  Moves(t, u, b)
BY SameSocketsKept, NoNewInvite DEF Moves, TransportInv, DialogHasCall

\* Giving the flow up, or dropping its record, is another.
LEMMA GivingUpMoves ==
  ASSUME NEW t, NEW b, TransportInv(t, b)
  PROVE  Moves(t, Abandon(t), b) /\ Moves(t, Forget(t), b)
<1> t \in Transports
  BY DEF TransportInv
<1>1. \A c \in Calls : NoMessage # Record("INVITE", c)
  BY MessageTypes
<1>2. HasTarget(Abandon(t)) /\ HasTarget(Forget(t))
  BY AbandonFields DEF HasTarget, TransportInv
<1> QED
  BY <1>1, <1>2, AbandonType, AbandonFields, FlagMoves

-----------------------------------------------------------------------------
(* Connections that end. *)

\* One socket that is held has gone on, with its pieces still in order.
LEMMA SocketMoves ==
  ASSUME NEW t, NEW b, TransportInv(t, b), NEW i \in 1..Conns,
         i \in {t.flow.sock, t.flow.conning, b}, NEW c \in SocketRecord,
         c.st # "free", c.peer = t.conns[i].peer, SocketInOrder(c, i, ReadOf(t, i))
  PROVE  /\ Moves(t, [t EXCEPT !.conns = [t.conns EXCEPT ![i] = c]], b)
         /\ [t EXCEPT !.conns = [t.conns EXCEPT ![i] = c]].dlg = t.dlg
         /\ [t EXCEPT !.conns = [t.conns EXCEPT ![i] = c]].flow = t.flow
<1> DEFINE u == [t EXCEPT !.conns = [t.conns EXCEPT ![i] = c]]
<1>1. t \in Transports /\ t.conns \in [1..Conns -> SocketRecord]
  BY FieldTypes DEF TransportInv
<1>2. [t.conns EXCEPT ![i] = c] \in [1..Conns -> SocketRecord]
  BY <1>1
<1>3. u \in Transports
  BY <1>1, <1>2, TransportUpdates
<1>4. u.conns = [t.conns EXCEPT ![i] = c] /\ u.flow = t.flow /\ u.dlg = t.dlg
        /\ u.wire = t.wire /\ u.retracted = t.retracted
  BY <1>1 DEF Transports
<1> HIDE DEF u
<1>5. u.conns[i] = c /\ \A j \in 1..Conns : j # i => u.conns[j] = t.conns[j]
  BY <1>1, <1>4
<1>6. SocketsAreHeld(u, b)
  <2>1. SocketsAreHeld(t, b)
    BY DEF TransportInv
  <2>2. c.peer \in Peers
    BY <2>1 DEF SocketsAreHeld
  <2> QED
    BY <1>4, <1>5, <2>1, <2>2 DEF SocketsAreHeld
<1>7. PiecesInOrder(u)
  <2>1. ReadInOrder(u) /\ \A j : ReadOf(u, j) = ReadOf(t, j)
    BY <1>4 DEF TransportInv, PiecesInOrder, ReadInOrder, ReadOf
  <2>2. \A j \in 1..Conns : SocketInOrder(t.conns[j], j, ReadOf(t, j))
    BY DEF TransportInv, PiecesInOrder
  <2>3. ASSUME NEW j \in 1..Conns PROVE SocketInOrder(u.conns[j], j, ReadOf(u, j))
    <3>1. CASE j = i
      BY <1>5, <2>1, <3>1
    <3>2. CASE j # i
      BY <1>5, <2>1, <2>2, <3>2
    <3> QED
      BY <3>1, <3>2
  <2> QED
    BY <2>1, <2>3 DEF PiecesInOrder
<1>8. WaitsUnheard(u) /\ NotHeardOnceRetracted(u) /\ NothingInvited(t, u)
  BY <1>1, <1>3, <1>4, NoNewInvite DEF TransportInv
<1> QED
  BY <1>3, <1>4, <1>6, <1>7, <1>8 DEF Moves, TransportInv, DialogHasCall, HasTarget, u

\* A connection that is shut down: what has arrived is still to be read.
LEMMA ShutMoves ==
  ASSUME NEW t, NEW b, TransportInv(t, b), NEW i \in 1..Conns,
         i \in {t.flow.sock, t.flow.conning, b}
  PROVE  /\ Moves(t, [t EXCEPT !.conns = Shut(@, i)], b)
         /\ [t EXCEPT !.conns = Shut(@, i)].dlg = t.dlg
         /\ [t EXCEPT !.conns = Shut(@, i)].flow = t.flow
<1> DEFINE c == [t.conns[i] EXCEPT !.st = "gone"]
<1>1. t \in Transports /\ t.conns[i] \in SocketRecord
  BY SocketTypes DEF TransportInv
<1>2. c \in SocketRecord
  BY <1>1 DEF SocketRecord
<1>3. c.st = "gone" /\ c.peer = t.conns[i].peer /\ c.inbox = t.conns[i].inbox
        /\ c.half = t.conns[i].half
  BY <1>1 DEF SocketRecord
<1>4. Shut(t.conns, i) = [t.conns EXCEPT ![i] = c]
  BY DEF Shut
<1> HIDE DEF c
<1>5. SocketInOrder(c, i, ReadOf(t, i))
  BY <1>3 DEF TransportInv, PiecesInOrder, SocketInOrder
<1> QED
  BY <1>2, <1>3, <1>4, <1>5, SocketMoves

\* request_tcp_client_close_
LEMMA RequestCloseMoves ==
  ASSUME NEW t, NEW b, TransportInv(t, b)
  PROVE  /\ Moves(t, RequestClose(t), b) /\ RequestClose(t).dlg = t.dlg
         /\ ~ RequestClose(t).flow.connectReq
<1> DEFINE u == Abandon(Forget(t))
<1>1. /\ Moves(t, Forget(t), b) /\ Forget(t).dlg = t.dlg
      /\ Forget(t).flow.sock = t.flow.sock /\ t \in Transports
  BY GivingUpMoves, AbandonFields DEF TransportInv, SameSockets
<1>2. /\ Moves(Forget(t), u, b) /\ u.dlg = t.dlg /\ u.flow.sock = t.flow.sock
      /\ u \in Transports /\ ~ u.flow.connectReq
  BY <1>1, GivingUpMoves, AbandonFields, AbandonType DEF Moves, TransportInv, SameSockets
<1>3. Moves(t, u, b)
  BY <1>1, <1>2, MovesOn
<1> HIDE DEF u
<1>4. CASE t.flow.sock = 0
  <2>1. RequestClose(t) = [u EXCEPT !.conns = u.conns]
    BY <1>4 DEF RequestClose, u
  <2>2. [u EXCEPT !.conns = u.conns] = u
    BY <1>2 DEF Transports
  <2> QED
    BY <1>2, <1>3, <2>1, <2>2
<1>5. CASE t.flow.sock # 0
  <2>1. RequestClose(t) = [u EXCEPT !.conns = Shut(u.conns, u.flow.sock)]
    BY <1>2, <1>5 DEF RequestClose, u
  <2>2. u.flow.sock \in 1..Conns
    BY <1>2, <1>5, FieldTypes
  <2>3. RequestClose(t).flow = u.flow
    BY <1>2, <2>1 DEF Transports
  <2> QED
    BY <1>2, <1>3, <2>1, <2>2, <2>3, ShutMoves, MovesOn DEF Moves
<1> QED
  BY <1>4, <1>5

\* A socket there is none of has nothing on its way; nor has one that has just come.
LEMMA FreshSocketInOrder ==
  ASSUME NEW i, NEW c, c.inbox = <<>>, c.half = NoMessage
  PROVE  SocketInOrder(c, i, 0)
BY DEF SocketInOrder, HalfOf

\* What close_tcp_flow_ does to the transport.
LEMMA CloseFlowFields ==
  ASSUME NEW t \in Transports
  PROVE  /\ CloseFlow(t) \in Transports
         /\ CloseFlow(t).flow.sock = 0 /\ CloseFlow(t).flow.conning = 0
         /\ CloseFlow(t).flow.rx = <<>> /\ ~ CloseFlow(t).flow.closeReq
         /\ CloseFlow(t).flow.pending = t.flow.pending
         /\ CloseFlow(t).flow.connectReq = t.flow.connectReq
         /\ CloseFlow(t).flow.target = t.flow.target
         /\ CloseFlow(t).tcp = t.tcp /\ CloseFlow(t).dlg = t.dlg
         /\ CloseFlow(t).wire = t.wire /\ CloseFlow(t).retracted = t.retracted
         /\ \A i \in 1..Conns :
               CloseFlow(t).conns[i] = IF i \in {t.flow.sock, t.flow.conning} THEN NoSocket
                                                                      ELSE t.conns[i]
<1> DEFINE f == [[[[t.flow EXCEPT !.sock = 0] EXCEPT !.conning = 0] EXCEPT !.closeReq = FALSE]
                      EXCEPT !.rx = <<>>]
           c == [i \in 1..Conns |->
                   IF i \in {t.flow.sock, t.flow.conning} THEN NoSocket ELSE t.conns[i]]
<1>1. t.flow \in FlowRecord /\ t.conns \in [1..Conns -> SocketRecord] /\ 0 \in 0..Conns
  BY FieldTypes, TcpAssumption
<1>2. f \in FlowRecord
  <2>1. [t.flow EXCEPT !.sock = 0] \in FlowRecord
    BY <1>1, FlowUpdates
  <2>2. [[t.flow EXCEPT !.sock = 0] EXCEPT !.conning = 0] \in FlowRecord
    BY <1>1, <2>1, FlowUpdates
  <2>3. [[[t.flow EXCEPT !.sock = 0] EXCEPT !.conning = 0] EXCEPT !.closeReq = FALSE]
           \in FlowRecord
    BY <2>2, FlowUpdates
  <2> QED
    BY <2>3, FlowUpdates, EmptySeq
<1>3. c \in [1..Conns -> SocketRecord]
  BY <1>1, NothingTypes
<1>4. CloseFlow(t) = [[t EXCEPT !.flow = f] EXCEPT !.conns = c]
  BY DEF CloseFlow, Transports, FlowRecord
<1>5. f.sock = 0 /\ f.conning = 0 /\ f.rx = <<>> /\ f.closeReq = FALSE
        /\ f.pending = t.flow.pending /\ f.connectReq = t.flow.connectReq
        /\ f.target = t.flow.target
  BY <1>1 DEF FlowRecord
<1>6. \A i \in 1..Conns : c[i] = IF i \in {t.flow.sock, t.flow.conning} THEN NoSocket
                                                                   ELSE t.conns[i]
  OBVIOUS
<1> HIDE DEF f, c
<1>7. CloseFlow(t) \in Transports
  <2>1. [t EXCEPT !.flow = f] \in Transports
    BY <1>2, TransportUpdates
  <2> QED
    BY <1>3, <1>4, <2>1, TransportUpdates
<1>8. /\ CloseFlow(t).flow = f /\ CloseFlow(t).conns = c /\ CloseFlow(t).dlg = t.dlg
      /\ CloseFlow(t).tcp = t.tcp /\ CloseFlow(t).wire = t.wire
      /\ CloseFlow(t).retracted = t.retracted
  BY <1>4 DEF Transports
<1> QED
  BY <1>5, <1>6, <1>7, <1>8

\* close_tcp_flow_
LEMMA CloseFlowMoves ==
  ASSUME NEW t, NEW b, TransportInv(t, b)
  PROVE  Moves(t, CloseFlow(t), b)
<1> DEFINE u == CloseFlow(t)
<1>1. t \in Transports
  BY DEF TransportInv
<1>2. /\ u \in Transports /\ u.flow.sock = 0 /\ u.flow.conning = 0 /\ u.flow.rx = <<>>
      /\ u.flow.pending = t.flow.pending /\ u.dlg = t.dlg
      /\ u.flow.connectReq = t.flow.connectReq /\ u.flow.target = t.flow.target
      /\ u.wire = t.wire /\ u.retracted = t.retracted
      /\ \A i \in 1..Conns :
            u.conns[i] = IF i \in {t.flow.sock, t.flow.conning} THEN NoSocket ELSE t.conns[i]
  BY <1>1, CloseFlowFields
<1> HIDE DEF u
<1>3. SocketsAreHeld(t, b)
  BY DEF TransportInv
<1>4. SocketsAreHeld(u, b)
  BY <1>2, <1>3 DEF SocketsAreHeld
<1>5. PiecesInOrder(u)
  <2>1. ReadInOrder(u) /\ \A i \in 1..Conns : ReadOf(u, i) = 0
    BY <1>2 DEF ReadInOrder, ReadOf
  <2>2. ASSUME NEW i \in 1..Conns PROVE SocketInOrder(u.conns[i], i, 0)
    <3>1. CASE i \in {t.flow.sock, t.flow.conning}
      <4>1. u.conns[i] = NoSocket
        BY <1>2, <3>1
      <4>2. NoSocket.inbox = <<>> /\ NoSocket.half = NoMessage
        BY DEF NoSocket
      <4> QED
        BY <4>1, <4>2, FreshSocketInOrder
    <3>2. CASE i \notin {t.flow.sock, t.flow.conning}
      <4>1. SocketInOrder(t.conns[i], i, 0)
        BY <3>2 DEF TransportInv, PiecesInOrder, ReadOf
      <4> QED
        BY <1>2, <3>2, <4>1
    <3> QED
      BY <3>1, <3>2
  <2> QED
    BY <2>1, <2>2 DEF PiecesInOrder
<1>6. WaitsUnheard(u) /\ NotHeardOnceRetracted(u) /\ NothingInvited(t, u)
  BY <1>1, <1>2, NoNewInvite DEF TransportInv
<1>7. Len(u.flow.rx) <= MaxRx
  BY <1>2, TcpAssumption
<1> QED
  BY <1>2, <1>4, <1>5, <1>6, <1>7 DEF Moves, TransportInv, DialogHasCall, HasTarget, u

-----------------------------------------------------------------------------
(* Dialogs that begin and end. *)

\* Another dialog on the same transport.
LEMMA DialogMoves ==
  ASSUME NEW t, NEW b, TransportInv(t, b), NEW d \in DialogRecord,
         d.call = None => d = NoDialog
  PROVE  /\ Moves(t, [t EXCEPT !.dlg = d], b) /\ [t EXCEPT !.dlg = d].dlg = d
         /\ [t EXCEPT !.dlg = d].flow = t.flow /\ [t EXCEPT !.dlg = d].tcp = t.tcp
<1> DEFINE u == [t EXCEPT !.dlg = d]
<1>1. t \in Transports
  BY DEF TransportInv
<1>2. u \in Transports
  BY <1>1, TransportUpdates
<1>3. u.flow = t.flow /\ u.conns = t.conns /\ u.wire = t.wire /\ u.retracted = t.retracted
        /\ u.dlg = d /\ u.tcp = t.tcp
  BY <1>1 DEF Transports
<1> HIDE DEF u
<1>4. SameSockets(t, u)
  BY <1>3 DEF SameSockets
<1>5. WaitsUnheard(u) /\ NotHeardOnceRetracted(u) /\ NothingInvited(t, u)
  BY <1>1, <1>2, <1>3, NoNewInvite DEF TransportInv
<1>6. Moves(t, u, b)
  BY <1>2, <1>3, <1>4, <1>5, SameSocketsKept
     DEF Moves, TransportInv, DialogHasCall, HasTarget
<1> QED
  BY <1>3, <1>6 DEF u

\* reset_dialog_
LEMMA ResetMoves ==
  ASSUME NEW t, NEW b, TransportInv(t, b)
  PROVE  Moves(t, ResetDialog(t), b) /\ ResetDialog(t).dlg = NoDialog
<1>1. NoDialog \in DialogRecord
  BY NothingTypes
<1>2. \A u : TransportInv(u, b) => Moves(u, [u EXCEPT !.dlg = NoDialog], b)
                                    /\ [u EXCEPT !.dlg = NoDialog].dlg = NoDialog
  BY <1>1, DialogMoves
<1>3. CASE t.flow.pending = NoMessage
  BY <1>2, <1>3 DEF ResetDialog
<1>4. CASE t.flow.pending # NoMessage
  <2> DEFINE f == Forget(t)
             u == Abandon(f)
  <2>1. Moves(t, f, b)
    BY GivingUpMoves
  <2>2. Moves(f, u, b)
    BY <2>1, GivingUpMoves DEF Moves
  <2>3. Moves(t, u, b)
    BY <2>1, <2>2, MovesOn
  <2>4. ResetDialog(t) = [u EXCEPT !.dlg = NoDialog]
    BY <1>4 DEF ResetDialog
  <2> HIDE DEF u
  <2> QED
    BY <1>2, <2>3, <2>4, MovesOn DEF Moves
<1> QED
  BY <1>3, <1>4

\* close_tcp_dialog_: the record that waits is dropped, and a dialog over TCP goes.
LEMMA CloseDialogMoves ==
  ASSUME NEW t, NEW b, TransportInv(t, b)
  PROVE  /\ Moves(t, CloseDialog(t), b)
         /\ CloseDialog(t).dlg = IF LosesDialog(t) THEN NoDialog ELSE t.dlg
         /\ ~ CloseDialog(t).flow.connectReq
<1> DEFINE c == CloseFlow(t)
           u == Forget(c)
           d == IF LosesDialog(t) THEN NoDialog ELSE t.dlg
           v == [[u EXCEPT !.flow = [u.flow EXCEPT !.connectReq = FALSE]] EXCEPT !.tcp = FALSE]
<1>1. Moves(t, c, b) /\ c.dlg = t.dlg
  BY CloseFlowMoves, CloseFlowFields DEF TransportInv
<1>2. Moves(c, u, b) /\ u.dlg = c.dlg
  BY <1>1, GivingUpMoves, AbandonFields DEF Moves, TransportInv
<1>3. Moves(t, u, b)
  BY <1>1, <1>2, MovesOn
<1> HIDE DEF u
<1>4. u \in Transports /\ u.flow \in FlowRecord /\ TransportInv(u, b)
  BY <1>3, FieldTypes DEF Moves, TransportInv
<1>5. v \in Transports
  BY <1>4, TransportUpdates, FlowUpdates
<1>6. /\ v.conns = u.conns /\ v.dlg = u.dlg /\ v.wire = u.wire /\ v.retracted = u.retracted
      /\ v.flow.sock = u.flow.sock /\ v.flow.conning = u.flow.conning
      /\ v.flow.rx = u.flow.rx /\ v.flow.pending = u.flow.pending
      /\ ~ v.flow.connectReq
  BY <1>4 DEF Transports, FlowRecord
<1>7. CloseDialog(t) = [v EXCEPT !.dlg = d]
  <2>1. u.dlg = t.dlg
    BY <1>1, <1>2
  <2> QED
    BY <1>4, <2>1 DEF CloseDialog, u, Transports, FlowRecord
<1> HIDE DEF v
<1>8. Moves(u, v, b)
  BY <1>4, <1>5, <1>6, FlagMoves DEF SameSockets, HasTarget
<1>9. d \in DialogRecord /\ (d.call = None => d = NoDialog)
  BY NothingTypes, FieldTypes DEF TransportInv, DialogHasCall
<1> HIDE DEF d
<1>10. Moves(v, [v EXCEPT !.dlg = d], b) /\ [v EXCEPT !.dlg = d].dlg = d
         /\ [v EXCEPT !.dlg = d].flow = v.flow
  BY <1>8, <1>9, DialogMoves DEF Moves
<1>11. Moves(t, CloseDialog(t), b)
  BY <1>3, <1>7, <1>8, <1>10, MovesOn
<1> QED
  BY <1>6, <1>7, <1>10, <1>11 DEF d

-----------------------------------------------------------------------------
(* Records that are sent. *)

\* A record other than an INVITE: nothing that is counted changes.
LEMMA WrittenMoves ==
  ASSUME NEW t, NEW b, TransportInv(t, b), NEW m \in Messages, m.kind # "INVITE",
         NEW i \in 1..Conns, i \in {t.flow.sock, t.flow.conning, b}, NEW r \in Written(t, m, i)
  PROVE  Moves(t, r[2], b) /\ r[2].dlg = t.dlg /\ r[1] \in BOOLEAN
<1>1. r = <<TRUE, t>> \/ r = <<FALSE, [t EXCEPT !.conns = Shut(@, i)]>>
  BY DEF Written
<1>2. CASE r = <<TRUE, t>>
  BY <1>2, StayMoves
<1>3. CASE r = <<FALSE, [t EXCEPT !.conns = Shut(@, i)]>>
  BY <1>3, ShutMoves
<1> QED
  BY <1>1, <1>2, <1>3

\* An INVITE: it is received, where nothing of the call had been.
LEMMA WrittenInvite ==
  ASSUME NEW t, NEW b, TransportInv(t, b), NEW c \in Calls, Unheard(t, c),
         t.flow.pending # Record("INVITE", c),
         NEW i \in 1..Conns, i \in {t.flow.sock, t.flow.conning, b},
         NEW r \in Written(t, Record("INVITE", c), i)
  PROVE  /\ TransportInv(r[2], b) /\ r[2].dlg = t.dlg /\ r[2].flow = t.flow /\ r[1] \in BOOLEAN
         /\ \A e \in Calls \ {c} : Unused(t, e) => Unused(r[2], e)
<1> DEFINE u == [t EXCEPT !.wire = t.wire \cup {<<c, t.conns[i].peer>>}]
<1>1. t \in Transports /\ SocketsAreHeld(t, b)
  BY DEF TransportInv
<1>2. CASE r = <<TRUE, u>>
  <2>1. t.conns[i].peer \in Peers
    BY <1>1 DEF SocketsAreHeld
  <2>2. u \in Transports
    <3>1. t.wire \cup {<<c, t.conns[i].peer>>} \in SUBSET (Calls \X Peers)
      BY <1>1, <2>1, FieldTypes
    <3> QED
      BY <1>1, <3>1, TransportUpdates
  <2>3. /\ u.conns = t.conns /\ u.flow = t.flow /\ u.dlg = t.dlg /\ u.retracted = t.retracted
        /\ u.wire = t.wire \cup {<<c, t.conns[i].peer>>}
    BY <1>1 DEF Transports
  <2> HIDE DEF u
  <2>4. SameSockets(t, u)
    BY <2>3 DEF SameSockets
  <2>5. \A e \in Calls \ {c} : Unheard(t, e) => Unheard(u, e)
    BY <2>3 DEF Unheard
  <2>6. WaitsUnheard(u)
    BY <2>3, <2>5 DEF WaitsUnheard, TransportInv
  <2>7. NotHeardOnceRetracted(u)
    <3>1. c \notin t.retracted
      BY DEF Unheard
    <3> QED
      BY <2>3, <3>1 DEF NotHeardOnceRetracted, TransportInv
  <2>8. TransportInv(u, b)
    BY <2>2, <2>3, <2>4, <2>6, <2>7, SameSocketsKept
       DEF TransportInv, DialogHasCall, HasTarget
  <2> QED
    BY <1>2, <2>3, <2>5, <2>8 DEF Unused
<1>3. CASE r = <<FALSE, [t EXCEPT !.conns = Shut(@, i)]>>
  <2>1. [t EXCEPT !.conns = Shut(@, i)].flow = t.flow
    BY <1>1 DEF Transports
  <2> QED
    BY <1>3, <2>1, ShutMoves DEF Moves, NothingInvited
<1> QED
  BY <1>2, <1>3 DEF Written, Record

\* send_sip_ of anything but an INVITE.
LEMMA SendsMoves ==
  ASSUME NEW t, NEW b, TransportInv(t, b), NEW m \in Messages, m.kind # "INVITE",
         NEW r \in Sends(t, m)
  PROVE  Moves(t, r[2], b) /\ r[2].dlg = t.dlg /\ r[1] \in BOOLEAN
<1>1. t \in Transports
  BY DEF TransportInv
<1>2. CASE r = <<TRUE, [t EXCEPT !.udpSent = @ \cup {}]>>
  <2>1. [t EXCEPT !.udpSent = @ \cup {}] = t
    BY <1>1, FieldTypes DEF Transports
  <2> QED
    BY <1>2, <2>1, StayMoves
<1>3. CASE t.flow.sock # 0 /\ r \in Written(t, m, t.flow.sock)
  <2>1. t.flow.sock \in 1..Conns
    BY <1>1, <1>3, FieldTypes
  <2> QED
    BY <1>3, <2>1, WrittenMoves
<1>4. CASE /\ t.flow.pending = NoMessage
           /\ r = <<TRUE, [t EXCEPT !.flow.pending = m, !.wake = TRUE]>>
  <2> DEFINE f == [t.flow EXCEPT !.pending = m]
             u == [[t EXCEPT !.flow = f] EXCEPT !.wake = TRUE]
  <2>1. f \in FlowRecord
    BY <1>1, FieldTypes, FlowUpdates
  <2>2. [t EXCEPT !.flow = f] \in Transports
    BY <1>1, <2>1, TransportUpdates
  <2>3. u \in Transports
    BY <2>2, TransportUpdates
  <2>4. r = <<TRUE, u>>
    BY <1>1, <1>4 DEF Transports, FlowRecord
  <2>5. /\ u.conns = t.conns /\ u.dlg = t.dlg /\ u.wire = t.wire /\ u.retracted = t.retracted
        /\ u.flow.sock = t.flow.sock /\ u.flow.conning = t.flow.conning
        /\ u.flow.rx = t.flow.rx /\ u.flow.pending = m
        /\ u.flow.connectReq = t.flow.connectReq /\ u.flow.target = t.flow.target
    BY <1>1, FieldTypes DEF Transports, FlowRecord
  <2> HIDE DEF u
  <2>6. \A c \in Calls : m # Record("INVITE", c)
    BY DEF Record
  <2>7. Moves(t, u, b)
    BY <2>3, <2>5, <2>6, FlagMoves DEF SameSockets, HasTarget, TransportInv
  <2> QED
    BY <2>4, <2>5, <2>7
<1>5. CASE r = <<FALSE, t>>
  BY <1>5, StayMoves
<1> QED
  BY <1>2, <1>3, <1>4, <1>5 DEF Sends

\* send_sip_ of the INVITE of a call that nothing has been sent for.
LEMMA SendsInvite ==
  ASSUME NEW t, NEW b, TransportInv(t, b), NEW c \in Calls, Unused(t, c),
         NEW r \in Sends(t, Record("INVITE", c))
  PROVE  /\ TransportInv(r[2], b) /\ r[2].dlg = t.dlg /\ r[1] \in BOOLEAN
         /\ \A e \in Calls \ {c} : Unused(t, e) => Unused(r[2], e)
<1> DEFINE m == Record("INVITE", c)
<1>1. t \in Transports /\ m \in Messages /\ m.kind = "INVITE" /\ m.call = c
  BY MessageTypes DEF TransportInv, Record
<1>2. Unheard(t, c) /\ t.flow.pending # m
  BY DEF Unused
<1>3. CASE r = <<TRUE, [t EXCEPT !.udpSent = @ \cup {c}]>>
  <2> DEFINE u == [t EXCEPT !.udpSent = t.udpSent \cup {c}]
  <2>1. t.udpSent \cup {c} \in SUBSET Calls
    BY <1>1, FieldTypes
  <2>2. u \in Transports
    BY <1>1, <2>1, TransportUpdates
  <2>3. u.flow = t.flow /\ u.conns = t.conns /\ u.dlg = t.dlg /\ u.wire = t.wire
          /\ u.retracted = t.retracted
    BY <1>1 DEF Transports
  <2> HIDE DEF u
  <2>4. Moves(t, u, b)
    BY <2>2, <2>3, FlagMoves DEF SameSockets, HasTarget, TransportInv
  <2> QED
    BY <1>3, <2>3, <2>4 DEF u, Moves, NothingInvited
<1>4. CASE t.flow.sock # 0 /\ r \in Written(t, m, t.flow.sock)
  <2>1. t.flow.sock \in 1..Conns
    BY <1>1, <1>4, FieldTypes
  <2> QED
    BY <1>2, <1>4, <2>1, WrittenInvite
<1>5. CASE r = <<TRUE, [t EXCEPT !.flow.pending = m, !.wake = TRUE]>>
  <2> DEFINE f == [t.flow EXCEPT !.pending = m]
             u == [[t EXCEPT !.flow = f] EXCEPT !.wake = TRUE]
  <2>1. f \in FlowRecord
    BY <1>1, FieldTypes, FlowUpdates
  <2>2. [t EXCEPT !.flow = f] \in Transports
    BY <1>1, <2>1, TransportUpdates
  <2>3. u \in Transports
    BY <2>2, TransportUpdates
  <2>4. r = <<TRUE, u>>
    BY <1>1, <1>5 DEF Transports, FlowRecord
  <2>5. /\ u.conns = t.conns /\ u.dlg = t.dlg /\ u.wire = t.wire /\ u.retracted = t.retracted
        /\ u.flow.sock = t.flow.sock /\ u.flow.conning = t.flow.conning
        /\ u.flow.rx = t.flow.rx /\ u.flow.pending = m
        /\ u.flow.connectReq = t.flow.connectReq /\ u.flow.target = t.flow.target
    BY <1>1, FieldTypes DEF Transports, FlowRecord
  <2> HIDE DEF u
  <2>6. SameSockets(t, u)
    BY <2>5 DEF SameSockets
  <2>7. \A e \in Calls : m = Record("INVITE", e) => e = c
    BY DEF Record
  <2>8. WaitsUnheard(u) /\ NotHeardOnceRetracted(u)
    BY <1>2, <2>5, <2>7 DEF WaitsUnheard, NotHeardOnceRetracted, Unheard, TransportInv
  <2>9. \A e \in Calls \ {c} : Unused(t, e) => Unused(u, e)
    BY <2>5, <2>7 DEF Unused, Unheard
  <2> QED
    BY <2>3, <2>4, <2>5, <2>6, <2>8, <2>9, SameSocketsKept
       DEF TransportInv, DialogHasCall, HasTarget
<1>6. CASE r = <<FALSE, t>>
  BY <1>6
<1> QED
  BY <1>1, <1>3, <1>4, <1>5, <1>6 DEF Sends

\* promote_tcp_flow_: the connection is the flow's, and the record that waited is sent.
LEMMA PromotesMoves ==
  ASSUME NEW t, NEW b, TransportInv(t, b), t.flow.conning # 0, NEW r \in Promotes(t)
  PROVE  Moves(t, r[2], b) /\ r[2].dlg = t.dlg /\ r[1] \in BOOLEAN
<1> DEFINE i == t.flow.conning
           m == t.flow.pending
           h == [t.flow EXCEPT !.sock = i, !.closeReq = FALSE, !.connectReq = FALSE,
                               !.rx = <<>>, !.pending = NoMessage]
           up == [t EXCEPT !.flow = h]
           v == [up EXCEPT !.flow.conning = 0]
           f == [h EXCEPT !.conning = 0]
<1>1. /\ t \in Transports /\ t.flow \in FlowRecord /\ i \in 1..Conns /\ m \in Messages
      /\ 0 \in 0..Conns /\ i \in 0..Conns /\ t.flow.target \in Peers \cup {"none"}
  BY FieldTypes, TcpAssumption DEF TransportInv
<1>2. t.flow.sock = 0 /\ SocketsAreHeld(t, b)
  BY DEF TransportInv, SocketsAreHeld
<1>3. h \in FlowRecord
  <2>1. [t.flow EXCEPT !.sock = i, !.closeReq = FALSE] \in FlowRecord
    BY <1>1, FlowUpdates
  <2>2. [t.flow EXCEPT !.sock = i, !.closeReq = FALSE, !.connectReq = FALSE] \in FlowRecord
    BY <2>1, FlowUpdates
  <2>3. [t.flow EXCEPT !.sock = i, !.closeReq = FALSE, !.connectReq = FALSE, !.rx = <<>>]
           \in FlowRecord
    BY <2>2, FlowUpdates, EmptySeq
  <2> QED
    BY <2>3, FlowUpdates, MessageTypes
<1>4. h.sock = i /\ h.rx = <<>> /\ h.pending = NoMessage /\ h.connectReq = FALSE
  BY <1>1 DEF FlowRecord
<1> HIDE DEF h
<1>5. /\ f \in FlowRecord
      /\ f.sock = i /\ f.conning = 0 /\ f.rx = <<>> /\ f.pending = NoMessage
      /\ f.connectReq = FALSE
  BY <1>1, <1>3, <1>4, FlowUpdates DEF FlowRecord
<1>6. up \in Transports /\ up.flow = h /\ up.conns = t.conns /\ up.wire = t.wire
        /\ up.dlg = t.dlg /\ up.retracted = t.retracted
  <2>1. up \in Transports
    BY <1>1, <1>3, TransportUpdates
  <2> QED
    BY <1>1, <2>1 DEF Transports
<1> HIDE DEF up
<1>7. v.flow = f /\ v.conns = t.conns /\ v.dlg = t.dlg /\ v.wire = t.wire
        /\ v.retracted = t.retracted
  BY <1>6 DEF Transports
<1>8. v \in Transports
  <2>1. v = [up EXCEPT !.flow = f]
    BY <1>6
  <2> QED
    BY <1>5, <1>6, <2>1, TransportUpdates
<1> HIDE DEF f, v
<1>9. TransportInv(v, b)
  <2>1. SocketsAreHeld(v, b)
    BY <1>2, <1>5, <1>7 DEF SocketsAreHeld
  <2>2. PiecesInOrder(v)
    <3>1. \A j \in 1..Conns : ReadOf(v, j) = 0 /\ ReadOf(t, j) = 0
      BY <1>2, <1>5, <1>7 DEF ReadOf
    <3>2. ReadInOrder(v)
      BY <1>5, <1>7 DEF ReadInOrder
    <3>3. \A j \in 1..Conns : SocketInOrder(v.conns[j], j, ReadOf(v, j))
      BY <1>7, <3>1 DEF TransportInv, PiecesInOrder
    <3> QED
      BY <3>2, <3>3 DEF PiecesInOrder
  <2>3. \A c \in Calls : NoMessage # Record("INVITE", c)
    BY MessageTypes
  <2>4. WaitsUnheard(v) /\ NotHeardOnceRetracted(v)
    BY <1>1, <1>5, <1>7, <1>8, <2>3, NoNewInvite DEF TransportInv
  <2>5. Len(v.flow.rx) <= MaxRx
    BY <1>5, <1>7, TcpAssumption
  <2> QED
    BY <1>5, <1>7, <1>8, <2>1, <2>2, <2>4, <2>5 DEF TransportInv, DialogHasCall, HasTarget
<1>10. NothingInvited(t, v)
  BY <1>5, <1>7, MessageTypes DEF NothingInvited, Unused, Unheard
<1>11. i \in {v.flow.sock, v.flow.conning, b}
  BY <1>5, <1>7
<1>12. CASE m = NoMessage
  <2>1. PICK q \in {<<TRUE, up>>} : r = <<q[1], [q[2] EXCEPT !.flow.conning = 0]>>
    BY <1>12 DEF Promotes, up, h
  <2>2. r = <<TRUE, v>>
    <3>1. q = <<TRUE, up>>
      OBVIOUS
    <3>2. [q[2] EXCEPT !.flow.conning = 0] = v
      BY <3>1 DEF v
    <3> QED
      BY <2>1, <3>1, <3>2, SMT
  <2> QED
    BY <1>7, <1>9, <1>10, <2>2 DEF Moves
<1>13. CASE m # NoMessage
  <2>1. PICK q \in Written(up, m, i) : r = <<q[1], [q[2] EXCEPT !.flow.conning = 0]>>
    BY <1>13 DEF Promotes, up, h
  <2>2. r \in Written(v, m, i)
    <3>1. CASE q = <<TRUE, IF m.kind = "INVITE"
                           THEN [up EXCEPT !.wire = @ \cup {<<m.call, up.conns[i].peer>>}]
                           ELSE up>>
      <4>1. r = <<TRUE, IF m.kind = "INVITE"
                        THEN [v EXCEPT !.wire = @ \cup {<<m.call, v.conns[i].peer>>}] ELSE v>>
        BY <1>6, <2>1, <3>1 DEF Transports, v
      <4> QED
        BY <4>1 DEF Written
    <3>2. CASE q = <<FALSE, [up EXCEPT !.conns = Shut(@, i)]>>
      <4>1. r = <<FALSE, [v EXCEPT !.conns = Shut(@, i)]>>
        BY <1>6, <2>1, <3>2 DEF Transports, v
      <4> QED
        BY <4>1 DEF Written
    <3> QED
      BY <2>1, <3>1, <3>2 DEF Written
  <2>3. CASE m.kind # "INVITE"
    <3>1. Moves(v, r[2], b) /\ r[2].dlg = v.dlg /\ r[1] \in BOOLEAN
      BY <1>1, <1>9, <1>11, <2>2, <2>3, WrittenMoves
    <3>2. Moves(t, v, b)
      BY <1>9, <1>10 DEF Moves
    <3> QED
      BY <1>7, <3>1, <3>2, MovesOn
  <2>4. CASE m.kind = "INVITE"
    <3>1. m.call \in Calls /\ m = Record("INVITE", m.call)
      BY <1>1, <1>13, <2>4, MessageTypes
    <3>2. Unheard(v, m.call) /\ v.flow.pending # m
      BY <1>5, <1>7, <1>13, <3>1 DEF TransportInv, WaitsUnheard, Unheard
    <3>3. /\ TransportInv(r[2], b) /\ r[2].dlg = v.dlg /\ r[1] \in BOOLEAN
          /\ \A e \in Calls \ {m.call} : Unused(v, e) => Unused(r[2], e)
      BY <1>1, <1>9, <1>11, <2>2, <3>1, <3>2, WrittenInvite
    <3>4. ~ Unused(t, m.call)
      BY <3>1 DEF Unused
    <3> QED
      BY <1>7, <1>10, <3>3, <3>4 DEF Moves, NothingInvited
  <2> QED
    BY <2>3, <2>4
<1> QED
  BY <1>12, <1>13

-----------------------------------------------------------------------------
(* A message that is handled. *)

\* A response is sent, and the dialog stays.
LEMMA RespondsMoves ==
  ASSUME NEW t, NEW b, TransportInv(t, b), NEW c \in Calls, NEW u \in Responds(t, c)
  PROVE  Moves(t, u, b) /\ u.dlg = t.dlg
<1>1. PICK r \in Sends(t, Record("response", c)) : u = r[2]
  BY DEF Responds
<1>2. Record("response", c) \in Messages /\ Record("response", c).kind # "INVITE"
  BY MessageTypes DEF Record
<1> QED
  BY <1>1, <1>2, SendsMoves

\* One of a dialog's fields is another.
LEMMA DialogUpdates ==
  ASSUME NEW d \in DialogRecord
  PROVE  /\ \A c \in Calls \cup {None} : [d EXCEPT !.call = c] \in DialogRecord
         /\ \A x \in BOOLEAN : [d EXCEPT !.out = x] \in DialogRecord
         /\ \A x \in BOOLEAN : [d EXCEPT !.media = x] \in DialogRecord
         /\ \A x \in BOOLEAN : [d EXCEPT !.term = x] \in DialogRecord
         /\ \A c \in Calls \cup {None} : [d EXCEPT !.call = c].call = c
         /\ \A x : /\ [d EXCEPT !.out = x].call = d.call
                   /\ [d EXCEPT !.media = x].call = d.call
                   /\ [d EXCEPT !.term = x].call = d.call
<1>1. /\ \A c \in Calls \cup {None} : [d EXCEPT !.call = c] \in DialogRecord
      /\ \A x \in BOOLEAN : [d EXCEPT !.out = x] \in DialogRecord
      /\ \A x \in BOOLEAN : [d EXCEPT !.media = x] \in DialogRecord
      /\ \A x \in BOOLEAN : [d EXCEPT !.term = x] \in DialogRecord
  BY Zenon DEF DialogRecord
<1>2. /\ \A c \in Calls \cup {None} : [d EXCEPT !.call = c].call = c
      /\ \A x : /\ [d EXCEPT !.out = x].call = d.call
                /\ [d EXCEPT !.media = x].call = d.call
                /\ [d EXCEPT !.term = x].call = d.call
  BY DEF DialogRecord
<1> QED
  BY <1>1, <1>2

\* A dialog that ends is named by what is told, if it had a call.
EndIsTold(t, u, told) ==
    u.dlg.call # t.dlg.call /\ t.dlg.call # None
        => \E k \in DOMAIN told : told[k].kind = "ended" /\ told[k].call = t.dlg.call

\* One signal is told, of the call of the message.
LEMMA OneIsTold ==
  ASSUME NEW k \in {"incoming", "answered", "ended"}, NEW c \in Calls
  PROVE  /\ <<[kind |-> k, call |-> c, lost |-> None]>> \in Seq(Signals)
         /\ \A t, u : t.dlg.call = c /\ k = "ended"
               => EndIsTold(t, u, <<[kind |-> k, call |-> c, lost |-> None]>>)
<1>1. [kind |-> k, call |-> c, lost |-> None] \in Signals
  BY DEF Signals
<1>2. <<[kind |-> k, call |-> c, lost |-> None]>> \in Seq(Signals)
  BY <1>1
<1>3. 1 \in DOMAIN <<[kind |-> k, call |-> c, lost |-> None]>>
  OBVIOUS
<1> QED
  BY <1>2, <1>3 DEF EndIsTold

\* handle_sip_datagram_: the dialog that is there ends only when that is told.
LEMMA DispatchMoves ==
  ASSUME NEW t, NEW b, TransportInv(t, b), NEW m \in Messages, NEW d \in Dispatch(t, m)
  PROVE  Moves(t, d[1], b) /\ d[2] \in Seq(Signals) /\ EndIsTold(t, d[1], d[2])
<1> DEFINE ours == t.dlg.call = m.call
           told(k) == <<[kind |-> k, call |-> m.call, lost |-> None]>>
<1>1. t \in Transports /\ t.dlg \in DialogRecord
  BY FieldTypes DEF TransportInv
<1>2. \A u \in Responds(t, m.call) :
         m \in [kind : {"invite", "probe", "answer", "refuse", "bye", "done"}, call : Calls]
           => Moves(t, u, b) /\ u.dlg = t.dlg
  BY RespondsMoves
<1>3. m.kind \in {"invite", "probe", "answer", "refuse", "bye", "done"}
        => m \in [kind : {"invite", "probe", "answer", "refuse", "bye", "done"}, call : Calls]
  BY DEF Messages, NoMessage
<1>4. CASE m.kind = "invite" /\ ~ Owned(t)
  <2>1. PICK u \in Responds(t, m.call) : d = <<[u EXCEPT !.dlg.call = m.call], told("incoming")>>
    BY <1>4 DEF Dispatch, Tells
  <2>2. Moves(t, u, b) /\ u.dlg = t.dlg /\ m.call \in Calls
    BY <1>2, <1>3, <1>4
  <2>3. [u.dlg EXCEPT !.call = m.call] \in DialogRecord
          /\ [u.dlg EXCEPT !.call = m.call].call # None
    BY <1>1, <2>2, DialogUpdates DEF Calls, None
  <2>4. Moves(u, d[1], b)
    BY <2>1, <2>2, <2>3, DialogMoves DEF Moves
  <2>5. t.dlg.call = None
    BY <1>4 DEF Owned, NoDialog
  <2> QED
    BY <2>1, <2>2, <2>4, <2>5, MovesOn, OneIsTold DEF EndIsTold
<1>5. CASE m.kind = "answer" /\ ours /\ t.dlg.out
  <2>1. PICK u \in Responds(t, m.call) :
           d = <<[u EXCEPT !.dlg.out = FALSE, !.dlg.media = ~ u.dlg.term], told("answered")>>
    BY <1>5 DEF Dispatch, Tells
  <2>2. Moves(t, u, b) /\ u.dlg = t.dlg /\ m.call \in Calls /\ m.call # None
    BY <1>2, <1>3, <1>5 DEF Calls, None
  <2> DEFINE e == [[u.dlg EXCEPT !.out = FALSE] EXCEPT !.media = ~ u.dlg.term]
  <2>3. e \in DialogRecord /\ e.call = m.call
    <3>1. (~ u.dlg.term) \in BOOLEAN /\ FALSE \in BOOLEAN
      OBVIOUS
    <3>2. u.dlg \in DialogRecord /\ u.dlg.call = m.call
      BY <1>1, <1>5, <2>2
    <3>3. [u.dlg EXCEPT !.out = FALSE] \in DialogRecord
            /\ [u.dlg EXCEPT !.out = FALSE].call = m.call
      BY <3>1, <3>2, DialogUpdates, Zenon
    <3> QED
      BY <3>1, <3>3, DialogUpdates
  <2>4. u \in Transports
    BY <2>2 DEF Moves, TransportInv
  <2>5. d[1] = [u EXCEPT !.dlg = e]
    BY <2>1, <2>4 DEF Transports
  <2> HIDE DEF e
  <2>6. Moves(u, d[1], b) /\ d[1].dlg = e
    BY <2>2, <2>3, <2>5, DialogMoves DEF Moves
  <2>7. EndIsTold(t, d[1], d[2])
    BY <1>5, <2>3, <2>6 DEF EndIsTold
  <2> QED
    BY <2>1, <2>2, <2>6, <2>7, MovesOn, OneIsTold
<1>6. CASE (m.kind = "refuse" /\ ours /\ t.dlg.out) \/ (m.kind = "bye" /\ ours /\ t.dlg.media)
  <2>1. PICK u \in Responds(t, m.call) : d = <<ResetDialog(u), told("ended")>>
    BY <1>6 DEF Dispatch, Tells
  <2>2. Moves(t, u, b) /\ m.call \in Calls
    BY <1>2, <1>3, <1>6
  <2>3. Moves(u, ResetDialog(u), b)
    BY <2>2, ResetMoves DEF Moves
  <2> QED
    BY <1>6, <2>1, <2>2, <2>3, MovesOn, OneIsTold
<1>7. CASE m.kind = "done" /\ ours /\ t.dlg.term /\ ~ t.dlg.out
  <2>1. d = <<ResetDialog(t), told("ended")>> /\ m.call \in Calls
    BY <1>3, <1>7 DEF Dispatch, Tells
  <2>2. Moves(t, ResetDialog(t), b)
    BY ResetMoves
  <2> QED
    BY <1>7, <2>1, <2>2, OneIsTold
<1>8. CASE m.kind \in {"invite", "probe"} /\ ~ (m.kind = "invite" /\ ~ Owned(t))
  <2>1. PICK u \in Responds(t, m.call) : d = <<u, <<>>>>
    BY <1>8 DEF Dispatch, Silent
  <2> QED
    BY <1>2, <1>3, <1>8, <2>1, EmptySeq DEF EndIsTold
<1>9. CASE d = <<t, <<>>>>
  BY <1>9, StayMoves, EmptySeq DEF EndIsTold
<1> QED
  BY <1>4, <1>5, <1>6, <1>7, <1>8, <1>9 DEF Dispatch, Silent

-----------------------------------------------------------------------------
(* From transports to states. *)

\* The state as a transport, after an operation and when nothing happens to it.
LEMMA BecomesIt ==
  /\ \A t \in Transports : Becomes(t) => s' = t
  /\ UNCHANGED transport => s' = s
<1>1. ASSUME NEW t \in Transports, Becomes(t) PROVE s' = t
  BY <1>1 DEF Becomes, s, Transports
<1>2. ASSUME UNCHANGED transport PROVE s' = s
  BY <1>2 DEF transport, s
<1> QED
  BY <1>1, <1>2

\* The fields of the state as a transport.
LEMMA StateFields ==
  /\ s.flow = flow /\ s.tcp = tcp /\ s.dlg = dlg /\ s.conns = conns /\ s.wake = wake
  /\ s.wire = wire /\ s.udpSent = udpSent /\ s.retracted = retracted
  /\ s'.flow = flow' /\ s'.tcp = tcp' /\ s'.dlg = dlg' /\ s'.conns = conns'
  /\ s'.wake = wake' /\ s'.wire = wire' /\ s'.udpSent = udpSent' /\ s'.retracted = retracted'
BY DEF s

\* The places where a loss is still to be told.
LEMMA TellingPlaces ==
  /\ DOMAIN Telling = {"close", "select", "accept"}
  /\ Telling["close"] = "tell, then close" /\ Telling["select"] = "tell, then select"
  /\ Telling["accept"] = "tell, then accept"
BY DEF Telling

\* A task that rests.
LEMMA RestingType == Resting \in TaskRecord
<1>1. NoReady \in ReadyRecord
  <2>1. FALSE \in BOOLEAN /\ 0 \in 0..Conns
    BY TcpAssumption
  <2> QED
    BY <2>1, MessageTypes, Zenon DEF NoReady, ReadyRecord
<1>2. None \in Calls \cup {None} /\ FALSE \in BOOLEAN
  OBVIOUS
<1> QED
  BY <1>1, <1>2, Zenon DEF Resting, TaskRecord

\* The SIP task goes on.
LEMMA TaskUpdates ==
  ASSUME NEW r \in TaskRecord
  PROVE  /\ \A x \in {"close", "connect", "requested", "select", "write", "accept",
                      "accepting", "udp", "replace", "datagram", "stream", "frame"} :
              [r EXCEPT !.at = x] \in TaskRecord
         /\ \A next \in {"close", "select", "accept"}, c \in Calls \cup {None} :
              [r EXCEPT !.at = Telling[next], !.lost = c] \in TaskRecord
         /\ \A c \in Calls \cup {None} : [r EXCEPT !.lost = c] \in TaskRecord
         /\ \A y \in ReadyRecord : [r EXCEPT !.ready = y] \in TaskRecord
         /\ \A e \in BOOLEAN : [r EXCEPT !.eof = e] \in TaskRecord
<1>1. \A next \in {"close", "select", "accept"} :
         Telling[next] \in {Telling[n] : n \in DOMAIN Telling}
  BY TellingPlaces
<1>2. \A next \in {"close", "select", "accept"}, c \in Calls \cup {None} :
         [r EXCEPT !.at = Telling[next], !.lost = c] \in TaskRecord
  BY <1>1, Zenon DEF TaskRecord
<1>3. \A x \in {"close", "connect", "requested", "select", "write", "accept",
                "accepting", "udp", "replace", "datagram", "stream", "frame"} :
         [r EXCEPT !.at = x] \in TaskRecord
  BY Zenon DEF TaskRecord
<1>4. /\ \A y \in ReadyRecord : [r EXCEPT !.ready = y] \in TaskRecord
      /\ \A e \in BOOLEAN : [r EXCEPT !.eof = e] \in TaskRecord
      /\ \A c \in Calls \cup {None} : [r EXCEPT !.lost = c] \in TaskRecord
  BY Zenon DEF TaskRecord
<1> QED
  BY <1>2, <1>3, <1>4

\* Where the SIP task is and what it still has to tell, as it goes on.
LEMMA TaskFields ==
  ASSUME NEW r \in TaskRecord
  PROVE  /\ \A x : [r EXCEPT !.at = x].lost = r.lost /\ [r EXCEPT !.at = x].at = x
                     /\ [r EXCEPT !.at = x].ready = r.ready
         /\ \A x, c : /\ [r EXCEPT !.at = x, !.lost = c].lost = c
                      /\ [r EXCEPT !.at = x, !.lost = c].at = x
         /\ \A x, y : /\ [r EXCEPT !.at = x, !.ready = y].lost = r.lost
                      /\ [r EXCEPT !.at = x, !.ready = y].at = x
                      /\ [r EXCEPT !.at = x, !.ready = y].ready = y
         /\ \A x, e : /\ [r EXCEPT !.at = x, !.eof = e].lost = r.lost
                      /\ [r EXCEPT !.at = x, !.eof = e].at = x
         /\ Resting.lost = None /\ Resting.at = "close"
         /\ r.lost \in Calls \cup {None} /\ r.ready \in ReadyRecord
         /\ r.ready.udp \in Messages /\ r.ready.conn \in 0..Conns
<1>1. r.ready \in ReadyRecord /\ r.lost \in Calls \cup {None}
  BY DEF TaskRecord
<1>2. r.ready.udp \in Messages /\ r.ready.conn \in 0..Conns
  BY <1>1 DEF ReadyRecord
<1> QED
  BY <1>1, <1>2 DEF TaskRecord, Resting

-----------------------------------------------------------------------------
(* The initial state. *)

\* Nothing exists at first.
LEMMA InitTransport == Init => TransportInv(s, backlog)
<1> SUFFICES ASSUME Init PROVE TransportInv(s, backlog)
  OBVIOUS
<1> USE DEF Init
<1>1. flow \in FlowRecord /\ tcp \in BOOLEAN /\ wake \in BOOLEAN
  <2>1. FALSE \in BOOLEAN /\ 0 \in 0..Conns /\ "none" \in Peers \cup {"none"}
    BY TcpAssumption
  <2>2. <<>> \in Seq(Pieces) /\ NoMessage \in Messages
    BY MessageTypes, EmptySeq
  <2> QED
    BY <2>1, <2>2, Zenon DEF FlowRecord
<1>2. dlg \in DialogRecord /\ conns \in [1..Conns -> SocketRecord]
  BY NothingTypes
<1>3. wire \in SUBSET (Calls \X Peers) /\ udpSent \in SUBSET Calls /\ retracted \in SUBSET Calls
  OBVIOUS
<1>4. s \in Transports
  BY <1>1, <1>2, <1>3, Zenon DEF s, Transports
<1>5. s.flow.sock = 0 /\ s.flow.conning = 0 /\ s.flow.rx = <<>> /\ s.flow.pending = NoMessage
        /\ s.flow.connectReq = FALSE
  BY DEF s
<1>6. \A i \in 1..Conns : s.conns[i] = NoSocket
  BY DEF s
<1>7. SocketsAreHeld(s, backlog)
  BY <1>5, <1>6 DEF SocketsAreHeld
<1>8. PiecesInOrder(s)
  <2>1. ReadInOrder(s) /\ \A i \in 1..Conns : ReadOf(s, i) = 0
    BY <1>5 DEF ReadInOrder, ReadOf
  <2>2. NoSocket.inbox = <<>> /\ NoSocket.half = NoMessage
    BY DEF NoSocket
  <2>3. \A i \in 1..Conns : SocketInOrder(s.conns[i], i, 0)
    BY <1>6, <2>2, FreshSocketInOrder
  <2> QED
    BY <2>1, <2>3 DEF PiecesInOrder
<1>9. WaitsUnheard(s) /\ NotHeardOnceRetracted(s)
  BY <1>5, MessageTypes, StateFields DEF WaitsUnheard, NotHeardOnceRetracted
<1>10. DialogHasCall(s) /\ HasTarget(s) /\ Len(s.flow.rx) <= MaxRx
  BY <1>5, StateFields, TcpAssumption DEF DialogHasCall, HasTarget
<1> QED
  BY <1>4, <1>7, <1>8, <1>9, <1>10 DEF TransportInv

\* The invariant holds at first.
LEMMA InitTcp == Init => TcpInv
<1> SUFFICES ASSUME Init PROVE TcpInv
  OBVIOUS
<1>1. TransportInv(s, backlog)
  BY InitTransport
<1>2. task \in TaskRecord
  BY RestingType DEF Init
<1>3. main \in MainRecord
  BY TcpAssumption DEF Init, MainRecord
<1>4. TypeOK
  BY <1>1, <1>2, <1>3, TcpAssumption, EmptySeq, StateFields DEF Init, TypeOK, TransportInv
<1>5. CallIsNew
  <2>1. s.flow.pending = NoMessage /\ s.wire = {} /\ s.retracted = {}
    BY DEF Init, s
  <2>2. \A c \in Calls : Unused(s, c)
    BY <2>1, MessageTypes DEF Unused, Unheard
  <2> QED
    BY <2>2 DEF Init, CallIsNew, Placing
<1>6. ReportedIsAwaited /\ LossHasEvent /\ TellsItsLoss
  BY DEF Init, ReportedIsAwaited, LossHasEvent, TellsItsLoss, Resting
<1> QED
  BY <1>1, <1>4, <1>5, <1>6 DEF TcpInv

-----------------------------------------------------------------------------
(* The network. *)

\* What the network does to one socket that is held.
LEMMA NetworkMoves ==
  ASSUME TcpInv, Network, NEW i \in 1..Conns, i \in {flow.sock, flow.conning, backlog},
         NEW c \in SocketRecord, conns' = [conns EXCEPT ![i] = c],
         c.st # "free", c.peer = conns[i].peer, SocketInOrder(c, i, ReadOf(s, i))
  PROVE  Moves(s, s', backlog)
<1>1. s' = [s EXCEPT !.conns = [s.conns EXCEPT ![i] = c]]
  BY DEF Network, s
<1>2. TransportInv(s, backlog)
  BY DEF TcpInv
<1> QED
  BY <1>1, <1>2, SocketMoves, StateFields

\* Nothing but the sockets is the network's.
LEMMA NetworkKeeps ==
  ASSUME TcpInv, Network, Moves(s, s', backlog'), backlog' \in 0..Conns, inputs' \in 0..Inputs
  PROVE  TcpInv'
<1> USE DEF Network
<1>1. TransportInv(s', backlog')
  BY DEF Moves
<1>2. TypeOK'
  BY <1>1, StateFields DEF TypeOK, TransportInv, TcpInv
<1>3. CallIsNew'
  BY DEF TcpInv, CallIsNew, Placing, Moves, NothingInvited
<1>4. ReportedIsAwaited' /\ LossHasEvent' /\ TellsItsLoss'
  BY DEF TcpInv, ReportedIsAwaited, LossHasEvent, TellsItsLoss
<1> QED
  BY <1>1, <1>2, <1>3, <1>4 DEF TcpInv

\* A socket goes on to another state.
LEMMA SocketGoesOn ==
  ASSUME TcpInv, NEW i \in 1..Conns, conns[i].st # "free",
         NEW x \in {"dialling", "open", "refused", "late", "gone"}
  PROVE  /\ [conns[i] EXCEPT !.st = x] \in SocketRecord
         /\ [conns[i] EXCEPT !.st = x].st # "free"
         /\ [conns[i] EXCEPT !.st = x].peer = conns[i].peer
         /\ SocketInOrder([conns[i] EXCEPT !.st = x], i, ReadOf(s, i))
         /\ i \in {flow.sock, flow.conning, backlog}
<1>1. TransportInv(s, backlog) /\ s.conns = conns /\ s.flow = flow
  BY StateFields DEF TcpInv
<1>2. conns[i] \in SocketRecord
  BY <1>1, SocketTypes DEF TransportInv
<1>3. /\ [conns[i] EXCEPT !.st = x].inbox = conns[i].inbox
      /\ [conns[i] EXCEPT !.st = x].half = conns[i].half
      /\ [conns[i] EXCEPT !.st = x].peer = conns[i].peer
      /\ [conns[i] EXCEPT !.st = x].st = x
      /\ [conns[i] EXCEPT !.st = x] \in SocketRecord
  BY <1>2 DEF SocketRecord
<1>4. SocketInOrder(conns[i], i, ReadOf(s, i))
  BY <1>1 DEF TransportInv, PiecesInOrder
<1>5. SocketInOrder([conns[i] EXCEPT !.st = x], i, ReadOf(s, i))
  BY <1>3, <1>4 DEF SocketInOrder
<1>6. i \in {flow.sock, flow.conning, backlog}
  <2>1. SocketsAreHeld(s, backlog)
    BY <1>1 DEF TransportInv
  <2> QED
    BY <1>1, <2>1 DEF SocketsAreHeld, NoSocket
<1> QED
  BY <1>3, <1>5, <1>6

\* What the bounds and the types leave to the network.
LEMMA NetworkTypes ==
  ASSUME TcpInv
  PROVE  /\ inputs \in 0..Inputs /\ (Spends => inputs' \in 0..Inputs)
         /\ backlog \in 0..Conns /\ flow.conning \in 0..Conns
         /\ s.conns = conns /\ s.flow = flow /\ s \in Transports /\ TransportInv(s, backlog)
         /\ conns \in [1..Conns -> SocketRecord]
<1>1. s \in Transports /\ TransportInv(s, backlog) /\ backlog \in 0..Conns
        /\ inputs \in 0..Inputs
  BY DEF TcpInv, TypeOK
<1> QED
  BY <1>1, FieldTypes, StateFields, TcpAssumption DEF Spends

\* A connect ends, in time or late.
LEMMA ConnectEndsKeeps ==
  ASSUME TcpInv, NEW how \in {"open", "refused", "late"}, ConnectEnds(how)
  PROVE  TcpInv'
<1> DEFINE i == flow.conning
<1>1. i \in 1..Conns /\ conns[i].st = "dialling" /\ conns \in [1..Conns -> SocketRecord]
  BY NetworkTypes DEF ConnectEnds
<1>2. conns' = [conns EXCEPT ![i] = [conns[i] EXCEPT !.st = how]]
  BY DEF ConnectEnds
<1> DEFINE c == [conns[i] EXCEPT !.st = how]
<1>3. /\ c \in SocketRecord /\ c.st # "free" /\ c.peer = conns[i].peer
      /\ SocketInOrder(c, i, ReadOf(s, i)) /\ i \in {flow.sock, flow.conning, backlog}
  BY <1>1, SocketGoesOn
<1> HIDE DEF c
<1>4. Moves(s, s', backlog)
  BY <1>1, <1>2, <1>3, NetworkMoves DEF ConnectEnds, c
<1> QED
  BY <1>4, NetworkKeeps, NetworkTypes DEF ConnectEnds

\* A peer closes; what it has sent is still to be read.
LEMMA PeerClosesKeeps ==
  ASSUME TcpInv, NEW i \in 1..Conns, PeerCloses(i)
  PROVE  TcpInv'
<1>1. conns[i].st = "open" /\ conns' = [conns EXCEPT ![i] = [conns[i] EXCEPT !.st = "gone"]]
  BY DEF PeerCloses
<1> DEFINE c == [conns[i] EXCEPT !.st = "gone"]
<1>2. /\ c \in SocketRecord /\ c.st # "free" /\ c.peer = conns[i].peer
      /\ SocketInOrder(c, i, ReadOf(s, i)) /\ i \in {flow.sock, flow.conning, backlog}
  BY <1>1, SocketGoesOn
<1> HIDE DEF c
<1>3. Moves(s, s', backlog)
  BY <1>1, <1>2, NetworkMoves DEF PeerCloses, c
<1> QED
  BY <1>3, NetworkKeeps, NetworkTypes DEF PeerCloses

\* Halves come in turn.
LEMMA HalvesInTurn ==
  \A n \in Nat : /\ HalfOf(n) \in {1, 2}
                 /\ HalfOf(n) = 2 => HalfOf(n + 1) = 1
                 /\ HalfOf(n) = 1 => HalfOf(n + 1) = 2
BY DEF HalfOf

\* A piece p comes on an open socket, which is c from then on; h is what has begun.
Comes(i, p, h, c) ==
    /\ conns[i].st = "open" /\ p \in Pieces /\ p.conn = i /\ h \in Messages
    /\ conns[i].half = NoMessage => p.part = 1 /\ h # NoMessage
    /\ conns[i].half # NoMessage => p.part = 2 /\ h = NoMessage
    /\ c = [conns[i] EXCEPT !.inbox = Append(@, p), !.half = h]

\* The piece that comes is the next in turn.
LEMMA PieceComes ==
  ASSUME TcpInv, NEW i \in 1..Conns, NEW p, NEW h, NEW c, Comes(i, p, h, c)
  PROVE  /\ c \in SocketRecord /\ c.st # "free" /\ c.peer = conns[i].peer
         /\ SocketInOrder(c, i, ReadOf(s, i)) /\ i \in {flow.sock, flow.conning, backlog}
<1>1. TransportInv(s, backlog) /\ s.conns = conns /\ s.flow = flow /\ conns[i] \in SocketRecord
  BY NetworkTypes
<1>2. /\ conns[i].st = "open" /\ p \in Pieces /\ p.conn = i /\ h \in Messages
      /\ conns[i].half = NoMessage => p.part = 1 /\ h # NoMessage
      /\ conns[i].half # NoMessage => p.part = 2 /\ h = NoMessage
      /\ c = [conns[i] EXCEPT !.inbox = Append(@, p), !.half = h]
  BY DEF Comes
<1>3. conns[i].inbox \in Seq(Pieces) /\ ReadOf(s, i) \in Nat
  BY <1>1, FieldTypes DEF SocketRecord, TransportInv, ReadOf
<1> DEFINE q == Append(conns[i].inbox, p)
           n == ReadOf(s, i) + Len(conns[i].inbox)
<1>4. /\ q \in Seq(Pieces) /\ Len(q) = Len(conns[i].inbox) + 1 /\ DOMAIN q = 1..Len(q)
      /\ \A k \in 1..Len(conns[i].inbox) : q[k] = conns[i].inbox[k]
      /\ q[Len(q)] = p /\ n \in Nat /\ DOMAIN conns[i].inbox = 1..Len(conns[i].inbox)
      /\ Len(conns[i].inbox) \in Nat
  BY <1>3, <1>2, AppendProperties
<1>5. /\ c.inbox = q /\ c.half = h /\ c.st = "open" /\ c.peer = conns[i].peer
      /\ c \in SocketRecord
  <2> HIDE DEF q
  <2>1. c = [[conns[i] EXCEPT !.inbox = q] EXCEPT !.half = h]
    BY <1>2 DEF q
  <2>2. [conns[i] EXCEPT !.inbox = q] \in SocketRecord
    BY <1>1, <1>4, Zenon DEF SocketRecord
  <2>3. c \in SocketRecord
    BY <1>2, <2>1, <2>2, Zenon DEF SocketRecord
  <2> QED
    BY <1>1, <1>2, <2>1, <2>3 DEF SocketRecord
<1>6. SocketInOrder(conns[i], i, ReadOf(s, i))
  BY <1>1 DEF TransportInv, PiecesInOrder
<1>7. p.part = HalfOf(n + 1) /\ (h = NoMessage <=> HalfOf(n + 1) = 2)
  BY <1>4, <1>6, <1>2, HalvesInTurn DEF SocketInOrder
<1> HIDE DEF q
<1>8. SocketInOrder(c, i, ReadOf(s, i))
  <2>1. ReadOf(s, i) + Len(q) = n + 1
    <3>1. \A x, y \in Nat : x + (y + 1) = (x + y) + 1
      OBVIOUS
    <3>2. ReadOf(s, i) + (Len(conns[i].inbox) + 1) = n + 1
      BY <1>3, <1>4, <3>1
    <3> QED
      BY <1>4, <3>2
  <2>2. c.half = NoMessage <=> HalfOf(ReadOf(s, i) + Len(c.inbox)) = 2
    BY <1>5, <1>7, <2>1
  <2>3. ASSUME NEW k \in DOMAIN c.inbox
        PROVE  c.inbox[k].conn = i /\ c.inbox[k].part = HalfOf(ReadOf(s, i) + k)
    <3>1. CASE k = Len(q)
      BY <1>4, <1>5, <1>7, <1>2, <2>1, <3>1
    <3>2. CASE k # Len(q)
      <4>1. k \in 1..Len(conns[i].inbox)
        BY <1>4, <1>5, <3>2
      <4> QED
        BY <1>4, <1>5, <1>6, <4>1 DEF SocketInOrder
    <3> QED
      BY <3>1, <3>2
  <2> QED
    BY <2>2, <2>3 DEF SocketInOrder
<1> QED
  BY <1>5, <1>8, <1>2, SocketGoesOn

\* The first half of a message comes.
LEMMA PeerWritesKeeps ==
  ASSUME TcpInv, NEW i \in 1..Conns, PeerWrites(i)
  PROVE  TcpInv'
<1> DEFINE asked == {c \in Calls : <<c, conns[i].peer>> \in wire}
<1>1. PICK m \in MaySay(asked) \cup {Record("junk", In)} :
         conns' = [conns EXCEPT ![i].inbox = Append(@, Piece(i, m, 1)), ![i].half = m]
  BY DEF PeerWrites
<1>2. m \in Messages /\ m # NoMessage
  <2>1. In \in Calls
    BY TcpAssumption DEF In, Calls
  <2>2. Record("junk", In) \in Messages /\ Record("junk", In) # NoMessage
    BY <2>1, MessageTypes
  <2>3. ASSUME m \in MaySay(asked) PROVE m \in Messages /\ m # NoMessage
    BY <2>1, <2>3 DEF MaySay, Messages, NoMessage
  <2> QED
    BY <2>2, <2>3
<1>3. Piece(i, m, 1) \in Pieces /\ Piece(i, m, 1).conn = i /\ Piece(i, m, 1).part = 1
  BY <1>2 DEF Piece, Pieces
<1>4. conns[i].st = "open" /\ conns[i].half = NoMessage
  BY DEF PeerWrites
<1> DEFINE c == [conns[i] EXCEPT !.inbox = Append(@, Piece(i, m, 1)), !.half = m]
<1>5. conns' = [conns EXCEPT ![i] = c]
  BY <1>1, NetworkTypes DEF SocketRecord
<1>6. /\ c \in SocketRecord /\ c.st # "free" /\ c.peer = conns[i].peer
      /\ SocketInOrder(c, i, ReadOf(s, i)) /\ i \in {flow.sock, flow.conning, backlog}
  BY <1>2, <1>3, <1>4, PieceComes DEF Comes
<1> HIDE DEF c
<1>7. Moves(s, s', backlog)
  BY <1>5, <1>6, NetworkMoves DEF PeerWrites
<1> QED
  BY <1>7, NetworkKeeps, NetworkTypes DEF PeerWrites

\* The second half comes.
LEMMA PeerFinishesKeeps ==
  ASSUME TcpInv, NEW i \in 1..Conns, PeerFinishes(i)
  PROVE  TcpInv'
<1> DEFINE p == Piece(i, conns[i].half, 2)
           c == [conns[i] EXCEPT !.inbox = Append(@, p), !.half = NoMessage]
<1>1. conns[i].st = "open" /\ conns[i].half # NoMessage
  BY DEF PeerFinishes
<1>2. conns[i].half \in Messages
  BY NetworkTypes, SocketTypes
<1>3. p \in Pieces /\ p.conn = i /\ p.part = 2
  BY <1>2 DEF Piece, Pieces
<1>4. conns' = [conns EXCEPT ![i] = c]
  BY NetworkTypes DEF SocketRecord, PeerFinishes
<1> HIDE DEF p
<1>5. /\ c \in SocketRecord /\ c.st # "free" /\ c.peer = conns[i].peer
      /\ SocketInOrder(c, i, ReadOf(s, i)) /\ i \in {flow.sock, flow.conning, backlog}
  BY <1>1, <1>3, MessageTypes, PieceComes DEF Comes
<1> HIDE DEF c
<1>6. Moves(s, s', backlog)
  BY <1>4, <1>5, NetworkMoves DEF PeerFinishes
<1> QED
  BY <1>6, NetworkKeeps, NetworkTypes DEF PeerFinishes

-----------------------------------------------------------------------------
(* Connections that begin. *)

\* There is a socket for a connection that is begun or comes in.
LEMMA FreeSocket ==
  ASSUME NEW t, \E i \in 1..Conns : t.conns[i] = NoSocket
  PROVE  Free(t) \in 1..Conns /\ t.conns[Free(t)] = NoSocket
BY Zenon DEF Free

\* A socket that has begun and of which nothing has come.
Begun(p, x) == [NoSocket EXCEPT !.st = x, !.peer = p]

\* The socket is of this peer, and nothing has come on it.
LEMMA BegunFields ==
  ASSUME NEW p \in Peers, NEW x \in {"dialling", "open"}
  PROVE  /\ Begun(p, x) \in SocketRecord /\ Begun(p, x).st # "free" /\ Begun(p, x).peer = p
         /\ Begun(p, x).inbox = <<>> /\ Begun(p, x).half = NoMessage
<1>1. Begun(p, x) \in SocketRecord
  BY NothingTypes, Zenon DEF Begun, SocketRecord
<1>2. NoSocket.inbox = <<>> /\ NoSocket.half = NoMessage
  BY DEF NoSocket
<1>3. /\ Begun(p, x).st = x /\ Begun(p, x).peer = p
      /\ Begun(p, x).inbox = NoSocket.inbox /\ Begun(p, x).half = NoSocket.half
  BY NothingTypes DEF Begun, SocketRecord
<1> QED
  BY <1>1, <1>2, <1>3

\* Where other sockets are held, and what has been read is read of the same.
LEMMA OtherSocketsHeld ==
  ASSUME NEW t, NEW b, TransportInv(t, b), NEW u \in Transports, NEW e, SocketsAreHeld(u, e),
         ReadInOrder(u), Len(u.flow.rx) <= MaxRx, HasTarget(u),
         \A j \in 1..Conns : ReadOf(u, j) = ReadOf(t, j),
         \A j \in 1..Conns :
            \/ u.conns[j] = t.conns[j]
            \/ ReadOf(t, j) = 0 /\ u.conns[j].inbox = <<>> /\ u.conns[j].half = NoMessage,
         u.dlg = t.dlg, u.wire = t.wire, u.retracted = t.retracted,
         u.flow.pending = t.flow.pending
  PROVE  Moves(t, u, e)
<1>1. t \in Transports
  BY DEF TransportInv
<1>2. ASSUME NEW j \in 1..Conns PROVE SocketInOrder(u.conns[j], j, ReadOf(u, j))
  <2>1. SocketInOrder(t.conns[j], j, ReadOf(t, j))
    BY DEF TransportInv, PiecesInOrder
  <2>2. CASE u.conns[j] = t.conns[j]
    BY <2>1, <2>2
  <2>3. CASE ReadOf(t, j) = 0 /\ u.conns[j].inbox = <<>> /\ u.conns[j].half = NoMessage
    BY <2>3, FreshSocketInOrder
  <2> QED
    BY <2>2, <2>3
<1>3. WaitsUnheard(u) /\ NotHeardOnceRetracted(u) /\ NothingInvited(t, u)
  BY <1>1, NoNewInvite DEF TransportInv
<1> QED
  BY <1>2, <1>3 DEF Moves, TransportInv, PiecesInOrder, DialogHasCall

\* A peer connects: a socket that was free waits in the listener.
LEMMA PeerConnectsKeeps ==
  ASSUME TcpInv, NEW p \in Peers, PeerConnects(p)
  PROVE  TcpInv'
<1> DEFINE frees == {i \in 1..Conns : conns[i] = NoSocket}
           f == Free(s)
           c == Begun(p, "open")
<1>1. /\ TransportInv(s, backlog) /\ s \in Transports /\ backlog = 0
      /\ s.conns = conns /\ conns \in [1..Conns -> SocketRecord]
      /\ Cardinality(frees) > 1
  BY NetworkTypes DEF PeerConnects
<1>2. Conns > 1 /\ frees # {}
  <2>1. IsFiniteSet(1..Conns) /\ Cardinality(1..Conns) = Conns
    BY TcpAssumption, FS_Interval
  <2>2. frees \subseteq 1..Conns
    OBVIOUS
  <2> HIDE DEF frees
  <2>3. Cardinality(frees) <= Conns
    BY <2>1, <2>2, FS_Subset
  <2>4. Cardinality(frees) \in Nat
    BY <2>1, <2>2, FS_Subset, FS_CardinalityType
  <2>5. Conns \in Nat /\ Cardinality({}) = 0
    BY TcpAssumption, FS_EmptySet
  <2>6. Cardinality(frees) > 1
    BY <1>1 DEF frees
  <2> QED
    BY <2>3, <2>4, <2>5, <2>6
<1>3. f \in 1..Conns /\ conns[f] = NoSocket
  BY <1>1, <1>2, FreeSocket
<1>4. c \in SocketRecord /\ c.st # "free" /\ c.peer = p /\ c.inbox = <<>> /\ c.half = NoMessage
  BY BegunFields
<1>5. backlog' = f /\ conns' = [conns EXCEPT ![f] = c]
  BY DEF PeerConnects, Begun
<1> HIDE DEF c, f
<1>6. conns' \in [1..Conns -> SocketRecord] /\ conns'[f] = c
        /\ \A j \in 1..Conns : j # f => conns'[j] = conns[j]
  BY <1>1, <1>3, <1>4, <1>5
<1>7. /\ s' = [s EXCEPT !.conns = conns'] /\ s'.flow = s.flow /\ s'.dlg = s.dlg
      /\ s'.wire = s.wire /\ s'.retracted = s.retracted /\ s'.conns = conns'
  BY DEF PeerConnects, Network, s
<1>8. s' \in Transports
  BY <1>1, <1>6, <1>7, TransportUpdates
<1>9. SocketsAreHeld(s, 0) /\ f \notin {s.flow.sock, s.flow.conning}
  BY <1>1, <1>3, StateFields DEF TransportInv, SocketsAreHeld, NoSocket
<1>10. SocketsAreHeld(s', f)
  BY <1>1, <1>2, <1>3, <1>4, <1>6, <1>7, <1>9 DEF SocketsAreHeld
<1>11. /\ ReadInOrder(s') /\ Len(s'.flow.rx) <= MaxRx /\ HasTarget(s')
       /\ \A j : ReadOf(s', j) = ReadOf(s, j)
       /\ ReadOf(s, f) = 0
  BY <1>1, <1>7, <1>9 DEF TransportInv, PiecesInOrder, ReadInOrder, HasTarget, ReadOf
<1>12. Moves(s, s', f)
  <2>1. \A j \in 1..Conns :
           \/ s'.conns[j] = s.conns[j]
           \/ ReadOf(s, j) = 0 /\ s'.conns[j].inbox = <<>> /\ s'.conns[j].half = NoMessage
    BY <1>1, <1>4, <1>6, <1>7, <1>11
  <2> QED
    BY <1>1, <1>7, <1>8, <1>10, <1>11, <2>1, OtherSocketsHeld
<1>13. Moves(s, s', backlog') /\ backlog' \in 0..Conns
  BY <1>3, <1>5, <1>12
<1> QED
  BY <1>13, NetworkKeeps, NetworkTypes DEF PeerConnects

\* The flow, closed, dials on a socket of its own.
LEMMA DiallingMoves ==
  ASSUME NEW t, NEW b \in 0..Conns, TransportInv(t, b), t.flow.sock = 0, t.flow.conning = 0,
         t.flow.connectReq, t.flow.rx = <<>>
  PROVE  /\ Moves(t, [t EXCEPT !.flow.conning = Free(t),
                               !.conns[Free(t)] = [NoSocket EXCEPT !.st = "dialling",
                                                                   !.peer = t.flow.target]], b)
         /\ [t EXCEPT !.flow.conning = Free(t),
                      !.conns[Free(t)] = [NoSocket EXCEPT !.st = "dialling",
                                                          !.peer = t.flow.target]].dlg = t.dlg
<1> DEFINE i == Free(t)
           c == Begun(t.flow.target, "dialling")
           f == [t.flow EXCEPT !.conning = i]
           u == [[t EXCEPT !.flow = f] EXCEPT !.conns = [t.conns EXCEPT ![i] = c]]
<1>1. t \in Transports /\ SocketsAreHeld(t, b) /\ t.flow.target \in Peers
        /\ t.flow \in FlowRecord /\ t.conns \in [1..Conns -> SocketRecord]
  BY FieldTypes DEF TransportInv, HasTarget
<1>2. \E j \in 1..Conns : t.conns[j] = NoSocket
  <2>1. \A j \in 1..Conns : j # b => t.conns[j] = NoSocket
    BY <1>1 DEF SocketsAreHeld
  <2>2. CASE b = 0
    BY <2>1, <2>2, TcpAssumption
  <2>3. CASE b # 0
    <3>1. Conns > 1
      BY <1>1, <2>3 DEF SocketsAreHeld
    <3>2. 1 \in 1..Conns /\ 2 \in 1..Conns
      BY <3>1, TcpAssumption
    <3> QED
      BY <2>1, <3>2
  <2> QED
    BY <2>2, <2>3
<1>3. i \in 1..Conns /\ t.conns[i] = NoSocket
  BY <1>2, FreeSocket
<1>4. c \in SocketRecord /\ c.st # "free" /\ c.peer \in Peers /\ c.inbox = <<>>
        /\ c.half = NoMessage
  BY <1>1, BegunFields
<1>5. u = [t EXCEPT !.flow.conning = Free(t),
                    !.conns[Free(t)] = [NoSocket EXCEPT !.st = "dialling",
                                                        !.peer = t.flow.target]]
  BY <1>1 DEF Begun, Transports
<1> HIDE DEF c, i
<1>6. f \in FlowRecord /\ f.sock = 0 /\ f.conning = i /\ f.rx = <<>>
        /\ f.pending = t.flow.pending /\ f.target = t.flow.target
  <2>1. f \in FlowRecord
    BY <1>1, <1>3, FlowUpdates
  <2> QED
    BY <1>1, <2>1 DEF FlowRecord
<1> HIDE DEF f
<1>7. [t.conns EXCEPT ![i] = c] \in [1..Conns -> SocketRecord]
  BY <1>1, <1>4
<1>8. u \in Transports
  <2>1. [t EXCEPT !.flow = f] \in Transports
    BY <1>1, <1>6, TransportUpdates
  <2> QED
    BY <1>7, <2>1, TransportUpdates
<1>9. /\ u.flow = f /\ u.conns = [t.conns EXCEPT ![i] = c] /\ u.dlg = t.dlg
      /\ u.wire = t.wire /\ u.retracted = t.retracted
  BY <1>1 DEF Transports
<1> HIDE DEF u
<1>10. u.conns[i] = c /\ \A j \in 1..Conns : j # i => u.conns[j] = t.conns[j]
  BY <1>1, <1>3, <1>9
<1>11. i # b
  BY <1>1, <1>3 DEF SocketsAreHeld, NoSocket
<1>12. SocketsAreHeld(u, b)
  BY <1>1, <1>3, <1>4, <1>6, <1>9, <1>10, <1>11 DEF SocketsAreHeld
<1>13. /\ ReadInOrder(u) /\ Len(u.flow.rx) <= MaxRx /\ HasTarget(u)
       /\ \A j \in 1..Conns : ReadOf(u, j) = 0 /\ ReadOf(t, j) = 0
  BY <1>1, <1>6, <1>9, TcpAssumption DEF ReadInOrder, HasTarget, ReadOf
<1>14. Moves(t, u, b)
  <2>1. \A j \in 1..Conns :
           \/ u.conns[j] = t.conns[j]
           \/ ReadOf(t, j) = 0 /\ u.conns[j].inbox = <<>> /\ u.conns[j].half = NoMessage
    BY <1>4, <1>10, <1>13
  <2> QED
    BY <1>6, <1>8, <1>9, <1>12, <1>13, <2>1, OtherSocketsHeld
<1> QED
  BY <1>5, <1>9, <1>14

\* The flow, closed, takes over the connection that waits in the listener.
LEMMA AcceptMoves ==
  ASSUME NEW t, NEW b \in 0..Conns, TransportInv(t, b), t.flow.sock = 0, t.flow.conning = 0,
         t.flow.rx = <<>>
  PROVE  /\ Moves(t, [t EXCEPT !.flow.sock = b, !.tcp = TRUE], 0)
         /\ [t EXCEPT !.flow.sock = b, !.tcp = TRUE].dlg = t.dlg
<1> DEFINE f == [t.flow EXCEPT !.sock = b]
           u == [[t EXCEPT !.flow = f] EXCEPT !.tcp = TRUE]
<1>1. t \in Transports /\ SocketsAreHeld(t, b) /\ t.flow \in FlowRecord
  BY FieldTypes DEF TransportInv
<1>2. f \in FlowRecord /\ f.sock = b /\ f.conning = 0 /\ f.rx = <<>>
        /\ f.pending = t.flow.pending /\ f.target = t.flow.target
        /\ f.connectReq = t.flow.connectReq
  <2>1. f \in FlowRecord
    BY <1>1, FlowUpdates
  <2> QED
    BY <1>1, <2>1 DEF FlowRecord
<1> HIDE DEF f
<1>3. u \in Transports
  <2>1. [t EXCEPT !.flow = f] \in Transports
    BY <1>1, <1>2, TransportUpdates
  <2> QED
    BY <2>1, TransportUpdates
<1>4. /\ u.flow = f /\ u.conns = t.conns /\ u.dlg = t.dlg
      /\ u.wire = t.wire /\ u.retracted = t.retracted
  BY <1>1 DEF Transports
<1>5. u = [t EXCEPT !.flow.sock = b, !.tcp = TRUE]
  BY DEF f
<1> HIDE DEF u
<1>6. SocketsAreHeld(u, 0)
  BY <1>1, <1>2, <1>4 DEF SocketsAreHeld
<1>7. /\ ReadInOrder(u) /\ Len(u.flow.rx) <= MaxRx /\ HasTarget(u)
      /\ \A j \in 1..Conns : ReadOf(u, j) = 0 /\ ReadOf(t, j) = 0
  BY <1>1, <1>2, <1>4, TcpAssumption DEF ReadInOrder, HasTarget, ReadOf, TransportInv
<1>8. Moves(t, u, 0)
  BY <1>2, <1>3, <1>4, <1>6, <1>7, OtherSocketsHeld
<1> QED
  BY <1>4, <1>5, <1>8

\* The connection that waits in the listener is turned away.
LEMMA TurnedAwayMoves ==
  ASSUME NEW t, NEW b \in 0..Conns, TransportInv(t, b)
  PROVE  /\ Moves(t, [t EXCEPT !.conns[b] = NoSocket], 0)
         /\ [t EXCEPT !.conns[b] = NoSocket].dlg = t.dlg
<1> DEFINE c == [t.conns EXCEPT ![b] = NoSocket]
           u == [t EXCEPT !.conns = c]
<1>1. t \in Transports /\ SocketsAreHeld(t, b) /\ t.conns \in [1..Conns -> SocketRecord]
  BY FieldTypes DEF TransportInv
<1>2. c \in [1..Conns -> SocketRecord]
  BY <1>1, NothingTypes
<1>3. \A j \in 1..Conns : c[j] = IF j = b THEN NoSocket ELSE t.conns[j]
  BY <1>1
<1> HIDE DEF c
<1>4. u \in Transports
  BY <1>1, <1>2, TransportUpdates
<1>5. /\ u.flow = t.flow /\ u.conns = c /\ u.dlg = t.dlg
      /\ u.wire = t.wire /\ u.retracted = t.retracted
  BY <1>1 DEF Transports
<1>6. u = [t EXCEPT !.conns[b] = NoSocket]
  BY DEF c
<1> HIDE DEF u
<1>7. SocketsAreHeld(u, 0)
  BY <1>1, <1>3, <1>5 DEF SocketsAreHeld
<1>8. /\ ReadInOrder(u) /\ Len(u.flow.rx) <= MaxRx /\ HasTarget(u)
      /\ \A j \in 1..Conns : ReadOf(u, j) = ReadOf(t, j)
      /\ b \in 1..Conns => ReadOf(t, b) = 0
  BY <1>1, <1>5 DEF ReadInOrder, HasTarget, ReadOf, TransportInv, PiecesInOrder, SocketsAreHeld
<1>9. Moves(t, u, 0)
  <2>1. \A j \in 1..Conns :
           \/ u.conns[j] = t.conns[j]
           \/ ReadOf(t, j) = 0 /\ u.conns[j].inbox = <<>> /\ u.conns[j].half = NoMessage
    BY <1>3, <1>5, <1>8 DEF NoSocket
  <2> QED
    BY <1>4, <1>5, <1>7, <1>8, <2>1, OtherSocketsHeld
<1> QED
  BY <1>5, <1>6, <1>9

-----------------------------------------------------------------------------
(* The SIP task. *)

\* Where the SIP task has nothing left to tell.
Ordinary == {"close", "connect", "requested", "select", "write", "accept", "accepting",
             "udp", "replace", "datagram", "stream", "frame"}

\* There it has no loss in hand, and its state has its type.
LEMMA OrdinaryIsQuiet ==
  ASSUME TcpInv, task.at \in Ordinary
  PROVE  task.lost = None /\ task \in TaskRecord /\ TransportInv(s, backlog)
BY TellingPlaces DEF TcpInv, TypeOK, TellsItsLoss, Ordinary

\* The task goes on, or goes to tell a loss.
At(r, x) == [r EXCEPT !.at = x]
Telled(r, next, c) == [r EXCEPT !.at = Telling[next], !.lost = c]

\* Where it goes on, only its place changes.
LEMMA GoesOn ==
  ASSUME NEW r \in TaskRecord, NEW x \in Ordinary
  PROVE  /\ At(r, x) \in TaskRecord /\ At(r, x).at = x
         /\ At(r, x).lost = r.lost /\ At(r, x).ready = r.ready
<1>1. [r EXCEPT !.at = x] \in TaskRecord
  BY TaskUpdates DEF Ordinary
<1>2. /\ [r EXCEPT !.at = x].at = x
      /\ [r EXCEPT !.at = x].lost = r.lost /\ [r EXCEPT !.at = x].ready = r.ready
  BY TaskFields
<1> QED
  BY <1>1, <1>2 DEF At

\* Where it goes to tell, it has the lost call in hand.
LEMMA GoesToTell ==
  ASSUME NEW r \in TaskRecord, NEW next \in {"close", "select", "accept"}, NEW c \in Calls
  PROVE  /\ Telled(r, next, c) \in TaskRecord /\ Telled(r, next, c).lost = c
         /\ Telled(r, next, c).at = Telling[next]
<1>1. c \in Calls \cup {None}
  OBVIOUS
<1>2. [r EXCEPT !.at = Telling[next], !.lost = c] \in TaskRecord
  BY <1>1, TaskUpdates
<1>3. /\ [r EXCEPT !.at = Telling[next], !.lost = c].lost = c
      /\ [r EXCEPT !.at = Telling[next], !.lost = c].at = Telling[next]
  BY TaskFields
<1> QED
  BY <1>2, <1>3 DEF Telled

\* At the top of its loop it has nothing in hand.
LEMMA RestingFields == Resting \in TaskRecord /\ Resting.lost = None /\ Resting.at = "close"
BY RestingType DEF Resting

\* A step of the task keeps the invariant if what it ends is told, by an event or later.
LEMMA TaskKeeps ==
  ASSUME TcpInv, UNCHANGED main, Moves(s, s', backlog'), backlog' \in 0..Conns,
         inputs' \in 0..Inputs, task' \in TaskRecord, ReportedIsAwaited', TellsItsLoss',
         NEW told \in Seq(Signals), events' = events \o told,
         task.lost # None => \/ task'.lost # None
                             \/ \E k \in DOMAIN told :
                                  told[k].kind = "gone" /\ told[k].call = main.call,
         EndIsTold(s, s', told) \/ task'.lost # None
  PROVE  TcpInv'
<1>1. events \in Seq(Signals) /\ LossHasEvent /\ main \in MainRecord
  BY DEF TcpInv, TypeOK
<1>2. /\ events' \in Seq(Signals)
      /\ \A k \in DOMAIN events : k \in DOMAIN events' /\ events'[k] = events[k]
      /\ \A k \in DOMAIN told : Len(events) + k \in DOMAIN events'
                                  /\ events'[Len(events) + k] = told[k]
  <2>1. /\ events \o told \in Seq(Signals) /\ Len(events \o told) = Len(events) + Len(told)
        /\ \A i \in 1..Len(events) + Len(told) :
              (events \o told)[i] = IF i <= Len(events) THEN events[i]
                                                        ELSE told[i - Len(events)]
    BY <1>1, ConcatProperties
  <2>2. /\ Len(events) \in Nat /\ Len(told) \in Nat /\ DOMAIN events = 1..Len(events)
        /\ DOMAIN told = 1..Len(told) /\ DOMAIN events' = 1..(Len(events) + Len(told))
    BY <1>1, <2>1, LenProperties
  <2>3. ASSUME NEW k \in DOMAIN told
        PROVE  Len(events) + k \in DOMAIN events' /\ events'[Len(events) + k] = told[k]
    <3>1. Len(events) + k \in 1..Len(events) + Len(told) /\ ~ (Len(events) + k <= Len(events))
            /\ (Len(events) + k) - Len(events) = k
      BY <2>2
    <3> QED
      BY <2>1, <2>2, <3>1
  <2>4. ASSUME NEW k \in DOMAIN events
        PROVE  k \in DOMAIN events' /\ events'[k] = events[k]
    BY <2>1, <2>2
  <2> QED
    BY <2>1, <2>3, <2>4
<1>3. TransportInv(s', backlog')
  BY DEF Moves
<1>4. TypeOK'
  BY <1>1, <1>2, <1>3, StateFields DEF TypeOK, TransportInv
<1>5. CallIsNew'
  BY DEF TcpInv, CallIsNew, Placing, Moves, NothingInvited
<1>6. LossHasEvent'
  <2> SUFFICES ASSUME main.at \in {"calling", "call"}, dlg'.call # main.call,
                      task'.lost = None
               PROVE  \E k \in DOMAIN events' : /\ events'[k].kind \in {"ended", "gone"}
                                                /\ events'[k].call = main.call
    BY DEF LossHasEvent
  <2>1. main.call # None
    BY DEF TcpInv, CallIsNew
  <2>2. CASE task.lost # None
    <3>1. PICK k \in DOMAIN told : told[k].kind = "gone" /\ told[k].call = main.call
      BY <2>2
    <3> QED
      BY <1>2, <3>1
  <2>3. CASE task.lost = None /\ dlg.call # main.call
    <3>1. PICK k \in DOMAIN events : events[k].kind \in {"ended", "gone"}
                                       /\ events[k].call = main.call
      BY <1>1, <2>3 DEF LossHasEvent
    <3> QED
      BY <1>2, <3>1
  <2>4. CASE dlg.call = main.call
    <3>1. EndIsTold(s, s', told) /\ s.dlg = dlg /\ s'.dlg = dlg'
      BY StateFields
    <3>2. PICK k \in DOMAIN told : told[k].kind = "ended" /\ told[k].call = dlg.call
      BY <2>1, <2>4, <3>1 DEF EndIsTold
    <3> QED
      BY <1>2, <2>4, <3>2
  <2> QED
    BY <2>2, <2>3, <2>4
<1> QED
  BY <1>3, <1>4, <1>5, <1>6 DEF TcpInv

\* Nothing is told: events are as before.
LEMMA NothingTold ==
  ASSUME TcpInv
  PROVE  events = events \o <<>> /\ <<>> \in Seq(Signals)
BY ConcatEmptySeq, EmptySeq DEF TcpInv, TypeOK

\* A step that tells nothing ends no dialog.
LEMMA QuietStep ==
  ASSUME TcpInv, task.at \in Ordinary, UNCHANGED <<main, events>>,
         Moves(s, s', backlog'), s'.dlg = s.dlg,
         backlog' \in 0..Conns, inputs' \in 0..Inputs,
         task' \in TaskRecord, task'.lost = None, ReportedIsAwaited'
  PROVE  TcpInv'
<1>1. EndIsTold(s, s', <<>>)
  BY DEF EndIsTold
<1>2. TellsItsLoss' /\ task.lost = None
  BY OrdinaryIsQuiet DEF TellsItsLoss
<1>3. events' = events \o <<>> /\ <<>> \in Seq(Signals)
  BY NothingTold
<1> QED
  BY <1>1, <1>2, <1>3, TaskKeeps

\* The dialog that the flow carried goes with it, and is told a step later.
LEMMA LosesKeeps ==
  ASSUME TcpInv, task.at \in Ordinary, UNCHANGED <<main, backlog, events, inputs>>,
         NEW t, Moves(s, t, backlog), t.dlg = s.dlg,
         NEW next \in {"close", "select", "accept"}, Loses(t, next)
  PROVE  TcpInv'
<1>1. /\ Moves(t, CloseDialog(t), backlog)
      /\ CloseDialog(t).dlg = IF LosesDialog(t) THEN NoDialog ELSE t.dlg
  BY CloseDialogMoves DEF Moves
<1>2. Moves(s, CloseDialog(t), backlog) /\ CloseDialog(t) \in Transports
  BY <1>1, MovesOn DEF Moves, TransportInv
<1>3. s' = CloseDialog(t)
  BY <1>2, BecomesIt DEF Loses
<1>4. /\ task \in TaskRecord /\ task.lost = None /\ inputs \in 0..Inputs
      /\ backlog \in 0..Conns
  BY OrdinaryIsQuiet, NetworkTypes
<1>5. events' = events \o <<>> /\ <<>> \in Seq(Signals)
  BY NothingTold
<1>6. CASE LosesDialog(t)
  <2>1. t.dlg.call \in Calls /\ t.dlg.call # None
    BY <1>6, FieldTypes
       DEF LosesDialog, Owned, Moves, TransportInv, DialogHasCall, Calls, None
  <2>2. task' = Telled(task, next, t.dlg.call)
    BY <1>6 DEF Loses, Telled
  <2>3. task' \in TaskRecord /\ task'.lost # None /\ task'.at = Telling[next]
    BY <1>4, <2>1, <2>2, GoesToTell
  <2>4. TellsItsLoss' /\ ReportedIsAwaited'
    BY <2>3, TellingPlaces DEF TellsItsLoss, ReportedIsAwaited
  <2> QED
    BY <1>2, <1>3, <1>4, <1>5, <2>3, <2>4, TaskKeeps
<1>7. CASE ~ LosesDialog(t)
  <2>1. task' = IF next = "close" THEN Resting ELSE At(task, next)
    BY <1>7 DEF Loses, At
  <2>2. task' \in TaskRecord /\ task'.lost = None /\ task'.at = next
    BY <1>4, <2>1, RestingFields, GoesOn DEF Ordinary
  <2>3. ReportedIsAwaited'
    BY <2>2 DEF ReportedIsAwaited
  <2> QED
    BY <1>1, <1>2, <1>3, <1>4, <1>7, <2>2, <2>3, QuietStep
<1> QED
  BY <1>6, <1>7

\* Where the task may go without having to say why.
Proceeds == task' = Resting \/ \E x \in Ordinary \ {"write"} : task' = At(task, x)

\* It then has its type, nothing to tell and no connect that was reported.
LEMMA ProceedsTo ==
  ASSUME TcpInv, task.at \in Ordinary, Proceeds
  PROVE  /\ task' \in TaskRecord /\ task'.lost = None
         /\ ReportedIsAwaited' /\ TellsItsLoss'
<1>1. task \in TaskRecord /\ task.lost = None
  BY OrdinaryIsQuiet
<1>2. task' \in TaskRecord /\ task'.lost = None /\ task'.at # "write"
  BY <1>1, GoesOn, RestingFields DEF Proceeds, Ordinary
<1> QED
  BY <1>2 DEF ReportedIsAwaited, TellsItsLoss

\* The steps of the model that proceed.
LEMMA GoesProceeds ==
  /\ \A x \in Ordinary \ {"write"} : Goes(x) => Proceeds
  /\ GoesAnew => Proceeds
BY DEF Goes, GoesAnew, Proceeds, At

\* The task goes on and the flow is as before, or has moved.
LEMMA StaysQuietly ==
  ASSUME TcpInv, task.at \in Ordinary, Proceeds,
         UNCHANGED <<main, transport, backlog, events, inputs>>
  PROVE  TcpInv'
<1>1. s' = s /\ TransportInv(s, backlog) /\ inputs \in 0..Inputs /\ backlog \in 0..Conns
  BY BecomesIt, NetworkTypes
<1>2. Moves(s, s', backlog')
  BY <1>1, StayMoves
<1> QED
  BY <1>1, <1>2, ProceedsTo, QuietStep

\* The flow has moved to t, whose dialog is the one there was.
LEMMA MovesQuietly ==
  ASSUME TcpInv, task.at \in Ordinary, Proceeds, UNCHANGED <<main, events, inputs>>,
         backlog' \in 0..Conns, NEW t, Moves(s, t, backlog'), t.dlg = s.dlg, Becomes(t)
  PROVE  TcpInv'
<1>1. s' = t /\ inputs \in 0..Inputs
  BY BecomesIt, NetworkTypes DEF Moves, TransportInv
<1> QED
  BY <1>1, ProceedsTo, QuietStep

\* The close that was requested is done.
LEMMA PrepareCloseKeeps ==
  ASSUME TcpInv, PrepareClose
  PROVE  TcpInv'
<1>1. task.at \in Ordinary /\ Proceeds /\ UNCHANGED <<main, backlog, events, inputs>>
  BY GoesProceeds DEF PrepareClose, TaskStep, UnmovedByTask, Ordinary
<1>2. TransportInv(s, backlog) /\ s \in Transports /\ backlog' \in 0..Conns
  BY <1>1, NetworkTypes
<1>3. CASE flow.closeReq
  <2>1. Moves(s, CloseFlow(s), backlog') /\ CloseFlow(s).dlg = s.dlg
    BY <1>1, <1>2, CloseFlowMoves, CloseFlowFields
  <2>2. Becomes(CloseFlow(s))
    BY <1>3 DEF PrepareClose
  <2> QED
    BY <1>1, <1>2, <2>1, <2>2, MovesQuietly
<1>4. CASE ~ flow.closeReq
  BY <1>1, <1>4, StaysQuietly DEF PrepareClose
<1> QED
  BY <1>3, <1>4

\* The connect that was requested begins, or fails at once and loses the dialog.
LEMMA PrepareConnectKeeps ==
  ASSUME TcpInv, PrepareConnect
  PROVE  TcpInv'
<1>1. task.at \in Ordinary /\ UNCHANGED <<main, backlog, events, inputs>>
  BY DEF PrepareConnect, TaskStep, UnmovedByTask, Ordinary
<1>2. TransportInv(s, backlog) /\ s \in Transports /\ backlog' \in 0..Conns /\ s.flow = flow
  BY <1>1, NetworkTypes
<1>3. CASE ~ flow.connectReq
  BY <1>1, <1>3, StaysQuietly, GoesProceeds DEF PrepareConnect, Ordinary
<1>4. CASE flow.connectReq
  <2> DEFINE t == CloseFlow(s)
             dialling == [t EXCEPT !.flow.conning = Free(t),
                                   !.conns[Free(t)] = [NoSocket EXCEPT !.st = "dialling",
                                                                       !.peer = t.flow.target]]
  <2>1. /\ Moves(s, t, backlog) /\ t.dlg = s.dlg /\ t.flow.sock = 0 /\ t.flow.conning = 0
        /\ t.flow.rx = <<>> /\ t.flow.connectReq /\ t.flow.target = flow.target
    BY <1>2, <1>4, CloseFlowMoves, CloseFlowFields
  <2>2. CASE Becomes(dialling) /\ Goes("requested")
    <3> HIDE DEF t
    <3>1. Moves(t, dialling, backlog) /\ dialling.dlg = t.dlg
      BY <1>1, <1>2, <2>1, DiallingMoves DEF Moves
    <3> HIDE DEF dialling
    <3>2. Moves(s, dialling, backlog') /\ dialling.dlg = s.dlg
      BY <1>1, <2>1, <3>1, MovesOn
    <3>3. Proceeds
      BY <2>2, GoesProceeds DEF Ordinary
    <3> QED
      BY <1>1, <1>2, <2>2, <3>2, <3>3, MovesQuietly
  <2>3. CASE Loses(t, "select")
    <3> HIDE DEF t
    <3> QED
      BY <1>1, <2>1, <2>3, LosesKeeps
  <2> QED
    BY <1>4, <2>1, <2>2, <2>3 DEF PrepareConnect
<1> QED
  BY <1>3, <1>4

\* The request has been taken up.
LEMMA ConnectBegunKeeps ==
  ASSUME TcpInv, ConnectBegun
  PROVE  TcpInv'
<1>1. /\ task.at \in Ordinary /\ Proceeds /\ UNCHANGED <<main, backlog, events, inputs>>
      /\ Becomes([s EXCEPT !.flow.connectReq = FALSE])
  BY GoesProceeds DEF ConnectBegun, TaskStep, UnmovedByTask, Ordinary
<1>2. TransportInv(s, backlog) /\ s \in Transports /\ backlog' \in 0..Conns
  BY <1>1, NetworkTypes
<1>3. Moves(s, [s EXCEPT !.flow.connectReq = FALSE], backlog)
        /\ [s EXCEPT !.flow.connectReq = FALSE].dlg = s.dlg
  <2> DEFINE f == [s.flow EXCEPT !.connectReq = FALSE]
             u == [s EXCEPT !.flow = f]
  <2>1. s.flow \in FlowRecord
    BY <1>2, FieldTypes
  <2>2. f \in FlowRecord
    BY <2>1, FlowUpdates
  <2>3. /\ f.sock = s.flow.sock /\ f.conning = s.flow.conning /\ f.rx = s.flow.rx
        /\ f.pending = s.flow.pending /\ ~ f.connectReq
    BY <2>1 DEF FlowRecord
  <2>4. u \in Transports
    BY <1>2, <2>2, TransportUpdates
  <2>5. /\ u.flow = f /\ u.conns = s.conns /\ u.dlg = s.dlg /\ u.wire = s.wire
        /\ u.retracted = s.retracted
    BY <1>2 DEF Transports
  <2>6. u = [s EXCEPT !.flow.connectReq = FALSE]
    OBVIOUS
  <2> HIDE DEF u, f
  <2>7. HasTarget(u) /\ SameSockets(s, u)
    BY <2>3, <2>5 DEF HasTarget, SameSockets
  <2>8. Moves(s, u, backlog)
    BY <1>2, <2>3, <2>4, <2>5, <2>7, FlagMoves
  <2> QED
    BY <2>5, <2>6, <2>8
<1> QED
  BY <1>1, <1>2, <1>3, MovesQuietly

\* What a datagram may say is a message, and what select finds has its type.
LEMMA MaySayMessages ==
  ASSUME NEW asked \in SUBSET Calls
  PROVE  MaySay(asked) \subseteq Messages
<1>1. In \in Calls
  BY TcpAssumption DEF Calls, In
<1> SUFFICES ASSUME NEW m \in MaySay(asked) PROVE m \in Messages
  OBVIOUS
<1>2. CASE m \in [kind : {"invite", "probe"}, call : {In}]
  BY <1>1, <1>2 DEF Messages
<1>3. CASE m \in [kind : {"answer", "refuse", "bye", "done"}, call : asked]
  BY <1>3 DEF Messages
<1> QED
  BY <1>2, <1>3 DEF MaySay

\* A connect that select reports is the one of the flow.
LEMMA ReadyType ==
  ASSUME TcpInv, NEW udp \in Messages
  PROVE  /\ Ready(udp) \in ReadyRecord
         /\ Ready(udp).conn # 0 => flow.conning = Ready(udp).conn
<1>1. flow.conning \in 0..Conns /\ flow.sock \in 0..Conns /\ wake \in BOOLEAN
  BY NetworkTypes, FieldTypes, StateFields
<1> DEFINE c == IF flow.conning # 0 /\ conns[flow.conning].st \in {"open", "refused"}
                THEN flow.conning ELSE 0
           k == IF flow.sock # 0 /\ (conns[flow.sock].inbox # <<>> \/ conns[flow.sock].st = "gone")
                THEN flow.sock ELSE 0
           a == backlog # 0
<1>2. c \in 0..Conns /\ k \in 0..Conns /\ (c # 0 => flow.conning = c)
  <2>1. 0 \in 0..Conns
    BY TcpAssumption
  <2> QED
    BY <1>1, <2>1, Zenon
<1>3. a \in BOOLEAN
  OBVIOUS
<1>4. Ready(udp) = [wake |-> wake, conn |-> c, accept |-> a, udp |-> udp, sock |-> k]
  BY DEF Ready
<1> HIDE DEF c, k, a
<1> QED
  <2>1. Ready(udp).conn = c
    BY <1>4
  <2>2. Ready(udp) \in ReadyRecord
    <3>1. [wake |-> wake, conn |-> c, accept |-> a, udp |-> udp, sock |-> k] \in ReadyRecord
      BY <1>1, <1>2, <1>3, Zenon DEF ReadyRecord
    <3> QED
      BY <1>4, <3>1
  <2> QED
    BY <1>2, <2>1, <2>2

\* Select finds something ready; a datagram may have come.
LEMMA SelectKeeps ==
  ASSUME TcpInv, Select
  PROVE  TcpInv'
<1>1. /\ task.at \in Ordinary /\ UNCHANGED <<main, backlog, events>>
      /\ Becomes([s EXCEPT !.wake = FALSE])
  BY DEF Select, TaskStep, Ordinary
<1>2. /\ TransportInv(s, backlog) /\ s \in Transports /\ backlog' \in 0..Conns
      /\ inputs \in 0..Inputs /\ task \in TaskRecord /\ task.lost = None
  BY <1>1, NetworkTypes, OrdinaryIsQuiet
<1>3. PICK udp \in {NoMessage} \cup (IF inputs > 0 THEN MaySay(udpSent) ELSE {}) :
          /\ task' = [task EXCEPT !.at = "write", !.ready = Ready(udp)]
          /\ inputs' = IF udp = NoMessage THEN inputs ELSE inputs - 1
  BY DEF Select
<1>4. udp \in Messages /\ inputs' \in 0..Inputs
  <2>1. udpSent \in SUBSET Calls
    BY <1>2, FieldTypes, StateFields
  <2>2. udp \in Messages
    BY <1>3, <2>1, MaySayMessages, MessageTypes
  <2>3. udp = NoMessage \/ inputs > 0
    BY <1>3
  <2>4. inputs' \in 0..Inputs
    BY <1>2, <1>3, <2>3, TcpAssumption
  <2> QED
    BY <2>2, <2>4
<1>5. Moves(s, [s EXCEPT !.wake = FALSE], backlog) /\ [s EXCEPT !.wake = FALSE].dlg = s.dlg
  <2> DEFINE u == [s EXCEPT !.wake = FALSE]
  <2>1. u \in Transports
    <3>1. FALSE \in BOOLEAN
      OBVIOUS
    <3> QED
      BY <1>2, <3>1, TransportUpdates
  <2>2. /\ u.flow = s.flow /\ u.conns = s.conns /\ u.dlg = s.dlg /\ u.wire = s.wire
        /\ u.retracted = s.retracted
    BY <1>2 DEF Transports
  <2> HIDE DEF u
  <2>3. HasTarget(u) /\ SameSockets(s, u)
    BY <1>2, <2>2 DEF TransportInv, HasTarget, SameSockets
  <2>4. Moves(s, u, backlog)
    BY <1>2, <2>1, <2>2, <2>3, FlagMoves
  <2> QED
    BY <2>2, <2>4 DEF u
<1>6. s' = [s EXCEPT !.wake = FALSE] /\ flow' = flow
  <2> DEFINE u == [s EXCEPT !.wake = FALSE]
  <2>1. u \in Transports /\ Becomes(u)
    BY <1>1, <1>5 DEF Moves, TransportInv
  <2>2. u.flow = flow
    BY <1>2, StateFields DEF Transports
  <2> HIDE DEF u
  <2>3. s' = u /\ flow' = flow
    BY <2>1, <2>2, BecomesIt DEF Becomes
  <2> QED
    BY <2>3 DEF u
<1>7. /\ task' \in TaskRecord /\ task'.lost = None /\ task'.ready = Ready(udp)
      /\ Ready(udp).conn # 0 => flow.conning = Ready(udp).conn
  <2> DEFINE y == Ready(udp)
  <2>1. y \in ReadyRecord /\ (y.conn # 0 => flow.conning = y.conn)
    BY <1>4, ReadyType
  <2>2. task' = [task EXCEPT !.at = "write", !.ready = y]
    BY <1>3
  <2> HIDE DEF y
  <2>3. [task EXCEPT !.at = "write"] \in TaskRecord
    BY <1>2, TaskUpdates
  <2>4. task' \in TaskRecord
    BY <2>1, <2>2, <2>3, TaskUpdates
  <2>5. task'.lost = None /\ task'.ready = y
    BY <1>2, <2>2 DEF TaskRecord
  <2> QED
    BY <2>1, <2>4, <2>5 DEF y
<1>8. ReportedIsAwaited'
  BY <1>6, <1>7 DEF ReportedIsAwaited
<1> QED
  BY <1>1, <1>2, <1>4, <1>5, <1>6, <1>7, <1>8, QuietStep

\* The connect was too late: the dialog is lost.
LEMMA ConnectExpiredKeeps ==
  ASSUME TcpInv, ConnectExpired
  PROVE  TcpInv'
<1>1. /\ task.at \in Ordinary /\ UNCHANGED <<main, backlog, events, inputs>>
      /\ Loses(s, "close")
  BY DEF ConnectExpired, TaskStep, UnmovedByTask, Ordinary
<1>2. Moves(s, s, backlog)
  BY NetworkTypes, StayMoves
<1> QED
  BY <1>1, <1>2, LosesKeeps

\* What is told of the end of a dialog.
LEMMA AppendsIt ==
  ASSUME TcpInv, NEW e \in Signals
  PROVE  Append(events, e) = events \o <<e>> /\ <<e>> \in Seq(Signals)
<1>1. events \in Seq(Signals)
  BY DEF TcpInv, TypeOK
<1> QED
  BY <1>1, AppendIsConcat

\* A deadline passes: the dialog is reset, and that is told at once.
LEMMA TransactionExpiresKeeps ==
  ASSUME TcpInv, TransactionExpires
  PROVE  TcpInv'
<1> DEFINE e == [kind |-> "ended", call |-> dlg.call, lost |-> None]
<1>1. /\ task.at \in Ordinary /\ UNCHANGED <<main, backlog, inputs>> /\ Proceeds
      /\ Becomes(ResetDialog(s)) /\ (dlg.out \/ dlg.term) /\ events' = Append(events, e)
  BY GoesProceeds DEF TransactionExpires, TaskStep, Ordinary
<1>2. /\ TransportInv(s, backlog) /\ backlog' \in 0..Conns /\ inputs' \in 0..Inputs
      /\ s.dlg = dlg
  BY <1>1, NetworkTypes, StateFields
<1>3. Moves(s, ResetDialog(s), backlog)
  BY <1>2, ResetMoves
<1>4. s' = ResetDialog(s) /\ Moves(s, s', backlog')
  BY <1>1, <1>3, BecomesIt DEF Moves, TransportInv
<1>5. dlg.call \in Calls
  BY <1>1, <1>2, FieldTypes DEF TransportInv, DialogHasCall, NoDialog
<1>6. e \in Signals
  BY <1>5, Zenon DEF Signals
<1>7. events' = events \o <<e>> /\ <<e>> \in Seq(Signals)
  BY <1>1, <1>6, AppendsIt
<1>8. EndIsTold(s, s', <<e>>)
  BY <1>2, <1>5, OneIsTold
<1>9. task.lost = None
  BY <1>1, OrdinaryIsQuiet
<1> HIDE DEF e
<1> QED
  BY <1>1, <1>2, <1>4, <1>7, <1>8, <1>9, ProceedsTo, TaskKeeps

\* The connect has succeeded, and the waiting record is sent, or has failed.
LEMMA ConnectResolvedKeeps ==
  ASSUME TcpInv, ConnectResolved
  PROVE  TcpInv'
<1>1. task.at = "write" /\ task.at \in Ordinary /\ UNCHANGED <<main, backlog, events, inputs>>
  BY DEF ConnectResolved, TaskStep, UnmovedByTask, Ordinary
<1>2. TransportInv(s, backlog) /\ backlog' \in 0..Conns /\ s.flow = flow
  BY <1>1, NetworkTypes
<1>3. CASE task.ready.conn = 0
  BY <1>1, <1>3, StaysQuietly, GoesProceeds DEF ConnectResolved, Ordinary
<1>4. CASE task.ready.conn # 0 /\ conns[flow.conning].st = "refused"
  <2>1. Loses(s, "accept") /\ Moves(s, s, backlog)
    BY <1>2, <1>4, StayMoves DEF ConnectResolved
  <2> QED
    BY <1>1, <2>1, LosesKeeps
<1>5. CASE task.ready.conn # 0 /\ conns[flow.conning].st # "refused"
  <2>1. PICK r \in Promotes(s) :
            IF r[1] THEN Becomes(r[2]) /\ Goes("accept") ELSE Loses(r[2], "accept")
    BY <1>5 DEF ConnectResolved
  <2>2. s.flow.conning # 0
    BY <1>1, <1>2, <1>5 DEF TcpInv, ReportedIsAwaited
  <2>3. Moves(s, r[2], backlog) /\ r[2].dlg = s.dlg
    BY <1>2, <2>2, PromotesMoves
  <2>4. CASE r[1]
    <3>1. Becomes(r[2]) /\ Proceeds
      BY <2>1, <2>4, GoesProceeds DEF Ordinary
    <3>2. Moves(s, r[2], backlog')
      BY <1>1, <2>3
    <3> QED
      BY <1>1, <1>2, <2>3, <3>1, <3>2, MovesQuietly
  <2>5. CASE ~ r[1]
    <3>1. Loses(r[2], "accept")
      BY <2>1, <2>5
    <3> QED
      BY <1>1, <2>3, <3>1, LosesKeeps
  <2> QED
    BY <2>4, <2>5
<1> QED
  BY <1>3, <1>4, <1>5

\* Whoever waits in the listener is let in, turned away, or is not there.
LEMMA AcceptCheckedKeeps ==
  ASSUME TcpInv, AcceptChecked
  PROVE  TcpInv'
<1>1. task.at \in Ordinary /\ UNCHANGED <<main, events, inputs>>
  BY DEF AcceptChecked, TaskStep, Ordinary
<1>2. TransportInv(s, backlog) /\ backlog \in 0..Conns /\ 0 \in 0..Conns
  BY NetworkTypes, TcpAssumption
<1>3. CASE UNCHANGED <<transport, backlog>> /\ (Goes("udp") \/ Goes("accepting"))
  BY <1>1, <1>3, StaysQuietly, GoesProceeds DEF Ordinary
<1>4. CASE GoesAnew /\ backlog' = 0 /\ Becomes([s EXCEPT !.conns[backlog] = NoSocket])
  <2>1. /\ Moves(s, [s EXCEPT !.conns[backlog] = NoSocket], 0)
        /\ [s EXCEPT !.conns[backlog] = NoSocket].dlg = s.dlg
    BY <1>2, TurnedAwayMoves
  <2>2. Proceeds
    BY <1>4, GoesProceeds
  <2> QED
    BY <1>1, <1>2, <1>4, <2>1, <2>2, MovesQuietly
<1> QED
  BY <1>3, <1>4 DEF AcceptChecked

\* The connection is taken over, in the place of the one there was.
LEMMA AcceptKeeps ==
  ASSUME TcpInv, Accept
  PROVE  TcpInv'
<1> DEFINE t == CloseFlow(s)
<1>1. /\ task.at \in Ordinary /\ UNCHANGED <<main, events, inputs>> /\ backlog' = 0 /\ Proceeds
      /\ Becomes([t EXCEPT !.flow.sock = backlog, !.tcp = TRUE])
  BY GoesProceeds DEF Accept, TaskStep, Ordinary
<1>2. TransportInv(s, backlog) /\ s \in Transports /\ backlog \in 0..Conns /\ 0 \in 0..Conns
  BY NetworkTypes, TcpAssumption
<1>3. /\ Moves(s, t, backlog) /\ t.dlg = s.dlg /\ t.flow.sock = 0 /\ t.flow.conning = 0
      /\ t.flow.rx = <<>>
  BY <1>2, CloseFlowMoves, CloseFlowFields
<1> HIDE DEF t
<1> DEFINE u == [t EXCEPT !.flow.sock = backlog, !.tcp = TRUE]
<1>4. Moves(t, u, 0) /\ u.dlg = t.dlg
  BY <1>2, <1>3, AcceptMoves DEF Moves
<1>5. Becomes(u)
  BY <1>1
<1> HIDE DEF u
<1>6. Moves(s, u, 0) /\ u.dlg = s.dlg
  BY <1>3, <1>4 DEF Moves, NothingInvited
<1> QED
  BY <1>1, <1>2, <1>5, <1>6, MovesQuietly

\* The flow reads from its socket i, or cuts what it has read: u differs from t in
\* what is read and in what is still on its way on i.
LEMMA ReadMoves ==
  ASSUME NEW t, NEW b, TransportInv(t, b), NEW u \in Transports, NEW i \in 1..Conns,
         t.flow.sock = i, u.flow.sock = i, u.flow.conning = t.flow.conning, HasTarget(u),
         u.flow.pending = t.flow.pending, u.dlg = t.dlg, u.wire = t.wire,
         u.retracted = t.retracted, Len(u.flow.rx) <= MaxRx, ReadInOrder(u),
         SocketInOrder(u.conns[i], i, Len(u.flow.rx)),
         u.conns[i].st = t.conns[i].st, u.conns[i].peer = t.conns[i].peer,
         \A j \in 1..Conns : j # i => u.conns[j] = t.conns[j]
  PROVE  Moves(t, u, b)
<1>1. t \in Transports /\ SocketsAreHeld(t, b)
  BY DEF TransportInv
<1>2. SocketsAreHeld(u, b)
  BY <1>1 DEF SocketsAreHeld
<1>3. PiecesInOrder(u)
  <2>1. \A j \in 1..Conns : j # i => SocketInOrder(t.conns[j], j, 0)
    BY DEF TransportInv, PiecesInOrder, ReadOf
  <2> QED
    BY <2>1 DEF PiecesInOrder, ReadOf
<1>4. WaitsUnheard(u) /\ NotHeardOnceRetracted(u) /\ NothingInvited(t, u)
  BY <1>1, NoNewInvite DEF TransportInv
<1> QED
  BY <1>2, <1>3, <1>4 DEF Moves, TransportInv, DialogHasCall

\* Everything that has arrived is read.
LEMMA ReadsAllMoves ==
  ASSUME NEW t, NEW b, TransportInv(t, b), NEW i \in 1..Conns, t.flow.sock = i,
         Len(t.flow.rx \o t.conns[i].inbox) <= MaxRx
  PROVE  /\ Moves(t, [t EXCEPT !.flow.rx = t.flow.rx \o t.conns[i].inbox,
                               !.conns[i].inbox = <<>>], b)
         /\ [t EXCEPT !.flow.rx = t.flow.rx \o t.conns[i].inbox,
                      !.conns[i].inbox = <<>>].dlg = t.dlg
<1>1. /\ t \in Transports /\ t.flow \in FlowRecord /\ t.conns \in [1..Conns -> SocketRecord]
      /\ t.flow.rx \in Seq(Pieces) /\ t.conns[i].inbox \in Seq(Pieces)
      /\ t.conns[i] \in SocketRecord /\ ReadInOrder(t) /\ HasTarget(t)
      /\ SocketInOrder(t.conns[i], i, Len(t.flow.rx))
  BY FieldTypes, SocketTypes DEF TransportInv, PiecesInOrder, ReadOf
<1> DEFINE r == t.flow.rx \o t.conns[i].inbox
           f == [t.flow EXCEPT !.rx = r]
           c == [t.conns[i] EXCEPT !.inbox = <<>>]
           u == [[t EXCEPT !.flow = f] EXCEPT !.conns = [t.conns EXCEPT ![i] = c]]
<1>2. /\ r \in Seq(Pieces) /\ Len(r) = Len(t.flow.rx) + Len(t.conns[i].inbox)
      /\ \A k \in 1..Len(t.flow.rx) + Len(t.conns[i].inbox) :
            r[k] = IF k <= Len(t.flow.rx) THEN t.flow.rx[k]
                                          ELSE t.conns[i].inbox[k - Len(t.flow.rx)]
      /\ Len(t.flow.rx) \in Nat /\ Len(t.conns[i].inbox) \in Nat /\ DOMAIN r = 1..Len(r)
      /\ DOMAIN t.flow.rx = 1..Len(t.flow.rx)
      /\ DOMAIN t.conns[i].inbox = 1..Len(t.conns[i].inbox) /\ Len(r) <= MaxRx
  BY <1>1, ConcatProperties, LenProperties
<1> HIDE DEF r
<1>3. /\ c \in SocketRecord /\ c.inbox = <<>> /\ c.half = t.conns[i].half
      /\ c.st = t.conns[i].st /\ c.peer = t.conns[i].peer
  <2>1. <<>> \in Seq(Pieces)
    BY EmptySeq
  <2>2. c \in SocketRecord
    BY <1>1, <2>1, Zenon DEF SocketRecord
  <2> QED
    BY <1>1, <2>2 DEF SocketRecord
<1>4. f \in FlowRecord /\ f.rx = r /\ f.sock = i /\ f.conning = t.flow.conning
        /\ f.pending = t.flow.pending /\ f.connectReq = t.flow.connectReq
        /\ f.target = t.flow.target
  <2>1. f \in FlowRecord
    BY <1>1, <1>2, FlowUpdates
  <2> QED
    BY <1>1, <2>1 DEF FlowRecord
<1>5. u = [t EXCEPT !.flow.rx = t.flow.rx \o t.conns[i].inbox, !.conns[i].inbox = <<>>]
  BY DEF r
<1> HIDE DEF c, f
<1>6. [t.conns EXCEPT ![i] = c] \in [1..Conns -> SocketRecord]
  BY <1>1, <1>3
<1>7. u \in Transports
  <2>1. [t EXCEPT !.flow = f] \in Transports
    BY <1>1, <1>4, TransportUpdates
  <2> QED
    BY <1>6, <2>1, TransportUpdates
<1>8. /\ u.flow = f /\ u.dlg = t.dlg /\ u.wire = t.wire /\ u.retracted = t.retracted
      /\ u.conns[i] = c /\ \A j \in 1..Conns : j # i => u.conns[j] = t.conns[j]
  BY <1>1 DEF Transports
<1> HIDE DEF u
<1>9. ReadInOrder(u)
  <2> DEFINE m == Len(t.flow.rx)
             l == Len(t.conns[i].inbox)
  <2>1. /\ m \in Nat /\ l \in Nat /\ DOMAIN r = 1..m + l
        /\ DOMAIN t.flow.rx = 1..m /\ DOMAIN t.conns[i].inbox = 1..l
        /\ \A k \in 1..m + l : r[k] = IF k <= m THEN t.flow.rx[k]
                                               ELSE t.conns[i].inbox[k - m]
        /\ \A k \in 1..l : /\ t.conns[i].inbox[k].conn = i
                           /\ t.conns[i].inbox[k].part = HalfOf(m + k)
    BY <1>1, <1>2 DEF SocketInOrder
  <2> HIDE DEF m, l
  <2>2. ASSUME NEW k \in 1..m + l PROVE r[k].conn = i /\ r[k].part = HalfOf(k)
    <3>1. CASE k <= m
      <4>1. k \in 1..m /\ r[k] = t.flow.rx[k]
        BY <2>1, <3>1
      <4> QED
        BY <1>1, <2>1, <4>1 DEF ReadInOrder
    <3>2. CASE ~ (k <= m)
      <4>1. k - m \in 1..l /\ m + (k - m) = k
        BY <2>1, <3>2
      <4>2. r[k] = t.conns[i].inbox[k - m]
        BY <2>1, <3>2
      <4> QED
        BY <2>1, <4>1, <4>2
    <3> QED
      BY <3>1, <3>2
  <2> QED
    BY <1>4, <1>8, <2>1, <2>2 DEF ReadInOrder
<1>10. SocketInOrder(u.conns[i], i, Len(u.flow.rx))
  <2>1. Len(<<>>) = 0 /\ Len(r) + 0 = Len(t.flow.rx) + Len(t.conns[i].inbox)
          /\ DOMAIN <<>> = {}
    BY <1>2
  <2> QED
    BY <1>1, <1>3, <1>4, <1>8, <2>1 DEF SocketInOrder
<1>11. HasTarget(u)
  BY <1>1, <1>4, <1>8 DEF HasTarget
<1>12. Moves(t, u, b)
  BY <1>2, <1>3, <1>4, <1>7, <1>8, <1>9, <1>10, <1>11, ReadMoves
<1> QED
  BY <1>5, <1>8, <1>12

\* A whole message is cut off: two halves, and the rest stays in turn.
LEMMA CutMoves ==
  ASSUME NEW t, NEW b, TransportInv(t, b), Len(t.flow.rx) >= 2
  PROVE  /\ Moves(t, [t EXCEPT !.flow.rx = SubSeq(@, 3, Len(@))], b)
         /\ [t EXCEPT !.flow.rx = SubSeq(@, 3, Len(@))].dlg = t.dlg
         /\ t.flow.rx[2].m \in Messages
<1> DEFINE i == t.flow.sock
           n == Len(t.flow.rx)
           r == SubSeq(t.flow.rx, 3, n)
           f == [t.flow EXCEPT !.rx = r]
           u == [t EXCEPT !.flow = f]
<1>1. /\ t \in Transports /\ t.flow \in FlowRecord /\ t.flow.rx \in Seq(Pieces)
      /\ ReadInOrder(t) /\ HasTarget(t) /\ n <= MaxRx
      /\ DOMAIN t.flow.rx = 1..n /\ n \in Nat /\ n >= 2 /\ i \in 0..Conns
  BY FieldTypes, LenProperties DEF TransportInv, PiecesInOrder
<1> HIDE DEF n
<1>2. \A k \in 1..n : t.flow.rx[k] \in Pieces
  BY <1>1
<1>3. /\ r \in Seq(Pieces) /\ Len(r) = n - 2 /\ \A k \in 1..n - 2 : r[k] = t.flow.rx[k + 2]
      /\ DOMAIN r = 1..n - 2
  <2>1. /\ r \in Seq(Pieces) /\ Len(r) = IF 3 <= n THEN n - 3 + 1 ELSE 0
        /\ \A k \in 1..n - 3 + 1 : r[k] = t.flow.rx[3 + k - 1]
    <3>1. 3 \in Int /\ n \in Int /\ \A k \in 3..n : t.flow.rx[k] \in Pieces
      BY <1>1, <1>2
    <3> QED
      BY <3>1, SubSeqProperties
  <2>2. /\ n - 3 + 1 = n - 2 /\ (~ (3 <= n) => n - 2 = 0)
        /\ \A k \in 1..n - 2 : 3 + k - 1 = k + 2
    BY <1>1
  <2> HIDE DEF r
  <2>3. Len(r) = n - 2 /\ DOMAIN r = 1..Len(r)
    BY <2>1, <2>2, LenProperties
  <2> QED
    BY <2>1, <2>2, <2>3
<1>4. \A k \in Nat : HalfOf(k + 2) = HalfOf(k)
  BY DEF HalfOf
<1> HIDE DEF r
<1>5. i \in 1..Conns /\ SocketInOrder(t.conns[i], i, n)
  <2>1. i # 0
    <3>1. 1 \in 1..n /\ t.flow.rx[1].conn = i
      BY <1>1 DEF ReadInOrder
    <3>2. t.flow.rx[1].conn \in 1..Conns
      BY <1>2, <3>1 DEF Pieces
    <3> QED
      BY <3>1, <3>2
  <2>2. i \in 1..Conns
    BY <1>1, <2>1
  <2> QED
    BY <2>2 DEF TransportInv, PiecesInOrder, ReadOf, n
<1>6. f \in FlowRecord /\ f.rx = r /\ f.sock = i /\ f.conning = t.flow.conning
        /\ f.pending = t.flow.pending /\ f.connectReq = t.flow.connectReq
        /\ f.target = t.flow.target
  <2>1. f \in FlowRecord
    BY <1>1, <1>3, FlowUpdates
  <2> QED
    BY <1>1, <2>1 DEF FlowRecord
<1>7. u = [t EXCEPT !.flow.rx = SubSeq(@, 3, Len(@))]
  BY DEF r, n
<1> HIDE DEF f
<1>8. u \in Transports
  BY <1>1, <1>6, TransportUpdates
<1>9. /\ u.flow = f /\ u.dlg = t.dlg /\ u.wire = t.wire /\ u.retracted = t.retracted
      /\ u.conns = t.conns
  BY <1>1 DEF Transports
<1> HIDE DEF u
<1>10. ReadInOrder(u)
  <2> SUFFICES ASSUME NEW k \in 1..n - 2 PROVE r[k].conn = i /\ r[k].part = HalfOf(k)
    BY <1>3, <1>6, <1>9 DEF ReadInOrder
  <2>1. k + 2 \in 1..n /\ k \in Nat
    BY <1>1
  <2>2. r[k] = t.flow.rx[k + 2]
    BY <1>3
  <2> QED
    BY <1>1, <1>4, <2>1, <2>2 DEF ReadInOrder
<1>11. SocketInOrder(u.conns[i], i, Len(u.flow.rx))
  <2> DEFINE q == t.conns[i].inbox
  <2>1. /\ DOMAIN q = 1..Len(q) /\ Len(q) \in Nat
        /\ \A k \in DOMAIN q : q[k].conn = i /\ q[k].part = HalfOf(n + k)
        /\ t.conns[i].half = NoMessage <=> HalfOf(n + Len(q)) = 2
    BY <1>1, <1>5, SocketTypes, LenProperties DEF SocketInOrder
  <2> HIDE DEF q
  <2>2. \A k \in Nat : HalfOf(n - 2 + k) = HalfOf(n + k)
    <3> TAKE k \in Nat
    <3>1. n - 2 + k \in Nat /\ (n - 2 + k) + 2 = n + k
      BY <1>1
    <3> QED
      BY <1>4, <3>1
  <2>3. \A k \in DOMAIN q : q[k].conn = i /\ q[k].part = HalfOf(n - 2 + k)
    <3> TAKE k \in DOMAIN q
    <3>1. k \in Nat
      BY <2>1
    <3> QED
      BY <2>1, <2>2, <3>1
  <2>4. t.conns[i].half = NoMessage <=> HalfOf(n - 2 + Len(q)) = 2
    BY <2>1, <2>2
  <2> QED
    BY <1>3, <1>6, <1>9, <2>3, <2>4 DEF SocketInOrder, q
<1>12. HasTarget(u) /\ Len(u.flow.rx) <= MaxRx
  BY <1>1, <1>3, <1>6, <1>9, TcpAssumption DEF HasTarget
<1>13. Moves(t, u, b)
  BY <1>5, <1>6, <1>8, <1>9, <1>10, <1>11, <1>12, ReadMoves
<1>14. t.flow.rx[2].m \in Messages
  <2>1. 2 \in 1..n
    BY <1>1
  <2> QED
    BY <1>2, <2>1 DEF Pieces
<1> QED
  BY <1>7, <1>9, <1>13, <1>14

\* A datagram is ignored or let through.
LEMMA UdpCheckedKeeps ==
  ASSUME TcpInv, UdpChecked
  PROVE  TcpInv'
<1>1. task.at \in Ordinary /\ UNCHANGED <<main, transport, backlog, events, inputs>>
        /\ (Goes("stream") \/ Goes("replace"))
  BY DEF UdpChecked, TaskStep, UnmovedByTask, Ordinary
<1> QED
  BY <1>1, StaysQuietly, GoesProceeds DEF Ordinary

\* The idle connection, if there is one, is closed; UDP is selected.
LEMMA UdpReplacesKeeps ==
  ASSUME TcpInv, UdpReplaces
  PROVE  TcpInv'
<1> DEFINE t == IF flow.sock # 0 THEN CloseFlow(s) ELSE s
           u == [t EXCEPT !.tcp = FALSE]
<1>1. /\ task.at \in Ordinary /\ Proceeds /\ UNCHANGED <<main, backlog, events, inputs>>
      /\ Becomes(u)
  BY GoesProceeds DEF UdpReplaces, TaskStep, UnmovedByTask, Ordinary
<1>2. TransportInv(s, backlog) /\ s \in Transports /\ backlog' \in 0..Conns
  BY <1>1, NetworkTypes
<1>3. Moves(s, t, backlog) /\ t.dlg = s.dlg
  BY <1>2, CloseFlowMoves, CloseFlowFields, StayMoves
<1>4. TransportInv(t, backlog) /\ t \in Transports
  BY <1>3 DEF Moves, TransportInv
<1> HIDE DEF t
<1>5. u \in Transports
  <2>1. FALSE \in BOOLEAN
    OBVIOUS
  <2> QED
    BY <1>4, <2>1, TransportUpdates
<1>6. /\ u.flow = t.flow /\ u.conns = t.conns /\ u.dlg = t.dlg /\ u.wire = t.wire
      /\ u.retracted = t.retracted
  BY <1>4 DEF Transports
<1> HIDE DEF u
<1>7. HasTarget(u) /\ SameSockets(t, u)
  BY <1>4, <1>6 DEF TransportInv, HasTarget, SameSockets
<1>8. Moves(t, u, backlog)
  BY <1>4, <1>5, <1>6, <1>7, FlagMoves
<1>9. Moves(s, u, backlog') /\ u.dlg = s.dlg
  BY <1>1, <1>3, <1>6, <1>8, MovesOn
<1> QED
  BY <1>1, <1>2, <1>9, MovesQuietly

\* A message is handled in t, which the task has moved to.
LEMMA DispatchedKeeps ==
  ASSUME TcpInv, task.at \in Ordinary, UNCHANGED <<main, backlog, inputs>>,
         NEW t, Moves(s, t, backlog), t.dlg = s.dlg, NEW m \in Messages,
         NEW next \in {"stream", "frame"}, Dispatched(t, m, next)
  PROVE  TcpInv'
<1>1. PICK d \in Dispatch(t, m) : /\ Becomes(d[1]) /\ events' = events \o d[2] /\ Goes(next)
  BY DEF Dispatched
<1>2. TransportInv(t, backlog) /\ inputs' \in 0..Inputs /\ backlog' \in 0..Conns
  BY NetworkTypes DEF Moves
<1>3. Moves(t, d[1], backlog) /\ d[2] \in Seq(Signals) /\ EndIsTold(t, d[1], d[2])
  BY <1>2, DispatchMoves
<1>4. s' = d[1] /\ Moves(s, s', backlog')
  BY <1>1, <1>3, BecomesIt, MovesOn DEF Moves, TransportInv
<1>5. EndIsTold(s, s', d[2])
  BY <1>3, <1>4 DEF EndIsTold
<1>6. Proceeds /\ task.lost = None
  BY <1>1, GoesProceeds, OrdinaryIsQuiet DEF Ordinary
<1> QED
  BY <1>1, <1>2, <1>3, <1>4, <1>5, <1>6, ProceedsTo, TaskKeeps

\* The datagram is handled.
LEMMA UdpDispatchedKeeps ==
  ASSUME TcpInv, UdpDispatched
  PROVE  TcpInv'
<1>1. /\ task.at \in Ordinary /\ UNCHANGED <<main, backlog, inputs>>
      /\ Dispatched(s, task.ready.udp, "stream")
  BY DEF UdpDispatched, TaskStep, Ordinary
<1>2. task.ready.udp \in Messages /\ Moves(s, s, backlog)
  BY NetworkTypes, StayMoves, TaskFields DEF TcpInv, TypeOK
<1> QED
  BY <1>1, <1>2, DispatchedKeeps

\* All that has arrived is read, unless it is too much.
LEMMA StreamReadKeeps ==
  ASSUME TcpInv, StreamRead
  PROVE  TcpInv'
<1> DEFINE i == flow.sock
           u == [s EXCEPT !.flow.rx = s.flow.rx \o s.conns[i].inbox, !.conns[i].inbox = <<>>]
<1>1. task.at \in Ordinary /\ UNCHANGED <<main, backlog, events, inputs>>
  BY DEF StreamRead, TaskStep, UnmovedByTask, Ordinary
<1>2. /\ TransportInv(s, backlog) /\ s.flow = flow /\ s.conns = conns /\ flow.sock \in 0..Conns
      /\ backlog' \in 0..Conns /\ inputs' \in 0..Inputs
  BY <1>1, NetworkTypes, FieldTypes
<1>3. \/ GoesAnew /\ UNCHANGED transport
      \/ i # 0 /\ Loses(s, "close")
      \/ /\ i # 0 /\ Len(s.flow.rx \o s.conns[i].inbox) <= MaxRx /\ Becomes(u)
         /\ task' = [task EXCEPT !.at = "frame", !.eof = conns[i].st = "gone"]
  <2> DEFINE got == flow.rx \o conns[i].inbox
  <2>1. CASE i = 0 \/ i # task.ready.sock
    BY <2>1 DEF StreamRead
  <2>2. CASE ~ (i = 0 \/ i # task.ready.sock)
    <3>1. s.flow.rx = flow.rx /\ s.conns[i] = conns[i] /\ i # 0 /\ i \in 1..Conns
      BY <1>2, <2>2
    <3>2. Len(got) \in Nat
      <4>1. flow.rx \in Seq(Pieces) /\ conns[i].inbox \in Seq(Pieces)
        BY <1>2, <3>1, FieldTypes, SocketTypes DEF TransportInv
      <4> QED
        BY <4>1, ConcatProperties, LenProperties
    <3>3. Len(got) > MaxRx => Loses(s, "close")
      BY <2>2 DEF StreamRead
    <3>4. ~ (Len(got) > MaxRx)
             => /\ Becomes([s EXCEPT !.flow.rx = got, !.conns[i].inbox = <<>>])
                /\ task' = [task EXCEPT !.at = "frame", !.eof = conns[i].st = "gone"]
      BY <2>2, Zenon DEF StreamRead
    <3>5. /\ got = s.flow.rx \o s.conns[i].inbox
          /\ u = [s EXCEPT !.flow.rx = got, !.conns[i].inbox = <<>>]
      BY <3>1
    <3> HIDE DEF u
    <3>6. ~ (Len(got) > MaxRx) => Becomes(u)
      BY <3>4, <3>5
    <3>7. Len(got) <= MaxRx \/ Len(got) > MaxRx
      <4> HIDE DEF got
      <4> QED
        BY <3>2, TcpAssumption
    <3> HIDE DEF got
    <3> QED
      BY <3>1, <3>3, <3>4, <3>5, <3>6, <3>7
  <2> QED
    BY <2>1, <2>2
<1>4. CASE GoesAnew /\ UNCHANGED transport
  BY <1>1, <1>4, GoesProceeds, StaysQuietly
<1>5. CASE Loses(s, "close")
  BY <1>1, <1>2, <1>5, StayMoves, LosesKeeps
<1>6. CASE /\ i # 0 /\ Len(s.flow.rx \o s.conns[i].inbox) <= MaxRx /\ Becomes(u)
           /\ task' = [task EXCEPT !.at = "frame", !.eof = conns[i].st = "gone"]
  <2>1. Moves(s, u, backlog) /\ u.dlg = s.dlg
    <3> HIDE DEF u
    <3>1. i \in 1..Conns /\ s.flow.sock = i
      BY <1>2, <1>6
    <3>2. Len(s.flow.rx \o s.conns[i].inbox) <= MaxRx
      BY <1>6
    <3> HIDE DEF i
    <3> QED
      BY <1>2, <3>1, <3>2, ReadsAllMoves DEF u
  <2> HIDE DEF u
  <2>2. s' = u
    BY <1>6, <2>1, BecomesIt DEF Moves, TransportInv
  <2>3. task' \in TaskRecord /\ task'.lost = None /\ task'.at = "frame"
    <3> DEFINE e == conns[i].st = "gone"
    <3>1. /\ e \in BOOLEAN /\ task \in TaskRecord /\ task.lost = None
          /\ task' = [task EXCEPT !.at = "frame", !.eof = e]
      BY <1>1, <1>6, OrdinaryIsQuiet
    <3> HIDE DEF e
    <3>2. [task EXCEPT !.at = "frame"] \in TaskRecord
      BY <3>1, TaskUpdates
    <3>3. [[task EXCEPT !.at = "frame"] EXCEPT !.eof = e] \in TaskRecord
      BY <3>1, <3>2, TaskUpdates
    <3>4. task'.lost = None /\ task'.at = "frame"
      BY <3>1, TaskFields
    <3> QED
      BY <3>1, <3>3, <3>4
  <2>4. ReportedIsAwaited'
    BY <2>3 DEF ReportedIsAwaited
  <2>5. Moves(s, s', backlog') /\ s'.dlg = s.dlg
    BY <1>1, <2>1, <2>2
  <2> QED
    BY <1>1, <1>2, <2>3, <2>4, <2>5, QuietStep
<1> QED
  BY <1>3, <1>4, <1>5, <1>6

\* One message is cut off and handled, or the stream is given up or left.
LEMMA FramedKeeps ==
  ASSUME TcpInv, Framed
  PROVE  TcpInv'
<1> DEFINE u == [s EXCEPT !.flow.rx = SubSeq(@, 3, Len(@))]
<1>1. task.at \in Ordinary /\ UNCHANGED <<main, backlog, inputs>>
  BY DEF Framed, TaskStep, Ordinary
<1>2. TransportInv(s, backlog) /\ s.flow = flow
  BY NetworkTypes
<1>3. \/ GoesAnew /\ UNCHANGED <<transport, events>>
      \/ Loses(s, "close") /\ UNCHANGED events
      \/ Len(flow.rx) >= 2 /\ Dispatched(u, flow.rx[2].m, "frame")
  <2> HIDE DEF u
  <2> QED
    BY DEF Framed, u
<1>4. CASE GoesAnew /\ UNCHANGED <<transport, events>>
  BY <1>1, <1>4, GoesProceeds, StaysQuietly
<1>5. CASE Loses(s, "close") /\ UNCHANGED events
  BY <1>1, <1>2, <1>5, StayMoves, LosesKeeps
<1>6. CASE Len(flow.rx) >= 2 /\ Dispatched(u, flow.rx[2].m, "frame")
  <2>1. Moves(s, u, backlog) /\ u.dlg = s.dlg /\ flow.rx[2].m \in Messages
    BY <1>2, <1>6, CutMoves
  <2> HIDE DEF u
  <2> QED
    BY <1>1, <1>6, <2>1, DispatchedKeeps
<1> QED
  BY <1>3, <1>4, <1>5, <1>6

\* The loss is told of the call that is current.
LEMMA TellKeeps ==
  ASSUME TcpInv, NEW next \in {"close", "select", "accept"}, Tell(next)
  PROVE  TcpInv'
<1> DEFINE e == [kind |-> "gone", call |-> main.call, lost |-> task.lost]
<1>1. /\ UNCHANGED <<main, transport, backlog, inputs>> /\ events' = Append(events, e)
      /\ task' = IF next = "close" THEN Resting ELSE [task EXCEPT !.at = next, !.lost = None]
  BY DEF Tell, TaskStep
<1>2. /\ TransportInv(s, backlog) /\ backlog' \in 0..Conns /\ inputs' \in 0..Inputs
      /\ task \in TaskRecord /\ task.lost \in Calls \cup {None}
      /\ main.call \in Calls \cup {None}
  BY <1>1, NetworkTypes, TaskFields DEF TcpInv, TypeOK, MainRecord
<1>3. s' = s /\ Moves(s, s', backlog')
  BY <1>1, <1>2, BecomesIt, StayMoves
<1>4. e \in Signals
  <2>1. e \in [kind : {"gone"}, call : Calls \cup {None}, lost : Calls \cup {None}]
    BY <1>2
  <2> QED
    BY <2>1 DEF Signals
<1>5. /\ events' = events \o <<e>> /\ <<e>> \in Seq(Signals)
      /\ \E k \in DOMAIN <<e>> : <<e>>[k].kind = "gone" /\ <<e>>[k].call = main.call
  <2>1. 1 \in DOMAIN <<e>> /\ <<e>>[1] = e /\ e.kind = "gone" /\ e.call = main.call
    OBVIOUS
  <2> HIDE DEF e
  <2> QED
    BY <1>1, <1>4, <2>1, AppendsIt
<1>6. EndIsTold(s, s', <<e>>)
  BY <1>3 DEF EndIsTold
<1> HIDE DEF e
<1>7. task' \in TaskRecord /\ task'.lost = None /\ task'.at = next
  <2>1. CASE next = "close"
    BY <1>1, <2>1, RestingFields
  <2>2. CASE next # "close"
    <3>1. task' = [[task EXCEPT !.at = next] EXCEPT !.lost = None]
      BY <1>1, <2>2
    <3>2. [task EXCEPT !.at = next] \in TaskRecord /\ None \in Calls \cup {None}
      BY <1>2, <2>2, TaskUpdates
    <3>3. task' \in TaskRecord
      BY <3>1, <3>2, TaskUpdates
    <3>4. task'.lost = None /\ task'.at = next
      BY <1>2, <3>1, TaskFields
    <3> QED
      BY <3>3, <3>4
  <2> QED
    BY <2>1, <2>2
<1>8. ReportedIsAwaited' /\ TellsItsLoss'
  BY <1>7 DEF ReportedIsAwaited, TellsItsLoss
<1> QED
  BY <1>1, <1>2, <1>3, <1>5, <1>6, <1>7, <1>8, TaskKeeps

\* So every step of the SIP task keeps the invariant.
LEMMA TaskNextKeeps ==
  ASSUME TcpInv, TaskNext
  PROVE  TcpInv'
BY PrepareCloseKeeps, PrepareConnectKeeps, ConnectBegunKeeps, SelectKeeps, ConnectExpiredKeeps,
   TransactionExpiresKeeps, ConnectResolvedKeeps, AcceptCheckedKeeps, AcceptKeeps,
   UdpCheckedKeeps, UdpReplacesKeeps, UdpDispatchedKeeps, StreamReadKeeps, FramedKeeps,
   TellKeeps DEF TaskNext

-----------------------------------------------------------------------------
(* The main loop. *)

\* The socket that connects is not the main loop's to change.
LEMMA ConningKept ==
  ASSUME NEW t, NEW b, TransportInv(t, b)
  PROVE  /\ RequestClose(t).flow.conning = t.flow.conning
         /\ Abandon(t).flow.conning = t.flow.conning
         /\ Forget(t).flow.conning = t.flow.conning
         /\ ResetDialog(t).flow.conning = t.flow.conning
         /\ \A m \in Messages : \A r \in Sends(t, m) : r[2].flow.conning = t.flow.conning
<1>1. t \in Transports
  BY DEF TransportInv
<1>2. /\ Abandon(t).flow.conning = t.flow.conning /\ Forget(t).flow.conning = t.flow.conning
      /\ Forget(t) \in Transports
  BY <1>1, AbandonType, AbandonFields DEF SameSockets
<1>3. /\ Abandon(Forget(t)) \in Transports
      /\ Abandon(Forget(t)).flow.conning = t.flow.conning
  BY <1>2, AbandonType, AbandonFields DEF SameSockets
<1>4. \A u \in Transports : \A c : [u EXCEPT !.conns = c].flow = u.flow
  BY DEF Transports
<1>5. \A u \in Transports : \A d : [u EXCEPT !.dlg = d].flow = u.flow
  BY DEF Transports
<1>6. RequestClose(t).flow.conning = t.flow.conning
  <2> DEFINE v == Abandon(Forget(t))
             c == IF t.flow.sock = 0 THEN v.conns ELSE Shut(v.conns, t.flow.sock)
  <2>1. RequestClose(t) = [v EXCEPT !.conns = c]
    BY DEF RequestClose
  <2> HIDE DEF v, c
  <2>2. [v EXCEPT !.conns = c].flow = v.flow
    BY <1>3, <1>4 DEF v
  <2> QED
    BY <1>3, <2>1, <2>2 DEF v
<1>7. ResetDialog(t).flow.conning = t.flow.conning
  <2> DEFINE v == IF t.flow.pending = NoMessage THEN t ELSE Abandon(Forget(t))
  <2>1. ResetDialog(t) = [v EXCEPT !.dlg = NoDialog] /\ v \in Transports
          /\ v.flow.conning = t.flow.conning
    BY <1>1, <1>3 DEF ResetDialog
  <2> HIDE DEF v
  <2> QED
    BY <1>5, <2>1
<1>8. ASSUME NEW m \in Messages, NEW r \in Sends(t, m)
      PROVE  r[2].flow.conning = t.flow.conning
  <2> DEFINE f == [t.flow EXCEPT !.pending = m]
             v == [t EXCEPT !.flow = f]
  <2>1. [t EXCEPT !.flow.pending = m, !.wake = TRUE].flow.conning = t.flow.conning
    <3>1. f.conning = t.flow.conning
      BY <1>1, FieldTypes DEF FlowRecord
    <3>2. [t EXCEPT !.flow.pending = m, !.wake = TRUE] = [v EXCEPT !.wake = TRUE]
      OBVIOUS
    <3> HIDE DEF f
    <3>3. [v EXCEPT !.wake = TRUE].flow = f
      BY <1>1 DEF Transports
    <3> QED
      BY <3>1, <3>2, <3>3
  <2>2. [t EXCEPT !.conns = Shut(@, t.flow.sock)].flow = t.flow
    BY <1>1 DEF Transports
  <2> DEFINE a == [t EXCEPT !.flow.pending = m, !.wake = TRUE]
             z == [t EXCEPT !.conns = Shut(@, t.flow.sock)]
             w == [t EXCEPT !.wire = @ \cup {<<m.call, t.conns[t.flow.sock].peer>>}]
             d == [t EXCEPT !.udpSent = @ \cup (IF m.kind = "INVITE" THEN {m.call} ELSE {})]
             y == IF m.kind = "INVITE" THEN w ELSE t
  <2>3. /\ Written(t, m, t.flow.sock) = {<<TRUE, y>>, <<FALSE, z>>}
        /\ \/ Sends(t, m) = {<<TRUE, d>>} \/ Sends(t, m) = Written(t, m, t.flow.sock)
           \/ Sends(t, m) = {<<TRUE, a>>} \/ Sends(t, m) = {<<FALSE, t>>}
    <3>1. Written(t, m, t.flow.sock) = {<<TRUE, y>>, <<FALSE, z>>}
      BY Zenon DEF Written
    <3>2. \/ Sends(t, m) = {<<TRUE, d>>} \/ Sends(t, m) = Written(t, m, t.flow.sock)
          \/ Sends(t, m) = {<<TRUE, a>>} \/ Sends(t, m) = {<<FALSE, t>>}
      BY Zenon DEF Sends
    <3> QED
      BY <3>1, <3>2
  <2>4. /\ a.flow.conning = t.flow.conning /\ z.flow = t.flow /\ y.flow = t.flow
        /\ d.flow = t.flow
    BY <1>1, <2>1, <2>2 DEF Transports
  <2> HIDE DEF a, z, y, d
  <2>5. \/ r = <<TRUE, d>> \/ r = <<TRUE, a>> \/ r = <<FALSE, t>> \/ r = <<FALSE, z>>
        \/ r = <<TRUE, y>>
    BY <2>3
  <2>6. r[2] = d \/ r[2] = a \/ r[2] = t \/ r[2] = z \/ r[2] = y
    <3>1. \A p, q : <<p, q>>[2] = q
      OBVIOUS
    <3> QED
      BY <2>5, <3>1, Zenon
  <2> QED
    BY <2>4, <2>6
<1> QED
  BY <1>2, <1>6, <1>7, <1>8

\* A step of the main loop keeps the invariant if it keeps what is its own.
LEMMA MainKeeps ==
  ASSUME TcpInv, UnmovedByMain, NEW u, s' = u, TransportInv(u, backlog),
         u.flow.conning = s.flow.conning, main' \in MainRecord, events' \in Seq(Signals),
         CallIsNew', LossHasEvent'
  PROVE  TcpInv'
<1>1. UNCHANGED <<backlog, task, inputs>> /\ flow'.conning = flow.conning
  BY StateFields DEF UnmovedByMain
<1>2. TransportInv(s', backlog')
  BY <1>1
<1>3. TypeOK'
  BY <1>1, <1>2, StateFields DEF TcpInv, TypeOK, TransportInv
<1>4. ReportedIsAwaited' /\ TellsItsLoss'
  BY <1>1 DEF TcpInv, ReportedIsAwaited, TellsItsLoss
<1> QED
  BY <1>2, <1>3, <1>4 DEF TcpInv

\* What is known of the main loop's call.
LEMMA MainFields ==
  ASSUME TcpInv
  PROVE  /\ main \in MainRecord /\ events \in Seq(Signals) /\ main.dialled \in 0..Dials
         /\ main.call \in Calls \cup {None} /\ main.peer \in Peers \cup {"none"}
         /\ main.at \in {"idle", "originate", "request", "invite", "calling", "call"}
         /\ TransportInv(s, backlog) /\ s \in Transports /\ s.dlg = dlg /\ s.flow = flow
         /\ s.tcp = tcp /\ CallIsNew /\ LossHasEvent
BY NetworkTypes, StateFields DEF TcpInv, TypeOK, MainRecord

\* The calls that are yet to be placed stay so when none begins to be.
LEMMA NoneIsPlaced ==
  ASSUME TcpInv, NEW u, Moves(s, u, backlog), s' = u, main'.dialled = main.dialled,
         ~ Placing', main'.at = "idle" <=> main'.call = None
  PROVE  CallIsNew'
BY DEF TcpInv, CallIsNew, Placing, Moves, NothingInvited

\* The main loop without a call.
LEMMA HungUpFields ==
  ASSUME TcpInv
  PROVE  /\ HungUp \in MainRecord /\ HungUp.at = "idle" /\ HungUp.call = None
         /\ HungUp.dialled = main.dialled
<1>1. main \in MainRecord
  BY MainFields
<1>2. None \in Calls \cup {None}
  OBVIOUS
<1> QED
  BY <1>1, <1>2 DEF HungUp, MainRecord

\* The call ends, whatever has become of its dialog.
LEMMA HangingUpKeeps ==
  ASSUME TcpInv, UnmovedByMain, main' = HungUp, events' \in Seq(Signals),
         NEW u, s' = u, Moves(s, u, backlog), u.flow.conning = s.flow.conning
  PROVE  TcpInv'
<1>1. main' \in MainRecord /\ main'.at = "idle" /\ main'.call = None
        /\ main'.dialled = main.dialled
  BY HungUpFields
<1>2. CallIsNew'
  BY <1>1, NoneIsPlaced DEF Placing
<1>3. LossHasEvent'
  BY <1>1 DEF LossHasEvent
<1> QED
  BY <1>1, <1>2, <1>3, MainKeeps DEF Moves

\* The call is placed: its number is one that nothing has been sent for.
LEMMA DialKeeps ==
  ASSUME TcpInv, NEW p \in Peers, NEW x \in BOOLEAN, Dial(p, x)
  PROVE  TcpInv'
<1> DEFINE v == [s EXCEPT !.tcp = x]
           u == IF tcp /\ ~ x THEN RequestClose(v) ELSE v
<1>1. /\ main.at = "idle" /\ main.dialled < Dials /\ UNCHANGED events /\ UnmovedByMain
      /\ main' = [at |-> "originate", call |-> main.dialled + 1, peer |-> p,
                  dialled |-> main.dialled + 1]
      /\ Becomes(u)
  BY DEF Dial
<1>2. TransportInv(s, backlog) /\ s \in Transports /\ main.dialled \in 0..Dials
  BY MainFields
<1>3. Moves(s, v, backlog) /\ v.flow.conning = s.flow.conning
  <2>1. v \in Transports
    BY <1>2, TransportUpdates
  <2>2. /\ v.flow = s.flow /\ v.conns = s.conns /\ v.dlg = s.dlg /\ v.wire = s.wire
        /\ v.retracted = s.retracted
    BY <1>2 DEF Transports
  <2> HIDE DEF v
  <2>3. HasTarget(v) /\ SameSockets(s, v)
    BY <1>2, <2>2 DEF TransportInv, HasTarget, SameSockets
  <2> QED
    BY <1>2, <2>1, <2>2, <2>3, FlagMoves
<1> HIDE DEF v
<1>4. Moves(s, u, backlog) /\ u.flow.conning = s.flow.conning
  <2>1. TransportInv(v, backlog)
    BY <1>3 DEF Moves
  <2>2. /\ Moves(v, RequestClose(v), backlog)
        /\ RequestClose(v).flow.conning = v.flow.conning
    BY <2>1, RequestCloseMoves, ConningKept
  <2> QED
    BY <1>3, <2>2, MovesOn
<1> HIDE DEF u
<1>5. s' = u
  BY <1>1, <1>4, BecomesIt DEF Moves, TransportInv
<1>6. main.dialled + 1 \in Calls /\ main.dialled + 1 # In /\ main.dialled + 1 \in 0..Dials
        /\ main.dialled + 1 # None /\ main.dialled + 1 > main.dialled
  BY <1>1, <1>2, TcpAssumption DEF Calls, In, None
<1>7. /\ main' \in MainRecord /\ main'.at = "originate" /\ main'.call = main.dialled + 1
      /\ main'.dialled = main.dialled + 1 /\ main'.peer = p
  <2> DEFINE n == main.dialled + 1
  <2>1. n \in Calls \cup {None} /\ n \in 0..Dials /\ p \in Peers \cup {"none"}
          /\ main' = [at |-> "originate", call |-> n, peer |-> p, dialled |-> n]
    BY <1>1, <1>6
  <2> HIDE DEF n
  <2>2. main' \in MainRecord
    BY <2>1 DEF MainRecord
  <2> QED
    BY <2>1, <2>2 DEF n
<1>8. CallIsNew'
  <2>1. \A c \in Calls : c > main.dialled => Unused(u, c)
    BY <1>4, MainFields DEF CallIsNew, Moves, NothingInvited
  <2>2. \A c \in Calls : c > main.dialled + 1 \/ c = main.dialled + 1 => c > main.dialled
    BY <1>2 DEF Calls
  <2> QED
    BY <1>5, <1>6, <1>7, <2>1, <2>2 DEF CallIsNew, Placing
<1>9. LossHasEvent' /\ events' \in Seq(Signals)
  BY <1>1, <1>7, MainFields DEF LossHasEvent
<1> QED
  BY <1>1, <1>4, <1>5, <1>7, <1>8, <1>9, MainKeeps DEF Moves

\* The call is on its way to its INVITE.
LEMMA PlacingOn ==
  ASSUME TcpInv, Placing, UnmovedByMain, UNCHANGED events, NEW at \in {"request", "invite"},
         main' = [main EXCEPT !.at = at], NEW u, s' = u, Moves(s, u, backlog),
         u.flow.conning = s.flow.conning
  PROVE  TcpInv'
<1>1. /\ main' \in MainRecord /\ main'.at = at /\ main'.call = main.call
      /\ main'.dialled = main.dialled /\ main'.peer = main.peer
  BY MainFields DEF MainRecord
<1>2. CallIsNew'
  BY <1>1, MainFields DEF CallIsNew, Placing, Moves, NothingInvited
<1>3. LossHasEvent' /\ events' \in Seq(Signals)
  BY <1>1, MainFields DEF LossHasEvent
<1> QED
  BY <1>1, <1>2, <1>3, MainKeeps DEF Moves

\* The old flow is given up, if there is one.
LEMMA OriginateKeeps ==
  ASSUME TcpInv, Originate
  PROVE  TcpInv'
<1>1. TransportInv(s, backlog) /\ Placing /\ UNCHANGED events /\ UnmovedByMain
  BY MainFields DEF Originate, Placing
<1>2. CASE Becomes(RequestClose(s)) /\ main' = [main EXCEPT !.at = "request"]
  <2>1. /\ Moves(s, RequestClose(s), backlog)
        /\ RequestClose(s).flow.conning = s.flow.conning
    BY <1>1, RequestCloseMoves, ConningKept
  <2>2. s' = RequestClose(s)
    BY <1>2, <2>1, BecomesIt DEF Moves, TransportInv
  <2> QED
    BY <1>1, <1>2, <2>1, <2>2, PlacingOn
<1>3. CASE main' = [main EXCEPT !.at = "invite"] /\ UNCHANGED transport
  <2>1. s' = s /\ Moves(s, s, backlog)
    BY <1>1, <1>3, BecomesIt, StayMoves
  <2> QED
    BY <1>1, <1>3, <2>1, PlacingOn
<1> QED
  BY <1>2, <1>3 DEF Originate

\* The connect is requested, to the peer of the call.
LEMMA RequestConnectKeeps ==
  ASSUME TcpInv, RequestConnect
  PROVE  TcpInv'
<1> DEFINE t == Forget(s)
           f == [[t.flow EXCEPT !.target = main.peer] EXCEPT !.connectReq = TRUE]
           v == [t EXCEPT !.flow = f]
           u == [v EXCEPT !.wake = TRUE]
<1>1. /\ TransportInv(s, backlog) /\ Placing /\ UNCHANGED events /\ UnmovedByMain
      /\ main' = [main EXCEPT !.at = "invite"] /\ main.peer \in Peers
  BY MainFields DEF RequestConnect, Placing, CallIsNew
<1>2. Becomes(u)
  <2>1. u = [Forget(s) EXCEPT !.flow.target = main.peer, !.flow.connectReq = TRUE,
                              !.wake = TRUE]
    OBVIOUS
  <2> HIDE DEF u
  <2> QED
    BY <2>1 DEF RequestConnect
<1>3. Moves(s, t, backlog) /\ t \in Transports /\ t.flow.conning = s.flow.conning
  BY <1>1, GivingUpMoves, ConningKept DEF Moves, TransportInv
<1> HIDE DEF t
<1>4. f \in FlowRecord
  <2>1. main.peer \in Peers \cup {"none"} /\ TRUE \in BOOLEAN /\ t.flow \in FlowRecord
    BY <1>1, <1>3, FieldTypes
  <2>2. [t.flow EXCEPT !.target = main.peer] \in FlowRecord
    BY <2>1, FlowUpdates
  <2> QED
    BY <2>1, <2>2, FlowUpdates
<1>5. /\ f.sock = t.flow.sock /\ f.conning = t.flow.conning /\ f.rx = t.flow.rx
      /\ f.pending = t.flow.pending /\ f.target = main.peer
  BY <1>3, FieldTypes DEF FlowRecord
<1> HIDE DEF f
<1>6. v \in Transports
  BY <1>3, <1>4, TransportUpdates
<1>7. u \in Transports
  BY <1>6, TransportUpdates
<1>8. /\ u.flow = f /\ u.conns = t.conns /\ u.dlg = t.dlg /\ u.wire = t.wire
      /\ u.retracted = t.retracted
  BY <1>3 DEF Transports
<1> HIDE DEF u
<1>9. HasTarget(u) /\ SameSockets(t, u)
  BY <1>1, <1>5, <1>8 DEF HasTarget, SameSockets
<1>10. Moves(t, u, backlog) /\ u.flow.conning = s.flow.conning
  BY <1>3, <1>5, <1>7, <1>8, <1>9, FlagMoves DEF Moves
<1>11. s' = u /\ Moves(s, u, backlog)
  BY <1>2, <1>3, <1>7, <1>10, BecomesIt, MovesOn
<1> QED
  BY <1>1, <1>10, <1>11, PlacingOn

\* The INVITE of the call is sent, waits, or does not get away.
LEMMA InviteKeeps ==
  ASSUME TcpInv, Invite
  PROVE  TcpInv'
<1>1. /\ main.at = "invite" /\ UNCHANGED events /\ UnmovedByMain /\ events' \in Seq(Signals)
      /\ TransportInv(s, backlog) /\ CallIsNew /\ Placing
  BY MainFields DEF Invite, Placing
<1>2. /\ main.call \in Calls /\ main.call # None /\ Unused(s, main.call)
      /\ main.call = main.dialled
      /\ \A c \in Calls : c > main.dialled => Unused(s, c) /\ c # main.call
  <2>1. main.call # None /\ main.call \in Calls
    BY <1>1, MainFields DEF CallIsNew
  <2>2. main.call = main.dialled /\ main.dialled \in 0..Dials
    BY <1>1, MainFields DEF CallIsNew
  <2>3. \A c \in Calls : c > main.dialled => c # main.dialled
    BY <2>2 DEF Calls
  <2> QED
    BY <1>1, <2>1, <2>2, <2>3 DEF CallIsNew
<1>3. CASE main' = HungUp /\ UNCHANGED transport
  <2>1. s' = s /\ Moves(s, s, backlog)
    BY <1>1, <1>3, BecomesIt, StayMoves
  <2> QED
    BY <1>1, <1>3, <2>1, HangingUpKeeps
<1> DEFINE t == ResetDialog(s)
           d == [NoDialog EXCEPT !.call = main.call]
           v == [t EXCEPT !.dlg = d]
<1>4. CASE \E r \in Sends([ResetDialog(s) EXCEPT !.dlg.call = main.call],
                          Record("INVITE", main.call)) :
               /\ Becomes(IF r[1] THEN [r[2] EXCEPT !.dlg.out = TRUE] ELSE ResetDialog(r[2]))
               /\ main' = IF r[1] THEN [main EXCEPT !.at = "calling"] ELSE HungUp
  <2>1. /\ Moves(s, t, backlog) /\ t.dlg = NoDialog /\ t \in Transports
        /\ TransportInv(t, backlog) /\ t.flow.conning = s.flow.conning
    BY <1>1, ResetMoves, ConningKept DEF Moves, TransportInv
  <2>2. [ResetDialog(s) EXCEPT !.dlg.call = main.call] = v
    <3>1. [t EXCEPT !.dlg.call = main.call] = [t EXCEPT !.dlg = [t.dlg EXCEPT !.call = main.call]]
      OBVIOUS
    <3> QED
      BY <2>1, <3>1
  <2>3. PICK r \in Sends(v, Record("INVITE", main.call)) :
            /\ Becomes(IF r[1] THEN [r[2] EXCEPT !.dlg.out = TRUE] ELSE ResetDialog(r[2]))
            /\ main' = IF r[1] THEN [main EXCEPT !.at = "calling"] ELSE HungUp
    BY <1>4, <2>2
  <2> HIDE DEF t
  <2>4. d \in DialogRecord /\ d.call = main.call
    BY <1>2, NothingTypes, DialogUpdates
  <2> HIDE DEF d
  <2>5. /\ Moves(t, v, backlog) /\ v.dlg = d /\ v.flow = t.flow
        /\ TransportInv(v, backlog)
    BY <1>2, <2>1, <2>4, DialogMoves DEF Moves
  <2> HIDE DEF v
  <2>6. Moves(s, v, backlog) /\ v.flow.conning = s.flow.conning /\ Unused(v, main.call)
    BY <1>2, <2>1, <2>5, MovesOn DEF Moves, NothingInvited
  <2>7. /\ TransportInv(r[2], backlog) /\ r[2].dlg = d
        /\ \A e \in Calls \ {main.call} : Unused(v, e) => Unused(r[2], e)
        /\ r[2].flow.conning = s.flow.conning
    <3>1. Record("INVITE", main.call) \in Messages
      BY <1>2, MessageTypes
    <3>2. r[2].flow.conning = s.flow.conning
      BY <2>5, <2>6, <3>1, ConningKept
    <3> QED
      BY <1>2, <2>5, <2>6, <3>2, SendsInvite
  <2>8. \A c \in Calls : c > main.dialled => Unused(r[2], c)
    BY <1>2, <2>6, <2>7 DEF Moves, NothingInvited
  <2>9. CASE r[1]
    <3> DEFINE e == [d EXCEPT !.out = TRUE]
               u == [r[2] EXCEPT !.dlg = e]
    <3>1. e \in DialogRecord /\ e.call = main.call
      BY <2>4, DialogUpdates
    <3>2. Becomes(u) /\ main' = [main EXCEPT !.at = "calling"]
      <4>1. [r[2] EXCEPT !.dlg.out = TRUE] = u
        BY <2>7
      <4> HIDE DEF u
      <4> QED
        BY <2>3, <2>9, <4>1
    <3> HIDE DEF e
    <3>3. Moves(r[2], u, backlog) /\ u.dlg = e /\ u.flow = r[2].flow
      BY <1>2, <2>7, <3>1, DialogMoves
    <3> HIDE DEF u
    <3>4. s' = u /\ dlg' = e
      BY <3>2, <3>3, BecomesIt DEF Moves, TransportInv, Becomes
    <3>5. /\ main' \in MainRecord /\ main'.at = "calling" /\ main'.call = main.call
          /\ main'.dialled = main.dialled
      BY <3>2, MainFields DEF MainRecord
    <3>6. CallIsNew'
      BY <1>2, <2>8, <3>3, <3>4, <3>5 DEF CallIsNew, Placing, Moves, NothingInvited
    <3>7. LossHasEvent'
      BY <3>1, <3>4, <3>5 DEF LossHasEvent
    <3> QED
      BY <1>1, <2>7, <3>3, <3>4, <3>5, <3>6, <3>7, MainKeeps DEF Moves
  <2>10. CASE ~ r[1]
    <3> DEFINE u == ResetDialog(r[2])
    <3>1. Becomes(u) /\ main' = HungUp
      BY <2>3, <2>10
    <3>2. Moves(r[2], u, backlog) /\ u.flow.conning = s.flow.conning
      BY <2>7, ResetMoves, ConningKept
    <3> HIDE DEF u
    <3>3. s' = u
      BY <3>1, <3>2, BecomesIt DEF Moves, TransportInv
    <3>4. main' \in MainRecord /\ main'.at = "idle" /\ main'.call = None
            /\ main'.dialled = main.dialled
      BY <3>1, HungUpFields
    <3>5. CallIsNew'
      BY <2>8, <3>2, <3>3, <3>4 DEF CallIsNew, Placing, Moves, NothingInvited
    <3>6. LossHasEvent'
      BY <3>4 DEF LossHasEvent
    <3> QED
      BY <1>1, <3>2, <3>3, <3>4, <3>5, <3>6, MainKeeps DEF Moves
  <2> QED
    BY <2>9, <2>10
<1> QED
  BY <1>3, <1>4 DEF Invite

\* A record that is not an INVITE is sent; the dialog is d from then on, or reset.
LEMMA SendsAndMoves ==
  ASSUME NEW t, NEW b, TransportInv(t, b), NEW m \in Messages, m.kind # "INVITE",
         NEW r \in Sends(t, m)
  PROVE  /\ Moves(t, r[2], b) /\ r[2].dlg = t.dlg /\ r[2].flow.conning = t.flow.conning
         /\ Moves(t, ResetDialog(r[2]), b)
         /\ ResetDialog(r[2]).flow.conning = t.flow.conning
         /\ \A d \in DialogRecord : d.call # None
              => /\ Moves(t, [r[2] EXCEPT !.dlg = d], b)
                 /\ [r[2] EXCEPT !.dlg = d].dlg = d
                 /\ [r[2] EXCEPT !.dlg = d].flow.conning = t.flow.conning
<1>1. Moves(t, r[2], b) /\ r[2].dlg = t.dlg /\ r[2].flow.conning = t.flow.conning
  BY SendsMoves, ConningKept
<1>2. TransportInv(r[2], b)
  BY <1>1 DEF Moves
<1>3. /\ Moves(r[2], ResetDialog(r[2]), b)
      /\ ResetDialog(r[2]).flow.conning = t.flow.conning
  BY <1>1, <1>2, ResetMoves, ConningKept
<1>4. ASSUME NEW d \in DialogRecord, d.call # None
      PROVE  /\ Moves(r[2], [r[2] EXCEPT !.dlg = d], b)
             /\ [r[2] EXCEPT !.dlg = d].dlg = d
             /\ [r[2] EXCEPT !.dlg = d].flow.conning = t.flow.conning
  BY <1>1, <1>2, <1>4, DialogMoves
<1> QED
  BY <1>1, <1>3, <1>4, MovesOn

\* A dialog that is not ending already is reset.
LEMMA DisconnectedMoves ==
  ASSUME NEW t, NEW b, TransportInv(t, b)
  PROVE  Moves(t, Disconnected(t), b) /\ Disconnected(t).flow.conning = t.flow.conning
BY StayMoves, ResetMoves, ConningKept DEF Disconnected

\* The INVITE that waits is taken back, and the dialog with it.
LEMMA RetractMoves ==
  ASSUME NEW t, NEW b, TransportInv(t, b)
  PROVE  Moves(t, Retract(t), b) /\ Retract(t).flow.conning = t.flow.conning
<1> DEFINE u == Forget(t)
           v == Abandon(u)
<1>1. Moves(t, u, b) /\ u.flow.conning = t.flow.conning
  BY GivingUpMoves, ConningKept
<1> HIDE DEF u
<1>2. Moves(u, v, b) /\ v.flow.conning = t.flow.conning
  BY <1>1, GivingUpMoves, ConningKept DEF Moves
<1> HIDE DEF v
<1>3. Moves(v, ResetDialog(v), b) /\ ResetDialog(v).flow.conning = t.flow.conning
  BY <1>2, ResetMoves, ConningKept DEF Moves
<1>4. Moves(t, ResetDialog(v), b)
  BY <1>1, <1>2, <1>3, MovesOn
<1>5. Retract(t) = ResetDialog(v)
  BY DEF Retract, u, v
<1> QED
  BY <1>3, <1>4, <1>5

\* A call that is not answered yet takes the dialog over before it ends.
LEMMA TakenOverMoves ==
  ASSUME TcpInv, main.call \in Calls
  PROVE  /\ Moves(s, TakenOver, backlog) /\ TakenOver.flow.conning = s.flow.conning
         /\ TakenOver.dlg \in DialogRecord
<1> DEFINE d == [dlg EXCEPT !.call = main.call]
<1>1. TransportInv(s, backlog) /\ s.dlg = dlg /\ dlg \in DialogRecord
  BY MainFields, FieldTypes DEF TransportInv
<1>2. d \in DialogRecord /\ d.call = main.call /\ d.call # None
  BY <1>1, DialogUpdates DEF Calls, None
<1>3. TakenOver = IF main.at = "calling" THEN [s EXCEPT !.dlg = d] ELSE s
  BY <1>1 DEF TakenOver
<1> HIDE DEF d
<1>4. Moves(s, s, backlog) /\ Moves(s, [s EXCEPT !.dlg = d], backlog)
        /\ [s EXCEPT !.dlg = d].dlg = d /\ [s EXCEPT !.dlg = d].flow = s.flow
  BY <1>1, <1>2, StayMoves, DialogMoves
<1> QED
  BY <1>1, <1>2, <1>3, <1>4

\* The dialog is closed to media, or ends.
LEMMA SilencedMoves ==
  ASSUME NEW t, NEW b, TransportInv(t, b), t.dlg.call # None
  PROVE  /\ Moves(t, Silenced(t), b) /\ Silenced(t).flow.conning = t.flow.conning
         /\ Moves(t, Ending(t), b) /\ Ending(t).flow.conning = t.flow.conning
<1> DEFINE c == [t.dlg EXCEPT !.media = FALSE]
           e == [c EXCEPT !.term = TRUE]
<1>1. t.dlg \in DialogRecord /\ TRUE \in BOOLEAN /\ FALSE \in BOOLEAN
  BY FieldTypes DEF TransportInv
<1>2. c \in DialogRecord /\ c.call # None
  BY <1>1, DialogUpdates
<1> HIDE DEF c
<1>3. e \in DialogRecord /\ e.call # None
  BY <1>1, <1>2, DialogUpdates
<1> HIDE DEF e
<1>4. Silenced(t) = [t EXCEPT !.dlg = c]
  BY DEF Silenced, c
<1>5. Ending(t) = [t EXCEPT !.dlg = e]
  <2>1. t \in Transports
    BY DEF TransportInv
  <2>2. [t EXCEPT !.dlg = c].dlg = c
    BY <1>2, DialogMoves
  <2>3. [[t EXCEPT !.dlg = c] EXCEPT !.dlg = e] = [t EXCEPT !.dlg = e]
    BY <2>1 DEF Transports
  <2> QED
    BY <2>2, <2>3 DEF Ending, c, e
<1> QED
  BY <1>2, <1>3, <1>4, <1>5, DialogMoves

\* The user hangs up: the INVITE is taken back, a CANCEL or a BYE is sent, or the dialog
\* is reset.
LEMMA HangUpKeeps ==
  ASSUME TcpInv, HangUp
  PROVE  TcpInv'
<1> DEFINE own == TakenOver
           m == Record(IF main.at = "calling" /\ dlg.out THEN "CANCEL" ELSE "BYE", main.call)
<1>1. /\ main' = HungUp /\ main.at # "idle" /\ UNCHANGED events /\ UnmovedByMain
      /\ events' \in Seq(Signals) /\ TransportInv(s, backlog)
  BY MainFields DEF HangUp
<1>2. main.call \in Calls /\ main.call # None
  BY <1>1, MainFields DEF CallIsNew
<1>3. \/ Becomes(Disconnected(s))
      \/ Becomes(Retract(own))
      \/ /\ own.dlg.call = main.call
         /\ \E r \in Sends(own, m) :
               Becomes(IF r[1] THEN Ending(r[2]) ELSE Disconnected(Silenced(r[2])))
  BY Zenon DEF HangUp
<1> HIDE DEF own
<1>4. /\ Moves(s, own, backlog) /\ own.flow.conning = s.flow.conning
      /\ TransportInv(own, backlog)
  BY <1>2, TakenOverMoves DEF Moves, own
<1>5. ASSUME NEW u, Moves(own, u, backlog), u.flow.conning = own.flow.conning, Becomes(u)
      PROVE  TcpInv'
  <2>1. Moves(s, u, backlog)
    BY <1>4, <1>5, MovesOn
  <2>2. s' = u
    BY <1>5, BecomesIt DEF Moves, TransportInv
  <2> QED
    BY <1>1, <1>4, <1>5, <2>1, <2>2, HangingUpKeeps
<1>6. CASE Becomes(Disconnected(s))
  <2>1. Moves(s, Disconnected(s), backlog) /\ Disconnected(s).flow.conning = s.flow.conning
    BY <1>1, DisconnectedMoves
  <2>2. s' = Disconnected(s)
    BY <1>6, <2>1, BecomesIt DEF Moves, TransportInv
  <2> QED
    BY <1>1, <2>1, <2>2, HangingUpKeeps
<1>7. CASE Becomes(Retract(own))
  BY <1>4, <1>5, <1>7, RetractMoves
<1>8. CASE /\ own.dlg.call = main.call
           /\ \E r \in Sends(own, m) :
                 Becomes(IF r[1] THEN Ending(r[2]) ELSE Disconnected(Silenced(r[2])))
  <2>1. m \in Messages /\ m.kind # "INVITE"
    BY <1>2, MessageTypes DEF Record
  <2> HIDE DEF m
  <2>2. PICK r \in Sends(own, m) :
            Becomes(IF r[1] THEN Ending(r[2]) ELSE Disconnected(Silenced(r[2])))
    BY <1>8
  <2>3. /\ Moves(own, r[2], backlog) /\ r[2].flow.conning = own.flow.conning
        /\ r[2].dlg.call # None /\ TransportInv(r[2], backlog)
    BY <1>2, <1>4, <1>8, <2>1, SendsAndMoves DEF Moves
  <2>4. CASE r[1]
    <3>1. Moves(r[2], Ending(r[2]), backlog)
            /\ Ending(r[2]).flow.conning = r[2].flow.conning
      BY <2>3, SilencedMoves
    <3> QED
      BY <1>5, <2>2, <2>3, <2>4, <3>1, MovesOn
  <2>5. CASE ~ r[1]
    <3> DEFINE v == Silenced(r[2])
    <3>1. Moves(r[2], v, backlog) /\ v.flow.conning = r[2].flow.conning
      BY <2>3, SilencedMoves
    <3>2. Becomes(Disconnected(v))
      BY <2>2, <2>5
    <3> HIDE DEF v
    <3>3. Moves(v, Disconnected(v), backlog)
            /\ Disconnected(v).flow.conning = v.flow.conning
      BY <3>1, DisconnectedMoves DEF Moves
    <3>4. Moves(own, Disconnected(v), backlog)
      BY <2>3, <3>1, <3>3, MovesOn
    <3> QED
      BY <1>5, <2>3, <3>1, <3>2, <3>3, <3>4
  <2> QED
    BY <2>4, <2>5
<1> QED
  BY <1>3, <1>6, <1>7, <1>8

\* What is left of the events once the first is taken.
LEMMA OthersStay ==
  ASSUME TcpInv, events # <<>>
  PROVE  /\ Tail(events) \in Seq(Signals) /\ Head(events) \in Signals
         /\ \A k \in DOMAIN events :
               events[k] = Head(events)
                 \/ \E j \in DOMAIN Tail(events) : Tail(events)[j] = events[k]
<1>1. events \in Seq(Signals)
  BY MainFields
<1>2. /\ Tail(events) \in Seq(Signals) /\ Head(events) \in Signals
      /\ Len(Tail(events)) = Len(events) - 1
      /\ \A i \in 1..Len(Tail(events)) : Tail(events)[i] = events[i + 1]
  BY <1>1, HeadTailProperties
<1>3. /\ DOMAIN events = 1..Len(events) /\ Len(events) \in Nat
      /\ DOMAIN Tail(events) = 1..Len(Tail(events))
  BY <1>1, <1>2, LenProperties
<1>4. ASSUME NEW k \in DOMAIN events, k # 1
      PROVE  k - 1 \in DOMAIN Tail(events) /\ Tail(events)[k - 1] = events[k]
  <2>1. k - 1 \in 1..Len(Tail(events)) /\ (k - 1) + 1 = k
    BY <1>2, <1>3, <1>4
  <2> QED
    BY <1>2, <1>3, <2>1
<1>5. Head(events) = events[1]
  BY <1>1
<1> QED
  BY <1>2, <1>4, <1>5

\* A call that is not current any more, or not yet, is told of nothing; the dialog of
\* the current one goes only when that is what the event says.
LEMMA HandlingKeeps ==
  ASSUME TcpInv, UnmovedByMain, events # <<>>, events' = Tail(events),
         NEW u, s' = u, Moves(s, u, backlog), u.flow.conning = s.flow.conning,
         main' \in MainRecord, main'.dialled = main.dialled, ~ Placing',
         main'.at = "idle" <=> main'.call = None,
         \/ main'.at = "idle" \/ u.dlg.call = main'.call
         \/ /\ main.at \in {"calling", "call"} /\ main'.call = main.call
            /\ dlg.call # main.call \/ u.dlg = dlg
            /\ ~ (Head(events).kind \in {"ended", "gone"} /\ Head(events).call = main.call)
  PROVE  TcpInv'
<1>1. /\ events' \in Seq(Signals) /\ LossHasEvent /\ task' = task /\ dlg' = u.dlg
      /\ \A k \in DOMAIN events :
            events[k] = Head(events) \/ \E j \in DOMAIN events' : events'[j] = events[k]
  BY OthersStay, MainFields, StateFields DEF UnmovedByMain
<1>2. CallIsNew'
  BY NoneIsPlaced
<1>3. LossHasEvent'
  <2> SUFFICES ASSUME main'.at \in {"calling", "call"}, dlg'.call # main'.call,
                      task'.lost = None
               PROVE  \E k \in DOMAIN events' : /\ events'[k].kind \in {"ended", "gone"}
                                                /\ events'[k].call = main'.call
    BY DEF LossHasEvent
  <2>1. /\ main.at \in {"calling", "call"} /\ main'.call = main.call /\ dlg.call # main.call
        /\ ~ (Head(events).kind \in {"ended", "gone"} /\ Head(events).call = main.call)
    BY <1>1
  <2>2. PICK k \in DOMAIN events : /\ events[k].kind \in {"ended", "gone"}
                                   /\ events[k].call = main.call
    BY <1>1, <2>1 DEF LossHasEvent
  <2> QED
    BY <1>1, <2>1, <2>2
<1> QED
  BY <1>1, <1>2, <1>3, MainKeeps DEF Moves

\* An INVITE that came in is answered if the main loop is idle and its dialog is still there.
LEMMA AnsweredKeeps ==
  ASSUME TcpInv, UnmovedByMain, main.at \in {"idle", "calling", "call"}, events # <<>>,
         events' = Tail(events), Head(events).kind = "incoming", Answered(Head(events))
  PROVE  TcpInv'
<1> DEFINE e == Head(events)
           m == Record("response", e.call)
<1>1. /\ TransportInv(s, backlog) /\ s.dlg = dlg /\ main \in MainRecord /\ CallIsNew
      /\ main.at = "idle" <=> main.call = None
  BY MainFields DEF CallIsNew
<1>2. e.call \in Calls /\ e.call # None /\ e.kind = "incoming"
  <2>1. e \in Signals
    BY OthersStay
  <2> QED
    BY <2>1 DEF Signals, Calls, None
<1> HIDE DEF e
<1>3. m \in Messages /\ m.kind # "INVITE"
  BY <1>2, MessageTypes DEF Record
<1> HIDE DEF m
<1>4. UNCHANGED main => /\ main' \in MainRecord /\ main'.dialled = main.dialled /\ ~ Placing'
                        /\ main'.at = "idle" <=> main'.call = None
  BY <1>1 DEF Placing
<1>5. ~ (Head(events).kind \in {"ended", "gone"} /\ Head(events).call = main.call)
  OBVIOUS
<1>6. CASE UNCHANGED <<main, transport>>
  <2>1. s' = s /\ Moves(s, s, backlog)
    BY <1>1, <1>6, BecomesIt, StayMoves
  <2> QED
    BY <1>1, <1>4, <1>5, <1>6, <2>1, HandlingKeeps
<1>7. CASE /\ main.at = "idle" /\ dlg.call = e.call
           /\ \E r \in Sends(s, m) :
                 IF r[1] THEN /\ Becomes([r[2] EXCEPT !.dlg.media = TRUE])
                              /\ main' = [main EXCEPT !.at = "call", !.call = e.call]
                         ELSE Becomes(Disconnected(r[2])) /\ UNCHANGED main
  <2>1. PICK r \in Sends(s, m) :
            IF r[1] THEN /\ Becomes([r[2] EXCEPT !.dlg.media = TRUE])
                         /\ main' = [main EXCEPT !.at = "call", !.call = e.call]
                    ELSE Becomes(Disconnected(r[2])) /\ UNCHANGED main
    BY <1>7
  <2>2. CASE r[1]
    <3> DEFINE d == [dlg EXCEPT !.media = TRUE]
               u == [r[2] EXCEPT !.dlg = d]
    <3>1. d \in DialogRecord /\ d.call = e.call
      <4>1. dlg \in DialogRecord /\ TRUE \in BOOLEAN
        BY <1>1, FieldTypes DEF TransportInv
      <4> QED
        BY <1>7, <4>1, DialogUpdates
    <3>2. [r[2] EXCEPT !.dlg.media = TRUE] = u
      <4>1. r[2].dlg = dlg
        BY <1>1, <1>3, SendsAndMoves
      <4> QED
        BY <4>1
    <3> HIDE DEF d
    <3>3. Moves(s, u, backlog) /\ u.dlg = d /\ u.flow.conning = s.flow.conning
      BY <1>1, <1>2, <1>3, <3>1, SendsAndMoves
    <3> HIDE DEF u
    <3>4. s' = u
      BY <2>1, <2>2, <3>2, <3>3, BecomesIt DEF Moves, TransportInv
    <3>5. /\ main' \in MainRecord /\ main'.at = "call" /\ main'.call = e.call
          /\ main'.dialled = main.dialled
      BY <1>1, <1>2, <2>1, <2>2 DEF MainRecord
    <3>6. ~ Placing'
      BY <3>5 DEF Placing
    <3> QED
      BY <1>2, <3>1, <3>3, <3>4, <3>5, <3>6, HandlingKeeps
  <2>3. CASE ~ r[1]
    <3> DEFINE u == Disconnected(r[2])
    <3>1. Becomes(u) /\ UNCHANGED main
      BY <2>1, <2>3
    <3>2. Moves(s, u, backlog) /\ u.flow.conning = s.flow.conning
      BY <1>1, <1>3, SendsAndMoves DEF Disconnected
    <3> HIDE DEF u
    <3>3. s' = u
      BY <3>1, <3>2, BecomesIt DEF Moves, TransportInv
    <3> QED
      BY <1>4, <1>7, <3>1, <3>2, <3>3, HandlingKeeps
  <2> QED
    BY <2>2, <2>3
<1> QED
  BY <1>6, <1>7 DEF Answered, m, e

\* The main loop hears of an event.
LEMMA HandleEventKeeps ==
  ASSUME TcpInv, HandleEvent
  PROVE  TcpInv'
<1> DEFINE e == Head(events)
           current == main.call # None /\ e.call = main.call
<1>1. /\ UnmovedByMain /\ main.at \in {"idle", "calling", "call"} /\ events # <<>>
      /\ events' = Tail(events)
  BY DEF HandleEvent
<1>2. /\ TransportInv(s, backlog) /\ s.dlg = dlg /\ main \in MainRecord
      /\ main.at = "idle" <=> main.call = None
      /\ events' \in Seq(Signals)
  BY <1>1, MainFields, OthersStay DEF CallIsNew
<1>3. \/ e.kind = "incoming" /\ Answered(e)
      \/ /\ e.kind = "answered" /\ current /\ UNCHANGED transport
         /\ main' = [main EXCEPT !.at = "call"]
      \/ main' = HungUp /\ Becomes(Disconnected(s))
      \/ /\ ~ (e.kind \in {"ended", "gone"} /\ current) /\ UNCHANGED <<main, transport>>
  <2> HIDE DEF e
  <2> QED
    BY DEF HandleEvent, e
<1>4. CASE e.kind = "incoming" /\ Answered(e)
  BY <1>1, <1>4, AnsweredKeeps
<1>5. CASE /\ e.kind = "answered" /\ current /\ UNCHANGED transport
           /\ main' = [main EXCEPT !.at = "call"]
  <2>1. s' = s /\ Moves(s, s, backlog)
    BY <1>2, <1>5, BecomesIt, StayMoves
  <2>2. main.at \in {"calling", "call"} /\ main.call # None
    BY <1>1, <1>2, <1>5
  <2>3. /\ main' \in MainRecord /\ main'.at = "call" /\ main'.call = main.call
        /\ main'.dialled = main.dialled
    BY <1>2, <1>5 DEF MainRecord
  <2>4. ~ Placing' /\ ~ (Head(events).kind \in {"ended", "gone"})
    BY <1>5, <2>3 DEF Placing
  <2> QED
    BY <1>1, <1>2, <2>1, <2>2, <2>3, <2>4, HandlingKeeps
<1>6. CASE main' = HungUp /\ Becomes(Disconnected(s))
  <2>1. /\ Moves(s, Disconnected(s), backlog)
        /\ Disconnected(s).flow.conning = s.flow.conning
    BY <1>2, DisconnectedMoves
  <2>2. s' = Disconnected(s)
    BY <1>6, <2>1, BecomesIt DEF Moves, TransportInv
  <2> QED
    BY <1>1, <1>2, <1>6, <2>1, <2>2, HangingUpKeeps
<1>7. CASE ~ (e.kind \in {"ended", "gone"} /\ current) /\ UNCHANGED <<main, transport>>
  <2>1. s' = s /\ Moves(s, s, backlog)
    BY <1>2, <1>7, BecomesIt, StayMoves
  <2>2. main'.dialled = main.dialled /\ main' \in MainRecord /\ ~ Placing'
          /\ (main'.at = "idle" <=> main'.call = None)
    BY <1>1, <1>2, <1>7 DEF Placing
  <2>3. main.at = "idle" \/ ~ (e.kind \in {"ended", "gone"} /\ e.call = main.call)
    BY <1>2, <1>7
  <2> QED
    BY <1>1, <1>2, <1>7, <2>1, <2>2, <2>3, HandlingKeeps
<1> QED
  BY <1>3, <1>4, <1>5, <1>6, <1>7

\* So every step of the main loop keeps the invariant,
LEMMA MainNextKeeps ==
  ASSUME TcpInv, MainNext
  PROVE  TcpInv'
BY DialKeeps, OriginateKeeps, RequestConnectKeeps, InviteKeeps, HangUpKeeps, HandleEventKeeps
   DEF MainNext

\* every step of the network does,
LEMMA NetworkNextKeeps ==
  ASSUME TcpInv, NetworkNext
  PROVE  TcpInv'
BY ConnectEndsKeeps, PeerConnectsKeeps, PeerClosesKeeps, PeerWritesKeeps, PeerFinishesKeeps
   DEF NetworkNext

\* and so does a step in which nothing changes.
LEMMA TcpStutters ==
  ASSUME TcpInv, UNCHANGED vars
  PROVE  TcpInv'
<1>1. UNCHANGED <<transport, backlog, task, main, events, inputs>>
  BY DEF vars
<1>2. s' = s
  BY <1>1, BecomesIt
<1> QED
  BY <1>1, <1>2, StateFields
     DEF TcpInv, TypeOK, CallIsNew, ReportedIsAwaited, LossHasEvent, TellsItsLoss, Placing

-----------------------------------------------------------------------------
(* Theorems. *)

\* Every socket has one holder and one stream of whole messages, a waiting INVITE is
\* one that was neither heard nor taken back, and a call without its dialog is told.
THEOREM TcpInvariant == Spec => []TcpInv
<1>1. TcpInv /\ [Next]_vars => TcpInv'
  BY MainNextKeeps, TaskNextKeeps, NetworkNextKeeps, TcpStutters DEF Next
<1> QED
  BY <1>1, InitTcp, PTL DEF Spec

\* What the flow reads and what it writes each belong to one connection and one call:
\* rx_buffer holds whole messages of the connection that exists, and an INVITE that
\* was taken back has not been received and never will be.
THEOREM FlowKept == Spec => []FlowInv
<1>1. TcpInv => FlowInv
  <2> SUFFICES ASSUME TcpInv PROVE FlowInv
    OBVIOUS
  <2>1. s.flow = flow /\ s.wire = wire /\ s.retracted = retracted
    BY StateFields
  <2>2. RetractedStaysUnsent
    BY <2>1 DEF TcpInv, TransportInv, NotHeardOnceRetracted, RetractedStaysUnsent
  <2>3. FramesAreWhole
    BY <2>1 DEF TcpInv, TransportInv, PiecesInOrder, ReadInOrder, HalfOf, FramesAreWhole
  <2> QED
    BY <2>2, <2>3 DEF TcpInv, FlowInv
<1> QED
  BY <1>1, TcpInvariant, PTL

\* A call of the main loop that has lost its dialog, whether to its peer, to a failed
\* write or connect, or to a deadline, has been told so or is about to be.
THEOREM LossIsAlwaysTold == Spec => []LossIsTold
<1>1. TcpInv => LossIsTold
  BY DEF TcpInv, LossHasEvent, LossIsTold
<1> QED
  BY <1>1, TcpInvariant, PTL

=============================================================================
