--------------------------- MODULE RtpReassembly ---------------------------
(***************************************************************************)
(* VideoRtpSession, the receive worker: RTP packets of an H.264 stream are  *)
(* put together to access units that the video sink borrows.                *)
(*                                                                         *)
(* The remote side sends Stream, from one of two SSRCs (a browser that      *)
(* restarts its media process takes another), and the network delivers any  *)
(* of its packets at any time, which loses, repeats and reorders them.  A   *)
(* unit is named by its timestamp.  An aggregate (STAP-A) counts as "nal".  *)
(***************************************************************************)
EXTENDS Integers, Sequences

CONSTANTS
    Stream,         \* the packets that the far end sends, in this order
    Units,          \* the access units in it
    Numbers,        \* how many sequence numbers there are (2^16 in the code)
    Base,           \* the sequence number before the stream's first
    Slots,          \* kReceiveAccessUnitSlots
    MaxPackets,     \* stands for kMaxAccessUnitBytes
    Pli             \* send_remote_pli_: the session may ask for key frames

\* A keepalive has no payload and belongs to no unit.
Packets == [unit : 0..Units, kind : {"nal", "start", "mid", "end", "keepalive"}, marker : BOOLEAN]
Index == DOMAIN Stream

ASSUME ReassemblyAssumption ==
    /\ {Units, Numbers, Slots, MaxPackets} \subseteq Nat \ {0}
    /\ Base \in 0..(Numbers - 1)
    /\ Pli \in BOOLEAN

\* What RFC 6184 asks of the sender: units one after the other, each with the
\* marker on its last packet.  Len: no packet is late by a cycle of the numbers.
ASSUME StreamAssumption ==
    /\ Stream \in Seq(Packets) /\ Len(Stream) < Numbers
    /\ \A i \in Index : Stream[i].unit = 0 <=> Stream[i].kind = "keepalive"
    /\ \A i, j \in Index : i < j /\ Stream[j].unit # 0 => Stream[i].unit <= Stream[j].unit
    /\ \A i \in Index : Stream[i].marker <=>
          Stream[i].unit # 0 /\ \A j \in Index : Stream[j].unit = Stream[i].unit => j <= i
    /\ \A u \in 1..Units : \E i \in Index : Stream[i].unit = u

Ssrcs == {1, 2}
Ports == {1, 2}
NoPeer == [ssrc |-> 0, port |-> 0]

VARIABLES
    enabled,        \* receive_enabled_
    resetAsked,     \* rx_reset_requested_
    peer,           \* remote_ssrc_ (0: not latched), latched_remote_rtp_port_
    expected,       \* expected_sequence_
    valid,          \* sequence_valid_
    unit,           \* the unit in reassembly_: active, timestamp, damage, open
                    \* fragmentation unit, and the packets stored
    slot,           \* reassembly_slot_, 0: none
    lease,          \* receive_access_units_[].state
    torn,           \* ghost: a refused packet discarded part of a unit
    synced,         \* ghost: the unit began in sequence
    last,           \* ghost: the last unit handed to the sink
    asked           \* ghost: since then a key frame was asked for, the sequence
                    \* started anew, or a refused packet discarded a unit;
                    \* always where no key frame can be asked for

vars == <<enabled, resetAsked, peer, expected, valid, unit, slot, lease, torn, synced, last, asked>>

Empty == [active |-> FALSE, time |-> 0, damaged |-> FALSE, fu |-> FALSE, got |-> <<>>]
None == [unit |-> 0, ssrc |-> 0, got |-> <<>>, synced |-> FALSE, torn |-> FALSE]
Number(i) == (Base + i) % Numbers
\* Mutant: the number does not wrap.
AfterUnwrapped(i) == Number(i) + 1

After(i) == (Number(i) + 1) % Numbers
FreeSlots(l) == {s \in 1..Slots : l[s] = "free"}

Init ==
    /\ enabled = FALSE /\ resetAsked = FALSE
    /\ peer = NoPeer
    /\ expected = 0 /\ valid = FALSE
    /\ unit = Empty
    /\ slot = 0 /\ lease = [s \in 1..Slots |-> "free"]
    /\ torn = FALSE /\ synced = FALSE /\ last = None /\ asked = TRUE

-----------------------------------------------------------------------------
(* Handling of one packet *)

\* The receiver's own state, which the steps of one packet thread through.
Now == [expected |-> expected, valid |-> valid, unit |-> unit, slot |-> slot, lease |-> lease,
        torn |-> torn, synced |-> synced, last |-> last, asked |-> asked]

Becomes(n) ==
    /\ expected' = n.expected /\ valid' = n.valid
    /\ unit' = n.unit /\ torn' = n.torn /\ synced' = n.synced
    /\ slot' = n.slot /\ lease' = n.lease
    /\ last' = n.last /\ asked' = n.asked

ResetReassembly(n) == [n EXCEPT !.unit = Empty]
UnitOver(n) == [ResetReassembly(n) EXCEPT !.torn = FALSE]

\* acquire_reassembly_slot_: the first free slot.
Acquire(n) ==
    IF n.slot # 0 \/ FreeSlots(n.lease) = {} THEN n
    ELSE LET s == CHOOSE s \in FreeSlots(n.lease) : \A t \in FreeSlots(n.lease) : s <= t
         IN [n EXCEPT !.slot = s, !.lease[s] = "filling"]

\* send_rtcp_pli_ leaves unless requests are negotiated and an SSRC is latched.  A
\* request that is held back because one left in the last 500 ms counts as made.
Ask(n) == [n EXCEPT !.asked = @ \/ (Pli /\ peer.ssrc # 0)]

Unusable(u, p) ==
    \/ p.kind = "malformed"
    \/ p.kind \in {"mid", "end"} /\ ~(u.active /\ u.time = p.unit /\ u.fu)

\* Mutant: a gap before a new timestamp is not the unit's.
BeginUndamaged(n, p, gap) ==
    IF n.unit.active /\ n.unit.time = p.unit
    THEN [n EXCEPT !.unit.damaged = @ \/ gap]
    ELSE [n EXCEPT !.unit = [Empty EXCEPT !.active = TRUE, !.time = p.unit],
                   !.synced = n.valid]

\* A new timestamp begins a unit; a gap damages it.
Begin(n, p, gap) ==
    IF n.unit.active /\ n.unit.time = p.unit
    THEN [n EXCEPT !.unit.damaged = @ \/ gap]
    ELSE [n EXCEPT !.unit = [Empty EXCEPT !.active = TRUE, !.time = p.unit, !.damaged = gap],
                   !.synced = n.valid]

\* What a damaged unit holds is never read again.
Store(n, p, what) ==
    LET damaged == \/ n.unit.damaged
                   \/ n.unit.fu /\ p.kind \in {"nal", "start"}
                   \/ Len(n.unit.got) = MaxPackets
        open == p.kind = "start" \/ (n.unit.fu /\ p.kind # "end")
    IN [n EXCEPT !.unit = [n.unit EXCEPT
            !.damaged = damaged, !.fu = open,
            !.got = IF damaged THEN <<>> ELSE Append(n.unit.got, what)]]

\* Mutant: no key frame is asked for.
DropSilently(n) == UnitOver(n)

\* finish_access_unit_: the outcomes for a marker packet.  A key frame may
\* lack the room for the stored parameter sets; the sink may refuse.
Drop(n) == Ask(UnitOver(n))

Hand(n) ==
    [n EXCEPT !.lease[n.slot] = "sink", !.slot = 0,
              !.last = [unit |-> n.unit.time, ssrc |-> n.unit.got[1][1], got |-> n.unit.got,
                        synced |-> n.synced, torn |-> n.torn],
              !.asked = ~Pli]

\* Mutant: the refused unit's slot is not released.
RefusedUnitKept(n) == [n EXCEPT !.slot = 0]

RefusedUnit(n) == [n EXCEPT !.lease[n.slot] = "free", !.slot = 0]

Finished(n) ==
    IF n.unit.damaged THEN {Drop(n)}
    ELSE {Drop(n), Acquire(Drop(RefusedUnit(n))), Acquire(UnitOver(Hand(n)))}

\* handle_h264_payload_ once a slot is there.
Stored(n, i, s) ==
    Store(Begin(n, Stream[i], n.valid /\ Number(i) # n.expected), Stream[i], <<s, i>>)

\* The marker inside a fragmentation unit.
EndsOpen(n, i) == Stream[i].marker /\ n.unit.fu

Admitted(n, i) == IF Stream[i].marker THEN Finished(n) ELSE {n}

Advance(n, i) == [n EXCEPT !.expected = After(i), !.valid = TRUE]

-----------------------------------------------------------------------------
(* The receive worker *)

\* Where a reset, asked for or by a new SSRC, leaves the receiver.
Resynchronise(n) == [UnitOver(n) EXCEPT !.valid = FALSE, !.asked = TRUE]

\* A reset is honoured before a batch of packets, not within one.
HonourReset ==
    /\ resetAsked
    /\ resetAsked' = FALSE
    /\ Becomes(Resynchronise(Now))
    /\ UNCHANGED <<enabled, peer>>

\* Only the latched tuple may bring another SSRC, and it starts over.
SourceChanged(s) == peer.ssrc # 0 /\ s # peer.ssrc
Heard(s, port) == ~SourceChanged(s) \/ port = peer.port
Restarted(s) == IF SourceChanged(s) THEN Resynchronise(Now) ELSE Now

Ready(n) == enabled /\ Acquire(n).slot # 0

\* Receiving is off or every slot is lent: the receiver stays as it is.
PacketIgnored(s, port) ==
    /\ Heard(s, port)
    /\ ~Ready(Restarted(s))
    /\ Becomes(Restarted(s))
    /\ UNCHANGED <<enabled, resetAsked, peer>>

Discard(n) ==
    [ResetReassembly(n) EXCEPT !.torn = @ \/ n.unit.active, !.asked = @ \/ n.unit.active]

\* An unusable payload discards the unit and leaves the sequence alone.
PacketRefused(p, s, port) ==
    /\ Heard(s, port)
    /\ Ready(Restarted(s))
    /\ Unusable(Restarted(s).unit, p)
    /\ Becomes(Discard(Acquire(Restarted(s))))
    /\ UNCHANGED <<enabled, resetAsked, peer>>

Usable(i, s, port) ==
    /\ Heard(s, port)
    /\ Stream[i].kind # "keepalive"
    /\ Ready(Restarted(s)) /\ ~Unusable(Restarted(s).unit, Stream[i])

\* The sender that is heard is latched, its port followed.
PacketAccepted(i, s, port) ==
    /\ Usable(i, s, port)
    /\ LET n == Stored(Acquire(Restarted(s)), i, s) IN
          /\ ~EndsOpen(n, i)
          /\ \E m \in Admitted(n, i) : Becomes(Advance(m, i))
    /\ peer' = [ssrc |-> s, port |-> port]
    /\ UNCHANGED <<enabled, resetAsked>>

\* The unit is dropped, and the packet does not count as received.
MarkerRefused(i, s, port) ==
    /\ Usable(i, s, port)
    /\ LET n == Stored(Acquire(Restarted(s)), i, s) IN EndsOpen(n, i) /\ Becomes([Drop(n) EXCEPT !.torn = TRUE])
    /\ UNCHANGED <<enabled, resetAsked, peer>>

\* A keepalive uses up the expected number and nothing else.
Keepalive(i, s, port) ==
    /\ Stream[i].kind = "keepalive"
    /\ peer = [ssrc |-> s, port |-> port]
    /\ valid /\ Number(i) = expected
    /\ Becomes([Now EXCEPT !.expected = After(i)])
    /\ UNCHANGED <<enabled, resetAsked, peer>>

-----------------------------------------------------------------------------
(* Other threads *)

\* release_reassembly_slot_, called by the sink.
SinkReleases(s) ==
    /\ lease[s] = "sink"
    /\ lease' = [lease EXCEPT ![s] = "free"]
    /\ UNCHANGED <<enabled, resetAsked, peer, expected, valid, unit, slot, torn, synced, last, asked>>

\* request_media_direction.
EnableReceive ==
    /\ ~enabled
    /\ enabled' = TRUE
    /\ UNCHANGED <<resetAsked, peer, expected, valid, unit, slot, lease, torn, synced, last, asked>>

DisableReceive ==
    /\ enabled
    /\ enabled' = FALSE /\ resetAsked' = TRUE
    /\ UNCHANGED <<peer, expected, valid, unit, slot, lease, torn, synced, last, asked>>

Malformed == [unit |-> 0, kind |-> "malformed", marker |-> FALSE]

Next ==
    \/ HonourReset \/ EnableReceive \/ DisableReceive
    \/ \E s \in 1..Slots : SinkReleases(s)
    \/ \E s \in Ssrcs, port \in Ports :
          \/ PacketIgnored(s, port)
          \/ PacketRefused(Malformed, s, port)
          \/ \E i \in Index :
                \/ PacketRefused(Stream[i], s, port)
                \/ PacketAccepted(i, s, port)
                \/ MarkerRefused(i, s, port)
                \/ Keepalive(i, s, port)

Spec == Init /\ [][Next]_vars

-----------------------------------------------------------------------------

\* What a unit holds: the packets and who sent each.
Gathered == Seq(Ssrcs \X Index)

TypeOK ==
    /\ {enabled, resetAsked, valid, torn, synced, asked} \subseteq BOOLEAN
    /\ peer \in [ssrc : {0} \cup Ssrcs, port : {0} \cup Ports]
    /\ expected \in 0..(Numbers - 1)
    /\ unit \in [active : BOOLEAN, time : 0..Units, damaged : BOOLEAN, fu : BOOLEAN, got : Gathered]
    /\ Len(unit.got) <= MaxPackets
    /\ slot \in 0..Slots
    /\ lease \in [1..Slots -> {"free", "filling", "sink"}]
    /\ last \in [unit : 0..Units, ssrc : {0} \cup Ssrcs, got : Gathered,
                 synced : BOOLEAN, torn : BOOLEAN]

\* Slots circulate (acquire_reassembly_slot_, finish_access_unit_): the one
\* being filled is the worker's, no other is, so that a unit in the sink's
\* hands is never written and no slot is lost when a unit is dropped, refused,
\* reset or the SSRC changes.
OneSlotFilling ==
    /\ TypeOK
    /\ \A s \in 1..Slots : lease[s] = "filling" <=> s = slot

\* got is what source s sent of unit u as far as packet i: all of it, once and
\* in order.
SentUpTo(got, s, u, i) ==
    /\ \A k \in DOMAIN got : got[k][1] = s /\ got[k][2] <= i /\ Stream[got[k][2]].unit = u
    /\ \A k, l \in DOMAIN got : k < l => got[k][2] < got[l][2]
    /\ \A j \in Index : j <= i /\ Stream[j].unit = u => \E k \in DOMAIN got : got[k][2] = j

Whole(u) == SentUpTo(u.got, u.ssrc, u.unit, Len(Stream))

\* A unit that began in sequence and lost no packet to a refused one reaches
\* the sink whole, whatever was lost, repeated or reordered before and in
\* between.
UnitsAreWhole == last.unit # 0 /\ last.synced /\ ~last.torn => Whole(last)

\* In a session that may ask for key frames, a unit handed over that does not
\* follow the one before it in its stream follows a request for one (or a request
\* held back by one of the last 500 ms), a new start of the sequence or a unit
\* discarded with a refused packet: otherwise no picture's loss goes unnoticed,
\* however its packets were lost.
HandsOver == \E s \in 1..Slots : lease[s] # "sink" /\ lease'[s] = "sink"
SkipIsAnswered ==
    [][HandsOver /\ ~asked /\ last'.ssrc = last.ssrc => last'.unit = last.unit + 1]_vars

-----------------------------------------------------------------------------
(* The inductive invariant *)

\* No unit has packets both at or before i and after it.
Border(i) ==
    \A k, j \in Index : k <= i /\ i < j /\ Stream[k].unit # 0 => Stream[k].unit # Stream[j].unit

\* The last packet counted is i, of source s.
\* A unit in reassembly has begun and is not complete; between units, nothing is open.
UnitIsOpen(n, i) ==
    IF n.unit.active
    THEN /\ n.unit.time # 0
         /\ \E k \in Index : k <= i /\ Stream[k].unit = n.unit.time
         /\ \E j \in Index : i < j /\ Stream[j].unit = n.unit.time
    ELSE n.torn \/ Border(i)

\* What is stored of a unit is of one source, and all that was sent of it.
UnitIsGathered(n, s, i) ==
    n.unit.active /\ ~n.unit.damaged =>
        /\ n.unit.got # <<>> /\ \A k \in DOMAIN n.unit.got : n.unit.got[k][1] = s
        /\ n.synced /\ ~n.torn => SentUpTo(n.unit.got, s, n.unit.time, i)

\* While no key frame is due, the stream is followed from the last unit on, or
\* the unit in reassembly is already lost and will be dropped.
IsFollowed(n, i) ==
    \/ n.asked
    \/ n.unit.active /\ (n.unit.damaged \/ n.unit.time = n.last.unit + 1)
    \/ /\ ~n.unit.active
       /\ n.last.unit # 0 /\ \A k \in Index : k <= i => Stream[k].unit <= n.last.unit
       /\ \E k \in Index : k <= i /\ Stream[k].unit = n.last.unit

ReceiverInv(n, s) ==
    /\ n.unit.active \/ ~n.asked => n.valid
    /\ n.valid => /\ s # 0
                  /\ \E i \in Index : /\ n.expected = After(i)
                                      /\ UnitIsOpen(n, i) /\ UnitIsGathered(n, s, i)
                                      /\ IsFollowed(n, i)
    /\ ~n.asked => Pli /\ ~n.torn /\ n.last.ssrc = s
    /\ n.last.unit # 0 /\ n.last.synced /\ ~n.last.torn => Whole(n.last)

ReassemblyInv == TypeOK /\ OneSlotFilling /\ ReceiverInv(Now, peer.ssrc)

=============================================================================
