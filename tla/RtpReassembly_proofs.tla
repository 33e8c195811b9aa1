----------------------- MODULE RtpReassembly_proofs -----------------------
(***************************************************************************)
(* Proofs about RtpReassembly, for every stream that the packetization      *)
(* allows, any cycle of sequence numbers longer than the stream, any number *)
(* of slots and any room in one.                                            *)
(*                                                                         *)
(* The steps of one packet are functions on the receiver's own state.  A    *)
(* receiver is Good while a source is latched if it keeps the invariant;    *)
(* each function is shown to lead from a Good receiver to a Good one, and   *)
(* each action is a composition of them.                                    *)
(***************************************************************************)
EXTENDS RtpReassembly, WellFoundedInduction, TLAPS

\* The types of the receiver's state.
UnitType == [active : BOOLEAN, time : 0..Units, damaged : BOOLEAN, fu : BOOLEAN, got : Gathered]
LastType == [unit : 0..Units, ssrc : {0} \cup Ssrcs, got : Gathered,
             synced : BOOLEAN, torn : BOOLEAN]

Leases == [1..Slots -> {"free", "filling", "sink"}]

Receivers ==
    [expected : 0..(Numbers - 1), valid : BOOLEAN, unit : UnitType, slot : 0..Slots,
     lease : Leases, torn : BOOLEAN, synced : BOOLEAN,
     last : LastType, asked : BOOLEAN]

\* The slot being filled is the worker's, and no other is.
SlotsRight(n) == \A t \in 1..Slots : n.lease[t] = "filling" <=> t = n.slot

\* A receiver that keeps the invariant while source s is latched.
Good(n, s) ==
    n \in Receivers /\ Len(n.unit.got) <= MaxPackets /\ SlotsRight(n) /\ ReceiverInv(n, s)

\* No slot is handed to the sink.
NoneHanded(n, m) == \A t \in 1..Slots : m.lease[t] = "sink" => n.lease[t] = "sink"

-----------------------------------------------------------------------------
(* The stream and its numbers. *)

\* The constants as the provers want them: kReceiveAccessUnitSlots and the rest
\* are not zero.
LEMMA Sizes ==
  /\ Units \in Nat /\ Units > 0 /\ Numbers \in Nat /\ Numbers > 0
  /\ Slots \in Nat /\ Slots > 0 /\ MaxPackets \in Nat /\ MaxPackets > 0
  /\ Base \in Nat /\ Base < Numbers
  BY ReassemblyAssumption

\* The stream's positions and packets have their types.
LEMMA StreamFacts ==
  /\ Stream \in Seq(Packets) /\ Len(Stream) \in Nat /\ Len(Stream) < Numbers
  /\ Index = 1..Len(Stream)
  /\ \A i \in Index : Stream[i] \in Packets /\ Stream[i].unit \in 0..Units /\ i \in Nat
<1>1. Stream \in Seq(Packets) /\ Len(Stream) \in Nat /\ Len(Stream) < Numbers
  BY StreamAssumption
<1>2. Index = 1..Len(Stream)
  BY <1>1 DEF Index
<1>3. \A i \in Index : Stream[i] \in Packets /\ i \in Nat
  BY <1>1, <1>2
<1> QED
  BY <1>1, <1>2, <1>3 DEF Packets

\* A number less than two cycles wraps at most once.
LEMMA Wraps ==
  ASSUME NEW a \in Nat, NEW b \in Nat, NEW m \in Nat, m > 0, a <= m, b < m
  PROVE  (a + b) % m = IF a + b < m THEN a + b ELSE a + b - m
  OBVIOUS

\* Numbers stay within the cycle.
LEMMA NumberType ==
  ASSUME NEW i \in Index
  PROVE  Number(i) \in 0..(Numbers - 1) /\ After(i) \in 0..(Numbers - 1)
  BY Sizes, StreamFacts DEF Number, After

\* The packet whose number follows packet i's is the next one.
LEMMA NextPacket ==
  ASSUME NEW i \in Index, NEW j \in Index, Number(j) = After(i)
  PROVE  j = i + 1
<1>1. i \in Nat /\ j \in Nat /\ 1 <= i /\ 1 <= j /\ i < Numbers /\ j < Numbers
  BY StreamFacts, Sizes
<1>2. Number(i) = IF Base + i < Numbers THEN Base + i ELSE Base + i - Numbers
  BY <1>1, Sizes, Wraps DEF Number
<1>3. Number(j) = IF Base + j < Numbers THEN Base + j ELSE Base + j - Numbers
  BY <1>1, Sizes, Wraps DEF Number
<1>4. Number(i) \in Nat /\ Number(i) < Numbers
  BY <1>1, <1>2, Sizes
<1>5. After(i) = IF Number(i) + 1 < Numbers THEN Number(i) + 1 ELSE Number(i) + 1 - Numbers
  <2>1. After(i) = (Number(i) + 1) % Numbers
    BY DEF After
  <2>2. CASE Numbers = 1
    BY <1>1, <2>2
  <2>3. CASE 1 < Numbers
    BY <1>4, <2>1, <2>3, Sizes, Wraps
  <2> QED
    BY <2>2, <2>3, Sizes
<1>6. /\ Base \in Nat /\ Numbers \in Nat /\ Base < Numbers
      /\ i \in Nat /\ j \in Nat /\ 1 <= j /\ j < Numbers /\ i < Numbers
  BY <1>1, Sizes
<1>7. \/ After(i) = Base + i + 1 \/ After(i) = Base + i + 1 - Numbers
  BY <1>2, <1>5, <1>6
<1>8. \/ After(i) = Base + j \/ After(i) = Base + j - Numbers
  BY <1>3
<1>9. After(i) \in 0..(Numbers - 1)
  BY NumberType
<1> QED
  BY <1>6, <1>7, <1>8, <1>9

-----------------------------------------------------------------------------
(* The pieces of the worker. *)

\* UnitOver touches the unit and its ghost, and nothing else.
LEMMA ResetEffect ==
  ASSUME NEW n \in Receivers
  PROVE  LET m == UnitOver(n) IN
         /\ m \in Receivers /\ m.unit = Empty /\ m.torn = FALSE
         /\ m.expected = n.expected /\ m.valid = n.valid /\ m.slot = n.slot /\ m.lease = n.lease
         /\ m.synced = n.synced /\ m.last = n.last /\ m.asked = n.asked
<1>1. Empty \in UnitType
  BY Sizes DEF Empty, UnitType, Gathered
<1> QED
  BY <1>1 DEF UnitOver, ResetReassembly, Receivers

\* The empty unit holds nothing.
LEMMA EmptyFields ==
  Empty \in UnitType /\ Empty.active = FALSE /\ Empty.got = <<>> /\ Len(Empty.got) = 0
  BY Sizes DEF Empty, UnitType, Gathered

\* A receiver that starts over keeps the invariant, whoever is latched then:
\* the sequence is no longer valid.
LEMMA ResyncKeeps ==
  ASSUME NEW n, NEW s, Good(n, s), NEW t
  PROVE  Good(Resynchronise(n), t) /\ NoneHanded(n, Resynchronise(n))
<1> DEFINE m == Resynchronise(n)
<1>1. /\ m \in Receivers /\ m.unit = Empty /\ m.valid = FALSE /\ m.asked = TRUE
      /\ m.slot = n.slot /\ m.lease = n.lease /\ m.last = n.last
  <2> DEFINE r == UnitOver(n)
             v == [r EXCEPT !.valid = FALSE]
  <2>1. /\ r \in Receivers /\ r.unit = Empty /\ r.slot = n.slot /\ r.lease = n.lease
        /\ r.last = n.last
    BY ResetEffect DEF Good
  <2>2. m = [v EXCEPT !.asked = TRUE]
    BY DEF Resynchronise
  <2> HIDE DEF r, m
  <2> QED
    BY <2>1, <2>2 DEF Receivers
<1> HIDE DEF m
<1>2. ReceiverInv(m, t)
  BY <1>1, EmptyFields DEF Good, ReceiverInv
<1> QED
  BY <1>1, <1>2, EmptyFields, Sizes DEF m, Good, SlotsRight, NoneHanded

\* Of the free slots one is the first.
LEMMA LeastSlot ==
  ASSUME NEW T, T \subseteq Nat, T # {}
  PROVE  \E x \in T : \A y \in T : x <= y
<1> DEFINE Less2 == {p \in Nat \X Nat : p[1] < p[2]}
<1>1. IsWellFoundedOn(Less2, Nat)
  BY NatLessThanWellFounded, Zenon DEF OpToRel
<1>2. PICK x \in T : \A y \in T : ~ (<<y, x>> \in Less2)
  <2> HIDE DEF Less2
  <2> QED
    BY <1>1, WFMin
<1> SUFFICES ASSUME NEW y \in T
             PROVE  x <= y
  OBVIOUS
<1>3. x \in Nat /\ y \in Nat /\ (y < x => <<y, x>> \in Less2)
  OBVIOUS
<1> QED
  BY <1>2, <1>3

\* acquire_reassembly_slot_ touches the slots and nothing else, and leaves one
\* being filled at most.
LEMMA AcquireEffect ==
  ASSUME NEW n \in Receivers, SlotsRight(n)
  PROVE  LET m == Acquire(n) IN
         /\ m \in Receivers /\ SlotsRight(m) /\ NoneHanded(n, m)
         /\ m.unit = n.unit /\ m.expected = n.expected /\ m.valid = n.valid
         /\ m.synced = n.synced /\ m.last = n.last /\ m.asked = n.asked /\ m.torn = n.torn
<1>1. CASE n.slot # 0 \/ FreeSlots(n.lease) = {}
  BY <1>1 DEF Acquire, NoneHanded
<1>2. CASE n.slot = 0 /\ FreeSlots(n.lease) # {}
  <2> DEFINE s == CHOOSE s \in FreeSlots(n.lease) : \A t \in FreeSlots(n.lease) : s <= t
             m == [n EXCEPT !.slot = s, !.lease[s] = "filling"]
  <2>1. \E x \in FreeSlots(n.lease) : \A t \in FreeSlots(n.lease) : x <= t
    <3>1. FreeSlots(n.lease) \subseteq Nat
      BY Sizes DEF FreeSlots
    <3> QED
      BY <1>2, <3>1, LeastSlot
  <2>2. s \in 1..Slots /\ n.lease[s] = "free"
    BY <2>1 DEF FreeSlots
  <2>3. Acquire(n) = m
    BY <1>2 DEF Acquire
  <2> HIDE DEF s
  <2>4. /\ m \in Receivers /\ m.slot = s /\ m.lease = [n.lease EXCEPT ![s] = "filling"]
        /\ m.unit = n.unit /\ m.expected = n.expected /\ m.valid = n.valid
        /\ m.synced = n.synced /\ m.last = n.last /\ m.asked = n.asked /\ m.torn = n.torn
    <3>1. [n.lease EXCEPT ![s] = "filling"] \in Leases /\ s \in 0..Slots
      BY <2>2, Sizes DEF Receivers, Leases
    <3>2. m = [[n EXCEPT !.slot = s] EXCEPT !.lease = [n.lease EXCEPT ![s] = "filling"]]
      BY DEF Receivers
    <3> QED
      BY <3>1, <3>2 DEF Receivers
  <2>5. n.lease \in Leases
    BY DEF Receivers
  <2>6. SlotsRight(m) /\ NoneHanded(n, m)
    BY <1>2, <2>2, <2>4, <2>5, Sizes DEF Leases, SlotsRight, NoneHanded
  <2> QED
    BY <2>3, <2>4, <2>6
<1> QED
  BY <1>1, <1>2

-----------------------------------------------------------------------------
(* Facts about a stream in order. *)

\* While a unit is open, the next packet is of that unit or of none.
LEMMA StaysInUnit ==
  ASSUME NEW n \in Receivers, NEW i \in Index, i + 1 \in Index, n.unit.active,
         UnitIsOpen(n, i), Stream[i + 1].unit # 0
  PROVE  Stream[i + 1].unit = n.unit.time
<1>1. PICK k \in Index : k <= i /\ Stream[k].unit = n.unit.time
  BY DEF UnitIsOpen
<1>2. PICK j \in Index : i < j /\ Stream[j].unit = n.unit.time /\ Stream[j].unit # 0
  BY DEF UnitIsOpen
<1>3. i \in Nat /\ k \in Nat /\ j \in Nat
  BY StreamFacts
<1>4. Stream[k].unit <= Stream[i + 1].unit
  BY <1>1, <1>3, StreamAssumption
<1>5. j = i + 1 \/ Stream[i + 1].unit <= Stream[j].unit
  BY <1>2, <1>3, StreamAssumption
<1> QED
  BY <1>1, <1>2, <1>4, <1>5, StreamFacts

\* At a border, the unit that begins is the one after the last unit seen.
LEMMA NextUnit ==
  ASSUME NEW i \in Index, i + 1 \in Index, Border(i), Stream[i + 1].unit # 0,
         NEW u \in 1..Units, \A k \in Index : k <= i => Stream[k].unit <= u,
         \E k \in Index : k <= i /\ Stream[k].unit = u
  PROVE  Stream[i + 1].unit = u + 1
<1> DEFINE v == Stream[i + 1].unit
<1>1. PICK k \in Index : k <= i /\ Stream[k].unit = u
  OBVIOUS
<1>2. i \in Nat /\ k \in Nat /\ v \in Nat /\ v <= Units /\ u \in Nat /\ u # 0
  <2>1. i \in Nat /\ k \in Nat /\ v \in 0..Units
    BY StreamFacts
  <2>2. v \in Nat /\ v <= Units
    BY <2>1, Sizes
  <2> HIDE DEF v
  <2>3. u \in Nat /\ u # 0
    BY Sizes
  <2> QED
    BY <2>1, <2>2, <2>3
<1>3. u <= v
  BY <1>1, <1>2, StreamAssumption
<1>4. u # v
  BY <1>1, <1>2 DEF Border
<1>5. ASSUME u + 1 < v
      PROVE  FALSE
  <2>1. u + 1 \in 1..Units
    BY <1>2, <1>5, Sizes
  <2>2. PICK l \in Index : Stream[l].unit = u + 1
    BY <2>1, StreamAssumption
  <2>3. l \in Nat /\ ~(l <= i)
    BY <1>2, <2>2, StreamFacts
  <2>4. l # i + 1
    BY <1>2, <1>5, <2>2
  <2>5. v <= u + 1
    BY <1>2, <2>2, <2>3, <2>4, StreamAssumption
  <2> QED
    BY <1>2, <1>5, <2>5
<1> QED
  BY <1>2, <1>3, <1>4, <1>5

\* After a unit's last packet nothing is open, and no packet before is of a
\* later unit.
LEMMA MarkerIsBorder ==
  ASSUME NEW i \in Index, Stream[i].marker
  PROVE  /\ Stream[i].unit # 0 /\ Border(i)
         /\ \A k \in Index : k <= i => Stream[k].unit <= Stream[i].unit
         /\ \A j \in Index : Stream[j].unit = Stream[i].unit => j <= i
<1>1. Stream[i].unit # 0 /\ \A j \in Index : Stream[j].unit = Stream[i].unit => j <= i
  BY StreamAssumption
<1>2. \A k \in Index : k <= i => Stream[k].unit <= Stream[i].unit
  <2> SUFFICES ASSUME NEW k \in Index, k <= i
               PROVE  Stream[k].unit <= Stream[i].unit
    OBVIOUS
  <2>1. k = i \/ k < i
    BY StreamFacts
  <2> QED
    BY <1>1, <2>1, StreamAssumption, StreamFacts
<1>3. Border(i)
  <2> SUFFICES ASSUME NEW k \in Index, NEW j \in Index, k <= i, i < j, Stream[k].unit # 0,
                      Stream[k].unit = Stream[j].unit
               PROVE  FALSE
    BY DEF Border
  <2>1. Stream[i].unit <= Stream[j].unit /\ Stream[k].unit <= Stream[i].unit
    BY <1>1, <1>2, StreamAssumption
  <2>2. Stream[j].unit = Stream[i].unit
    BY <2>1, StreamFacts
  <2> QED
    BY <1>1, <2>2, StreamFacts
<1> QED
  BY <1>1, <1>2, <1>3

\* One more packet of the unit, the next one.
LEMMA SentOneMore ==
  ASSUME NEW got \in Gathered, NEW s \in Ssrcs, NEW u, NEW i \in Index, i + 1 \in Index,
         SentUpTo(got, s, u, i), Stream[i + 1].unit = u
  PROVE  SentUpTo(Append(got, <<s, i + 1>>), s, u, i + 1)
<1> DEFINE g == Append(got, <<s, i + 1>>)
<1>1. i \in Nat /\ Len(got) \in Nat /\ DOMAIN got = 1..Len(got)
  BY StreamFacts DEF Gathered
<1>2. /\ DOMAIN g = 1..(Len(got) + 1)
      /\ g[Len(got) + 1] = <<s, i + 1>>
      /\ \A k \in 1..Len(got) : g[k] = got[k]
  BY <1>1 DEF Gathered
<1>3. \A k \in 1..Len(got) : got[k][2] \in Index
  BY DEF Gathered
<1> HIDE DEF g
<1>4. \A k \in DOMAIN g : g[k][1] = s /\ g[k][2] <= i + 1 /\ Stream[g[k][2]].unit = u
  <2> SUFFICES ASSUME NEW k \in DOMAIN g
               PROVE  g[k][1] = s /\ g[k][2] <= i + 1 /\ Stream[g[k][2]].unit = u
    OBVIOUS
  <2>1. CASE k = Len(got) + 1
    BY <1>1, <1>2, <2>1
  <2>2. CASE k \in 1..Len(got)
    BY <1>1, <1>2, <1>3, <2>2, StreamFacts DEF SentUpTo
  <2> QED
    BY <1>1, <1>2, <2>1, <2>2
<1>5. \A k, l \in DOMAIN g : k < l => g[k][2] < g[l][2]
  <2> SUFFICES ASSUME NEW k \in DOMAIN g, NEW l \in DOMAIN g, k < l
               PROVE  g[k][2] < g[l][2]
    OBVIOUS
  <2>1. k \in 1..Len(got)
    BY <1>1, <1>2
  <2>2. CASE l = Len(got) + 1
    BY <1>1, <1>2, <1>3, <2>1, <2>2, StreamFacts DEF SentUpTo
  <2>3. CASE l \in 1..Len(got)
    BY <1>1, <1>2, <2>1, <2>3 DEF SentUpTo
  <2> QED
    BY <1>1, <1>2, <2>2, <2>3
<1>6. \A j \in Index : j <= i + 1 /\ Stream[j].unit = u => \E k \in DOMAIN g : g[k][2] = j
  <2> SUFFICES ASSUME NEW j \in Index, j <= i + 1, Stream[j].unit = u
               PROVE  \E k \in DOMAIN g : g[k][2] = j
    OBVIOUS
  <2>1. CASE j = i + 1
    BY <1>1, <1>2, <2>1
  <2>2. CASE j <= i
    <3>1. PICK k \in DOMAIN got : got[k][2] = j
      BY <2>2 DEF SentUpTo
    <3> QED
      BY <1>1, <1>2, <3>1
  <2> QED
    BY <1>1, <2>1, <2>2, StreamFacts
<1> QED
  BY <1>4, <1>5, <1>6 DEF SentUpTo, g

\* The first packet of the unit.
LEMMA SentFirst ==
  ASSUME NEW s \in Ssrcs, NEW i \in Index,
         \A j \in Index : j < i => Stream[j].unit # Stream[i].unit
  PROVE  SentUpTo(Append(<<>>, <<s, i>>), s, Stream[i].unit, i)
<1> DEFINE g == Append(<<>>, <<s, i>>)
<1>1. DOMAIN g = {1} /\ g[1] = <<s, i>>
  OBVIOUS
<1>2. \A j \in Index : j <= i /\ Stream[j].unit = Stream[i].unit => j = i
  BY StreamFacts
<1> HIDE DEF g
<1>3. i <= i
  BY StreamFacts
<1> QED
  BY <1>1, <1>2, <1>3 DEF SentUpTo, g

-----------------------------------------------------------------------------
(* One packet. *)

\* A packet that is refused discards the unit.
LEMMA DiscardKeeps ==
  ASSUME NEW n, NEW s, Good(n, s)
  PROVE  Good(Discard(n), s) /\ NoneHanded(n, Discard(n))
<1> DEFINE m == Discard(n)
<1>1. /\ n \in Receivers /\ n.unit.active \in BOOLEAN /\ n.torn \in BOOLEAN /\ n.asked \in BOOLEAN
      /\ n.valid \in BOOLEAN
  BY DEF Good, Receivers, UnitType
<1>2. /\ m \in Receivers /\ m.unit = Empty /\ m.torn = (n.torn \/ n.unit.active)
      /\ m.asked = (n.asked \/ n.unit.active)
      /\ m.expected = n.expected /\ m.valid = n.valid /\ m.slot = n.slot /\ m.lease = n.lease
      /\ m.last = n.last
  <2> DEFINE r == ResetReassembly(n)
  <2>1. /\ r \in Receivers /\ r.unit = Empty /\ r.torn = n.torn /\ r.asked = n.asked
        /\ r.expected = n.expected /\ r.valid = n.valid /\ r.slot = n.slot /\ r.lease = n.lease
        /\ r.last = n.last
    BY <1>1, EmptyFields DEF ResetReassembly, Receivers
  <2> DEFINE v == [r EXCEPT !.torn = r.torn \/ n.unit.active]
  <2>2. m = [v EXCEPT !.asked = v.asked \/ n.unit.active]
    BY <2>1 DEF Discard, Receivers
  <2> HIDE DEF r, m
  <2> QED
    BY <1>1, <2>1, <2>2 DEF Receivers
<1> HIDE DEF m
<1>3. ~m.unit.active
  BY <1>2, EmptyFields
<1>4. ASSUME NEW i \in Index, UnitIsOpen(n, i), UnitIsGathered(n, s, i), IsFollowed(n, i)
      PROVE  UnitIsOpen(m, i) /\ UnitIsGathered(m, s, i) /\ IsFollowed(m, i)
  BY <1>1, <1>2, <1>3, <1>4 DEF UnitIsOpen, UnitIsGathered, IsFollowed
<1>5. ReceiverInv(m, s)
  <2>1. ReceiverInv(n, s)
    BY DEF Good
  <2> QED
    BY <1>1, <1>2, <1>3, <1>4, <2>1 DEF ReceiverInv
<1> QED
  BY <1>2, <1>5, EmptyFields, Sizes DEF m, Good, SlotsRight, NoneHanded

\* The unit of the packet is the one in reassembly.
Begun(n, p, gap, m) ==
    /\ m \in Receivers /\ m.unit.active /\ m.unit.time = p.unit
    /\ m.expected = n.expected /\ m.valid = n.valid /\ m.slot = n.slot /\ m.lease = n.lease
    /\ m.last = n.last /\ m.asked = n.asked /\ m.torn = n.torn
    /\ n.unit.active /\ n.unit.time = p.unit =>
          /\ m.unit.damaged <=> n.unit.damaged \/ gap
          /\ m.unit.got = n.unit.got /\ m.synced = n.synced
    /\ ~(n.unit.active /\ n.unit.time = p.unit) =>
          /\ m.unit.damaged <=> gap
          /\ m.unit.got = <<>> /\ m.synced = n.valid

\* The unit of the packet is joined or begun.
LEMMA BeginEffect ==
  ASSUME NEW n \in Receivers, NEW p \in Packets, NEW gap \in BOOLEAN
  PROVE  Begun(n, p, gap, Begin(n, p, gap))
<1>1. n.unit \in UnitType /\ n.valid \in BOOLEAN
  BY DEF Receivers
<1>2. CASE n.unit.active /\ n.unit.time = p.unit
  <2> DEFINE u == [n.unit EXCEPT !.damaged = n.unit.damaged \/ gap]
  <2>1. /\ u \in UnitType /\ u.active /\ u.time = p.unit /\ u.got = n.unit.got
        /\ u.damaged <=> n.unit.damaged \/ gap
    BY <1>1, <1>2 DEF UnitType
  <2>2. Begin(n, p, gap) = [n EXCEPT !.unit = u]
    BY <1>2 DEF Begin
  <2> HIDE DEF u
  <2> QED
    BY <1>2, <2>1, <2>2 DEF Begun, Receivers
<1>3. CASE ~(n.unit.active /\ n.unit.time = p.unit)
  <2> DEFINE e == [Empty EXCEPT !.active = TRUE, !.time = p.unit, !.damaged = gap]
             v == [n EXCEPT !.unit = e]
  <2>1. e \in UnitType /\ e.active /\ e.time = p.unit /\ e.got = <<>> /\ (e.damaged <=> gap)
    <3>1. p.unit \in 0..Units
      BY DEF Packets
    <3> QED
      BY <3>1, EmptyFields DEF UnitType
  <2>2. Begin(n, p, gap) = [v EXCEPT !.synced = n.valid]
    BY <1>3 DEF Begin
  <2> HIDE DEF e
  <2> QED
    BY <1>1, <1>3, <2>1, <2>2 DEF Begun, Receivers
<1> QED
  BY <1>2, <1>3

\* An undamaged unit has the packet added, a damaged one holds nothing.
WithPacket(n, x, m) ==
    /\ m \in Receivers /\ m.unit.active = n.unit.active /\ m.unit.time = n.unit.time
    /\ m.expected = n.expected /\ m.valid = n.valid /\ m.slot = n.slot /\ m.lease = n.lease
    /\ m.last = n.last /\ m.asked = n.asked /\ m.torn = n.torn /\ m.synced = n.synced
    /\ n.unit.damaged => m.unit.damaged
    /\ ~m.unit.damaged => m.unit.got = Append(n.unit.got, x)
    /\ Len(m.unit.got) <= MaxPackets

\* A packet is added within the room that there is.
LEMMA StoreEffect ==
  ASSUME NEW n \in Receivers, NEW p \in Packets, NEW x \in Ssrcs \X Index,
         Len(n.unit.got) <= MaxPackets
  PROVE  WithPacket(n, x, Store(n, p, x))
<1> DEFINE d == \/ n.unit.damaged
                \/ n.unit.fu /\ p.kind \in {"nal", "start"}
                \/ Len(n.unit.got) = MaxPackets
           f == (p.kind = "start") \/ (n.unit.fu /\ p.kind # "end")
           g == IF d THEN <<>> ELSE Append(n.unit.got, x)
           u == [n.unit EXCEPT !.damaged = d, !.fu = f, !.got = g]
<1>1. n.unit \in UnitType /\ n.unit.got \in Gathered /\ n.unit.fu \in BOOLEAN
      /\ n.unit.damaged \in BOOLEAN
  BY DEF Receivers, UnitType
<1>2. d \in BOOLEAN /\ f \in BOOLEAN /\ (n.unit.damaged => d)
  BY <1>1
<1>3. g \in Gathered /\ Len(g) <= MaxPackets /\ (~d => g = Append(n.unit.got, x))
  <2>1. CASE d
    <3>1. g = <<>>
      BY <2>1
    <3> HIDE DEF d, g
    <3> QED
      BY <2>1, <3>1, Sizes DEF Gathered
  <2>2. CASE ~d
    <3>1. Append(n.unit.got, x) \in Gathered /\ Len(Append(n.unit.got, x)) = Len(n.unit.got) + 1
      BY <1>1 DEF Gathered
    <3>2. Len(n.unit.got) \in Nat /\ Len(n.unit.got) # MaxPackets
      BY <1>1, <2>2 DEF Gathered
    <3>3. g = Append(n.unit.got, x)
      BY <2>2
    <3> HIDE DEF d, g
    <3>4. Len(Append(n.unit.got, x)) <= MaxPackets
      BY <3>1, <3>2, Sizes
    <3> QED
      BY <2>2, <3>1, <3>3, <3>4
  <2> QED
    BY <2>1, <2>2
<1>4. Store(n, p, x) = [n EXCEPT !.unit = u]
  BY DEF Store
<1> HIDE DEF d, f, g
<1>5. /\ u \in UnitType /\ u.active = n.unit.active /\ u.time = n.unit.time
      /\ u.damaged = d /\ u.got = g
  BY <1>1, <1>2, <1>3 DEF UnitType
<1> HIDE DEF u
<1>6. LET m == [n EXCEPT !.unit = u] IN
      /\ m \in Receivers /\ m.unit = u
      /\ m.expected = n.expected /\ m.valid = n.valid /\ m.slot = n.slot /\ m.lease = n.lease
      /\ m.last = n.last /\ m.asked = n.asked /\ m.torn = n.torn /\ m.synced = n.synced
  BY <1>5 DEF Receivers
<1> QED
  BY <1>2, <1>3, <1>4, <1>5, <1>6 DEF WithPacket

\* Where a packet's number is the expected one, it is the next packet.
LEMMA InSequence ==
  ASSUME NEW n, NEW i \in Index, NEW j \in Index, n.expected = After(i), Number(j) = n.expected
  PROVE  j = i + 1
  BY NextPacket

\* A packet of the same source leaves a unit of one source.
LEMMA AppendFrom ==
  ASSUME NEW got \in Gathered, NEW s \in Ssrcs, NEW i \in Index,
         \A k \in DOMAIN got : got[k][1] = s
  PROVE  LET g == Append(got, <<s, i>>)
         IN  g # <<>> /\ \A k \in DOMAIN g : g[k][1] = s
<1> DEFINE g == Append(got, <<s, i>>)
<1>1. /\ Len(got) \in Nat /\ DOMAIN got = 1..Len(got) /\ DOMAIN g = 1..(Len(got) + 1)
      /\ g[Len(got) + 1] = <<s, i>> /\ \A k \in 1..Len(got) : g[k] = got[k]
  BY DEF Gathered
<1>2. g # <<>>
  <2>1. Len(g) = Len(got) + 1
    BY DEF Gathered
  <2>2. Len(g) # 0
    BY <1>1, <2>1
  <2> QED
    BY <2>2
<1> HIDE DEF g
<1>3. \A k \in DOMAIN g : g[k][1] = s
  <2> SUFFICES ASSUME NEW k \in DOMAIN g
               PROVE  g[k][1] = s
    OBVIOUS
  <2>1. k = Len(got) + 1 \/ k \in 1..Len(got)
    BY <1>1
  <2> QED
    BY <1>1, <2>1
<1> QED
  BY <1>2, <1>3 DEF g

\* What a media packet leaves: a unit in reassembly, all of it if it is whole.
Taken(n, m, s, i) ==
    /\ m \in Receivers /\ Len(m.unit.got) <= MaxPackets /\ SlotsRight(m)
    /\ m.expected = n.expected /\ m.valid = n.valid /\ m.slot = n.slot /\ m.lease = n.lease
    /\ m.last = n.last /\ m.asked = n.asked /\ m.torn = n.torn
    /\ m.unit.active /\ m.unit.time = Stream[i].unit
    /\ UnitIsGathered(m, s, i)
    /\ m.asked \/ m.unit.damaged \/ m.unit.time = m.last.unit + 1

\* Storing a packet leaves a unit that is damaged, or holds all that was sent
\* up to this packet and is the one after the last handed over: in sequence the
\* packet is the next of the stream (InSequence), so of the open unit or, at a
\* border, of the unit that follows.
LEMMA StoredTakes ==
  ASSUME NEW n, NEW s \in Ssrcs, NEW i \in Index, Good(n, s), Stream[i].unit # 0
  PROVE  Taken(n, Stored(n, i, s), s, i)
<1> DEFINE p == Stream[i]
           gap == n.valid /\ Number(i) # n.expected
           x == <<s, i>>
           b == Begin(n, p, gap)
           m == Store(b, p, x)
<1>1. /\ n \in Receivers /\ n.valid \in BOOLEAN /\ n.torn \in BOOLEAN /\ n.asked \in BOOLEAN
      /\ n.unit \in UnitType /\ n.unit.got \in Gathered /\ Len(n.unit.got) <= MaxPackets
      /\ n.unit.active \in BOOLEAN /\ n.unit.damaged \in BOOLEAN /\ SlotsRight(n)
      /\ ReceiverInv(n, s) /\ n.last.unit \in 0..Units
  BY DEF Good, Receivers, UnitType, LastType
<1>2. /\ p \in Packets /\ gap \in BOOLEAN /\ x \in Ssrcs \X Index
      /\ p = Stream[i] /\ (gap <=> n.valid /\ Number(i) # n.expected) /\ x = <<s, i>>
  BY <1>1, StreamFacts
<1>3. Stored(n, i, s) = m
  BY DEF Stored
<1> HIDE DEF p, gap, x
<1> DEFINE joins == n.unit.active /\ n.unit.time = p.unit
<1>4. Begun(n, p, gap, b)
  BY <1>1, <1>2, BeginEffect
<1> HIDE DEF b
<1>5. Len(b.unit.got) <= MaxPackets
  <2>1. CASE joins
    BY <1>1, <1>4, <2>1 DEF Begun
  <2>2. CASE ~joins
    BY <1>4, <2>2, Sizes DEF Begun
  <2> QED
    BY <2>1, <2>2
<1>6. WithPacket(b, x, m)
  <2>1. b \in Receivers
    BY <1>4 DEF Begun
  <2> QED
    BY <1>2, <1>5, <2>1, StoreEffect
<1> HIDE DEF m
<1>7. SlotsRight(m)
  BY <1>1, <1>4, <1>6 DEF SlotsRight, Begun, WithPacket
<1> DEFINE First == Append(<<>>, <<s, i>>)
<1>8. CASE m.unit.damaged
  BY <1>2, <1>3, <1>4, <1>6, <1>7, <1>8 DEF Taken, UnitIsGathered, Begun, WithPacket
<1>9. CASE ~m.unit.damaged /\ ~n.valid
  <2>1. ~joins /\ n.asked
    BY <1>1, <1>9 DEF ReceiverInv
  <2>2. m.unit.got = First /\ ~m.synced
    BY <1>2, <1>4, <1>6, <1>9, <2>1 DEF Begun, WithPacket
  <2>3. First # <<>> /\ \A k \in DOMAIN First : First[k][1] = s
    OBVIOUS
  <2> HIDE DEF First
  <2>4. UnitIsGathered(m, s, i)
    BY <2>2, <2>3 DEF UnitIsGathered
  <2> QED
    BY <1>2, <1>3, <1>4, <1>6, <1>7, <2>1, <2>4 DEF Taken, Begun, WithPacket
<1>10. CASE ~m.unit.damaged /\ n.valid
  <2>1. ~b.unit.damaged
    BY <1>4, <1>6, <1>10 DEF Begun, WithPacket
  <2>2. ~gap
    BY <1>1, <1>4, <2>1 DEF Begun
  <2>3. PICK h \in Index : /\ n.expected = After(h)
                           /\ UnitIsOpen(n, h) /\ UnitIsGathered(n, s, h) /\ IsFollowed(n, h)
    BY <1>1, <1>10 DEF ReceiverInv
  <2>4. i = h + 1 /\ h \in Nat
    BY <1>2, <1>10, <2>2, <2>3, InSequence, StreamFacts
  <2>5. CASE joins
    <3>1. /\ n.unit.active /\ ~n.unit.damaged /\ n.unit.time = p.unit
          /\ b.unit.got = n.unit.got /\ b.synced = n.synced
      BY <1>4, <2>1, <2>5 DEF Begun
    <3>2. /\ m.unit.got = Append(n.unit.got, <<s, i>>) /\ m.synced = n.synced
      BY <1>2, <1>4, <1>6, <1>10, <3>1 DEF Begun, WithPacket
    <3>3. \A k \in DOMAIN n.unit.got : n.unit.got[k][1] = s
      BY <2>3, <3>1 DEF UnitIsGathered
    <3>4. m.unit.got # <<>> /\ \A k \in DOMAIN m.unit.got : m.unit.got[k][1] = s
      BY <1>1, <3>2, <3>3, AppendFrom
    <3>5. m.synced /\ ~m.torn => SentUpTo(m.unit.got, s, p.unit, i)
      <4> SUFFICES ASSUME m.synced, ~m.torn
                   PROVE  SentUpTo(m.unit.got, s, p.unit, i)
        OBVIOUS
      <4>1. SentUpTo(n.unit.got, s, p.unit, h)
        BY <1>4, <1>6, <2>3, <3>1, <3>2 DEF UnitIsGathered, Begun, WithPacket
      <4> QED
        BY <1>1, <1>2, <2>4, <3>1, <3>2, <4>1, SentOneMore
    <3>6. n.asked \/ n.unit.time = n.last.unit + 1
      BY <2>3, <3>1 DEF IsFollowed
    <3> QED
      BY <1>2, <1>3, <1>4, <1>6, <1>7, <3>1, <3>4, <3>5, <3>6
        DEF Taken, UnitIsGathered, Begun, WithPacket
  <2>6. CASE ~joins
    <3>1. ~n.unit.active
      BY <1>1, <1>2, <2>3, <2>4, <2>6, StaysInUnit
    <3>2. m.unit.got = First /\ b.unit.got = <<>>
      BY <1>2, <1>4, <1>6, <1>10, <2>6 DEF Begun, WithPacket
    <3>3. First # <<>> /\ \A k \in DOMAIN First : First[k][1] = s
      OBVIOUS
    <3>4. ~n.torn => Border(h)
      BY <2>3, <3>1 DEF UnitIsOpen
    <3>5. ~m.torn => SentUpTo(m.unit.got, s, p.unit, i)
      <4> SUFFICES ASSUME ~m.torn
                   PROVE  SentUpTo(m.unit.got, s, p.unit, i)
        OBVIOUS
      <4>1. Border(h)
        BY <1>4, <1>6, <3>4 DEF Begun, WithPacket
      <4>2. \A j \in Index : j < i => Stream[j].unit # Stream[i].unit
        BY <2>4, <4>1, StreamFacts DEF Border
      <4> QED
        BY <1>2, <3>2, <4>2, SentFirst
    <3>6. n.asked \/ p.unit = n.last.unit + 1
      <4> SUFFICES ASSUME ~n.asked
                   PROVE  p.unit = n.last.unit + 1
        OBVIOUS
      <4>1. ~n.torn
        BY <1>1 DEF ReceiverInv
      <4>2. /\ n.last.unit # 0
            /\ \A k \in Index : k <= h => Stream[k].unit <= n.last.unit
            /\ \E k \in Index : k <= h /\ Stream[k].unit = n.last.unit
        BY <2>3, <3>1 DEF IsFollowed
      <4>3. n.last.unit \in 1..Units
        BY <1>1, <4>2, Sizes
      <4> QED
        BY <1>2, <2>4, <3>4, <4>1, <4>2, <4>3, NextUnit
    <3> HIDE DEF First
    <3> QED
      BY <1>2, <1>3, <1>4, <1>6, <1>7, <3>2, <3>3, <3>5, <3>6
        DEF Taken, UnitIsGathered, Begun, WithPacket
  <2> QED
    BY <2>5, <2>6
<1> QED
  BY <1>1, <1>8, <1>9, <1>10

\* A packet that does not end its unit is counted.
LEMMA PartKeeps ==
  ASSUME NEW n, NEW m, NEW s \in Ssrcs, NEW i \in Index, Good(n, s), Taken(n, m, s, i),
         Stream[i].unit # 0, ~Stream[i].marker
  PROVE  Good(Advance(m, i), s) /\ NoneHanded(n, Advance(m, i))
<1> DEFINE r == Advance(m, i)
<1>1. /\ n \in Receivers /\ m \in Receivers /\ ReceiverInv(n, s)
      /\ m.last = n.last /\ m.asked = n.asked /\ m.torn = n.torn /\ m.lease = n.lease
      /\ m.unit.active /\ m.unit.time = Stream[i].unit /\ UnitIsGathered(m, s, i)
      /\ m.asked \/ m.unit.damaged \/ m.unit.time = m.last.unit + 1
      /\ Len(m.unit.got) <= MaxPackets /\ SlotsRight(m)
  BY DEF Good, Taken
<1>2. /\ r \in Receivers /\ r.expected = After(i) /\ r.valid
      /\ r.unit = m.unit /\ r.slot = m.slot /\ r.lease = m.lease /\ r.torn = m.torn
      /\ r.synced = m.synced /\ r.last = m.last /\ r.asked = m.asked
  BY <1>1, NumberType DEF Advance, Receivers
<1> HIDE DEF r
<1>3. \E j \in Index : i < j /\ Stream[j].unit = Stream[i].unit
  BY StreamAssumption, StreamFacts
<1>4. i <= i /\ s # 0
  BY StreamFacts DEF Ssrcs
<1>5. UnitIsOpen(r, i)
  BY <1>1, <1>2, <1>3, <1>4 DEF UnitIsOpen
<1>6. UnitIsGathered(r, s, i)
  BY <1>1, <1>2 DEF UnitIsGathered
<1>7. IsFollowed(r, i)
  BY <1>1, <1>2 DEF IsFollowed
<1>8. ReceiverInv(r, s)
  BY <1>1, <1>2, <1>4, <1>5, <1>6, <1>7 DEF ReceiverInv
<1> QED
  BY <1>1, <1>2, <1>8 DEF r, Good, SlotsRight, NoneHanded

\* What is left of a receiver when the unit that packet i ends is over.
Over(r, s, i) ==
    /\ r \in Receivers /\ SlotsRight(r) /\ r.unit = Empty /\ ~r.torn
    /\ r.last.unit # 0 /\ r.last.synced /\ ~r.last.torn => Whole(r.last)
    /\ r.asked \/ (Pli /\ r.last.unit = Stream[i].unit /\ r.last.ssrc = s)

\* After the packet that ends a unit the stream stands at a border.
LEMMA OverKeeps ==
  ASSUME NEW r, NEW s \in Ssrcs, NEW i \in Index, Over(r, s, i), Stream[i].marker
  PROVE  Good(Advance(r, i), s)
<1> DEFINE q == Advance(r, i)
<1>1. r \in Receivers /\ SlotsRight(r)
  BY DEF Over
<1>2. /\ q \in Receivers /\ q.expected = After(i) /\ q.valid
      /\ q.unit = r.unit /\ q.slot = r.slot /\ q.lease = r.lease /\ q.torn = r.torn
      /\ q.last = r.last /\ q.asked = r.asked
  BY <1>1, NumberType DEF Advance, Receivers
<1> HIDE DEF q
<1>3. q.unit.active = FALSE /\ Len(q.unit.got) = 0
  BY <1>2, EmptyFields DEF Over
<1>4. i <= i /\ s # 0
  BY StreamFacts DEF Ssrcs
<1>5. UnitIsOpen(q, i) /\ UnitIsGathered(q, s, i)
  BY <1>3, MarkerIsBorder DEF UnitIsOpen, UnitIsGathered
<1>6. IsFollowed(q, i)
  BY <1>2, <1>3, <1>4, MarkerIsBorder DEF IsFollowed, Over
<1>7. ReceiverInv(q, s)
  BY <1>2, <1>3, <1>4, <1>5, <1>6 DEF ReceiverInv, Over
<1> QED
  BY <1>1, <1>2, <1>3, <1>7, Sizes DEF q, Good, SlotsRight

\* A slot may be acquired after the unit is over.
LEMMA OverAcquires ==
  ASSUME NEW r, NEW s, NEW i, Over(r, s, i)
  PROVE  Over(Acquire(r), s, i) /\ NoneHanded(r, Acquire(r))
<1>1. r \in Receivers /\ SlotsRight(r)
  BY DEF Over
<1> DEFINE a == Acquire(r)
<1>2. /\ a \in Receivers /\ SlotsRight(a) /\ NoneHanded(r, a) /\ a.unit = r.unit
      /\ a.last = r.last /\ a.asked = r.asked /\ a.torn = r.torn
  BY <1>1, AcquireEffect
<1> HIDE DEF a
<1> QED
  BY <1>2 DEF Over, a

\* A drop asks for a key frame, as one may be asked for and an SSRC is latched
\* whenever none is due.
LEMMA DropEffect ==
  ASSUME NEW n \in Receivers, n.asked \/ (Pli /\ peer.ssrc # 0)
  PROVE  LET r == Drop(n) IN
         /\ r \in Receivers /\ r.unit = Empty /\ ~r.torn /\ r.asked
         /\ r.expected = n.expected /\ r.valid = n.valid /\ r.slot = n.slot /\ r.lease = n.lease
         /\ r.last = n.last
<1> DEFINE v == UnitOver(n)
<1>1. /\ v \in Receivers /\ v.unit = Empty /\ ~v.torn /\ v.asked = n.asked
      /\ v.expected = n.expected /\ v.valid = n.valid /\ v.slot = n.slot /\ v.lease = n.lease
      /\ v.last = n.last
  BY ResetEffect
<1>2. Drop(n) = [v EXCEPT !.asked = v.asked \/ (Pli /\ peer.ssrc # 0)]
  BY <1>1 DEF Drop, Ask, Receivers
<1> HIDE DEF v
<1>3. (v.asked \/ (Pli /\ peer.ssrc # 0)) = TRUE
  BY <1>1
<1> QED
  BY <1>1, <1>2, <1>3 DEF Receivers

\* The slot of a unit that the sink refuses is free again.
LEMMA RefusedUnitEffect ==
  ASSUME NEW n \in Receivers, SlotsRight(n), n.slot # 0
  PROVE  LET r == RefusedUnit(n) IN
         /\ r \in Receivers /\ SlotsRight(r) /\ NoneHanded(n, r)
         /\ r.last = n.last /\ r.asked = n.asked
<1> DEFINE l == [n.lease EXCEPT ![n.slot] = "free"]
           v == [n EXCEPT !.lease = l]
           r == [v EXCEPT !.slot = 0]
<1>1. n.lease \in Leases /\ n.slot \in 1..Slots
  BY Sizes DEF Receivers
<1>2. /\ l \in Leases /\ l[n.slot] = "free"
      /\ \A t \in 1..Slots : t # n.slot => l[t] = n.lease[t]
  BY <1>1 DEF Leases
<1>3. RefusedUnit(n) = r
  BY DEF RefusedUnit
<1> HIDE DEF l
<1>4. /\ r \in Receivers /\ r.lease = l /\ r.slot = 0 /\ r.last = n.last /\ r.asked = n.asked
  <2>1. 0 \in 0..Slots
    BY Sizes
  <2> QED
    BY <1>2, <2>1 DEF Receivers
<1> HIDE DEF r
<1>5. SlotsRight(r)
  BY <1>1, <1>2, <1>4, Sizes DEF SlotsRight
<1>6. NoneHanded(n, r)
  BY <1>2, <1>4 DEF NoneHanded
<1> QED
  BY <1>3, <1>4, <1>5, <1>6

\* The sink takes the unit: it is whole if it began in sequence, and it
\* follows the last one unless a key frame was due.
LEMMA HandEffect ==
  ASSUME NEW n, NEW m, NEW s \in Ssrcs, NEW i \in Index, Taken(n, m, s, i), m.slot # 0,
         ~m.unit.damaged, Stream[i].marker
  PROVE  LET r == UnitOver(Hand(m)) IN
         /\ Over(r, s, i)
         /\ r.last.unit = m.unit.time /\ r.last.ssrc = s
<1> DEFINE l == [m.lease EXCEPT ![m.slot] = "sink"]
           w == [unit |-> m.unit.time, ssrc |-> m.unit.got[1][1], got |-> m.unit.got,
                 synced |-> m.synced, torn |-> m.torn]
           h == [m EXCEPT !.lease = l, !.slot = 0, !.last = w, !.asked = ~Pli]
           r == UnitOver(h)
<1>1. /\ m \in Receivers /\ SlotsRight(m) /\ m.unit.active /\ m.unit.time = Stream[i].unit
      /\ UnitIsGathered(m, s, i)
  BY DEF Taken
<1>2. /\ m.lease \in Leases /\ m.slot \in 1..Slots /\ m.unit \in UnitType
      /\ m.synced \in BOOLEAN /\ m.torn \in BOOLEAN
  BY <1>1, Sizes DEF Receivers
<1>3. m.unit.got \in Gathered /\ m.unit.time \in 0..Units
  BY <1>2 DEF UnitType
<1>4. m.unit.got[1][1] = s
  <2>1. m.unit.got # <<>> /\ \A k \in DOMAIN m.unit.got : m.unit.got[k][1] = s
    BY <1>1 DEF UnitIsGathered
  <2>2. 1 \in DOMAIN m.unit.got
    BY <1>3, <2>1 DEF Gathered
  <2> QED
    BY <2>1, <2>2
<1>5. /\ l \in Leases /\ l[m.slot] = "sink"
      /\ \A t \in 1..Slots : t # m.slot => l[t] = m.lease[t]
  BY <1>2 DEF Leases
<1>6. /\ w \in LastType /\ w.unit = m.unit.time /\ w.ssrc = s /\ w.got = m.unit.got
      /\ w.synced = m.synced /\ w.torn = m.torn
  BY <1>2, <1>3, <1>4 DEF LastType
<1>7. Hand(m) = h
  BY DEF Hand
<1> HIDE DEF l, w
<1>8. /\ h \in Receivers /\ h.lease = l /\ h.slot = 0 /\ h.last = w /\ h.asked = ~Pli
  <2>1. 0 \in 0..Slots
    BY Sizes
  <2> QED
    BY <1>1, <1>5, <1>6, <2>1, ReassemblyAssumption DEF Receivers
<1> HIDE DEF h
<1>9. /\ r \in Receivers /\ r.unit = Empty /\ ~r.torn /\ r.lease = l /\ r.slot = 0 /\ r.last = w
      /\ r.asked = ~Pli
  BY <1>8, ResetEffect
<1> HIDE DEF r
<1>10. SlotsRight(r)
  BY <1>1, <1>2, <1>5, <1>9, Sizes DEF SlotsRight
<1>11. ASSUME w.synced, ~w.torn
       PROVE  Whole(w)
  <2>1. SentUpTo(w.got, s, w.unit, i)
    BY <1>1, <1>6, <1>11 DEF UnitIsGathered
  <2>2. \A k \in DOMAIN w.got : w.got[k][2] \in Index
    BY <1>3, <1>6 DEF Gathered
  <2>3. \A j \in Index : Stream[j].unit = w.unit => j <= i
    BY <1>1, <1>6, MarkerIsBorder
  <2>4. \A j \in Index : j <= Len(Stream)
    BY StreamFacts
  <2> QED
    BY <1>6, <2>1, <2>2, <2>3, <2>4 DEF Whole, SentUpTo
<1>12. Over(r, s, i)
  BY <1>1, <1>6, <1>9, <1>10, <1>11, ReassemblyAssumption DEF Over
<1> QED
  BY <1>6, <1>7, <1>9, <1>12 DEF r

-----------------------------------------------------------------------------
(* The actions. *)

\* The variables are a receiver that keeps the invariant.
LEMMA NowIsGood ==
  ASSUME ReassemblyInv
  PROVE  /\ Good(Now, peer.ssrc) /\ peer.ssrc \in {0} \cup Ssrcs
         /\ Now.expected = expected /\ Now.valid = valid /\ Now.unit = unit /\ Now.slot = slot
         /\ Now.lease = lease /\ Now.torn = torn /\ Now.synced = synced /\ Now.last = last
         /\ Now.asked = asked
<1>1. /\ TypeOK /\ OneSlotFilling /\ ReceiverInv(Now, peer.ssrc)
  BY DEF ReassemblyInv
<1>2. Now \in Receivers
  BY <1>1 DEF TypeOK, Now, Receivers, UnitType, LastType, Leases
<1>3. /\ Now.expected = expected /\ Now.valid = valid /\ Now.unit = unit /\ Now.slot = slot
      /\ Now.lease = lease /\ Now.torn = torn /\ Now.synced = synced /\ Now.last = last
      /\ Now.asked = asked
  BY DEF Now
<1>4. Len(Now.unit.got) <= MaxPackets /\ SlotsRight(Now)
  BY <1>1, <1>3 DEF TypeOK, OneSlotFilling, SlotsRight
<1>5. peer.ssrc \in {0} \cup Ssrcs
  BY <1>1 DEF TypeOK
<1> QED
  BY <1>1, <1>2, <1>3, <1>4, <1>5 DEF Good

\* A step to a receiver that keeps the invariant keeps it.
LEMMA BecomesKeeps ==
  ASSUME NEW n, Becomes(n), NEW s, Good(n, s), s = peer'.ssrc,
         peer' \in [ssrc : {0} \cup Ssrcs, port : {0} \cup Ports],
         enabled' \in BOOLEAN, resetAsked' \in BOOLEAN
  PROVE  ReassemblyInv'
<1>1. n \in Receivers /\ Len(n.unit.got) <= MaxPackets /\ SlotsRight(n) /\ ReceiverInv(n, s)
  BY DEF Good
<1>2. /\ expected' = n.expected /\ valid' = n.valid /\ unit' = n.unit /\ torn' = n.torn
      /\ synced' = n.synced /\ slot' = n.slot /\ lease' = n.lease /\ last' = n.last
      /\ asked' = n.asked
  BY DEF Becomes
<1>3. n = [expected |-> n.expected, valid |-> n.valid, unit |-> n.unit, slot |-> n.slot,
           lease |-> n.lease, torn |-> n.torn, synced |-> n.synced, last |-> n.last,
           asked |-> n.asked]
  BY <1>1 DEF Receivers
<1>4. Now' = n
  BY <1>2, <1>3 DEF Now
<1>5. TypeOK'
  BY <1>1, <1>2 DEF TypeOK, Receivers, UnitType, LastType, Leases
<1>6. OneSlotFilling'
  BY <1>1, <1>2, <1>5 DEF OneSlotFilling, SlotsRight
<1>7. ReceiverInv(Now, peer.ssrc)'
  BY <1>1, <1>4 DEF ReceiverInv, UnitIsOpen, UnitIsGathered, IsFollowed
<1> QED
  BY <1>5, <1>6, <1>7 DEF ReassemblyInv

\* What a packet of source s finds: the receiver started over if s is new.
LEMMA RestartedIsGood ==
  ASSUME ReassemblyInv, NEW s \in Ssrcs
  PROVE  LET n == Restarted(s) IN
         /\ Good(n, s) /\ Good(n, peer.ssrc) /\ NoneHanded(Now, n)
         /\ n.asked \/ (Pli /\ peer.ssrc # 0)
         /\ n.asked \/ (n = Now /\ peer.ssrc = s /\ n.last = last)
<1> DEFINE n == Restarted(s)
<1>1. Good(Now, peer.ssrc) /\ Now \in Receivers
  BY NowIsGood DEF Good
<1>2. CASE SourceChanged(s)
  <2>1. n = Resynchronise(Now)
    BY <1>2 DEF Restarted
  <2>2. n.asked = TRUE
    <3>1. UnitOver(Now) \in Receivers
      BY <1>1, ResetEffect
    <3> QED
      BY <2>1, <3>1 DEF Resynchronise, Receivers
  <2> QED
    BY <1>1, <2>1, <2>2, ResyncKeeps
<1>3. CASE ~SourceChanged(s)
  <2>1. n = Now
    BY <1>3 DEF Restarted
  <2>2. peer.ssrc = 0 \/ peer.ssrc = s
    BY <1>3 DEF SourceChanged
  <2>3. ReceiverInv(Now, peer.ssrc) /\ Now.asked \in BOOLEAN /\ Now.valid \in BOOLEAN
        /\ Now.unit.active \in BOOLEAN
    BY <1>1 DEF Good, Receivers, UnitType
  <2>4. CASE peer.ssrc = 0
    <3>1. ~Now.valid /\ Now.asked
      BY <2>3, <2>4 DEF ReceiverInv
    <3>2. ReceiverInv(Now, s)
      BY <2>3, <3>1 DEF ReceiverInv
    <3> QED
      BY <1>1, <2>1, <3>1, <3>2 DEF Good, NoneHanded
  <2>5. CASE peer.ssrc = s
    <3>1. s # 0 /\ (Now.asked \/ Pli)
      BY <2>3 DEF Ssrcs, ReceiverInv
    <3> QED
      BY <1>1, <2>1, <2>5, <3>1, NowIsGood DEF NoneHanded
  <2> QED
    BY <2>2, <2>4, <2>5
<1> QED
  BY <1>2, <1>3

\* Acquiring a slot keeps the invariant.
LEMMA AcquireKeeps ==
  ASSUME NEW n, NEW s, Good(n, s)
  PROVE  Good(Acquire(n), s)
<1> DEFINE m == Acquire(n)
<1>1. /\ n \in Receivers /\ SlotsRight(n) /\ Len(n.unit.got) <= MaxPackets /\ ReceiverInv(n, s)
  BY DEF Good
<1>2. /\ m \in Receivers /\ SlotsRight(m) /\ m.unit = n.unit /\ m.expected = n.expected
      /\ m.valid = n.valid /\ m.synced = n.synced /\ m.last = n.last /\ m.asked = n.asked
      /\ m.torn = n.torn
  BY <1>1, AcquireEffect
<1> HIDE DEF m
<1>3. ReceiverInv(m, s)
  BY <1>1, <1>2 DEF ReceiverInv, UnitIsOpen, UnitIsGathered, IsFollowed
<1> QED
  BY <1>1, <1>2, <1>3 DEF Good, m

\* Nothing is handed over by steps that hand nothing over.
LEMMA NoneHandedOn ==
  ASSUME NEW a, NEW b, NEW c, NoneHanded(a, b), NoneHanded(b, c)
  PROVE  NoneHanded(a, c)
  BY DEF NoneHanded

\* Handing a unit over is what the step property is about.
Follows == HandsOver /\ ~asked /\ last'.ssrc = last.ssrc => last'.unit = last.unit + 1

\* A step that hands nothing over satisfies the step property.
LEMMA NothingFollows ==
  ASSUME NEW n, Becomes(n), NoneHanded(Now, n)
  PROVE  Follows
<1>1. lease' = n.lease /\ Now.lease = lease
  BY DEF Becomes, Now
<1> QED
  BY <1>1 DEF NoneHanded, Follows, HandsOver

\* A packet that is not media, or not for this receiver.
LEMMA QuietKeeps ==
  ASSUME ReassemblyInv, NEW n, Becomes(n), Good(n, peer.ssrc), NoneHanded(Now, n),
         peer' = peer, enabled' \in BOOLEAN, resetAsked' \in BOOLEAN
  PROVE  ReassemblyInv' /\ Follows
<1>1. peer' \in [ssrc : {0} \cup Ssrcs, port : {0} \cup Ports] /\ peer'.ssrc = peer.ssrc
  BY DEF ReassemblyInv, TypeOK
<1> QED
  BY <1>1, BecomesKeeps, NothingFollows

\* The variables beside the receiver's own have their types.
LEMMA Flags ==
  ASSUME ReassemblyInv
  PROVE  enabled \in BOOLEAN /\ resetAsked \in BOOLEAN
         /\ peer \in [ssrc : {0} \cup Ssrcs, port : {0} \cup Ports]
  BY DEF ReassemblyInv, TypeOK

\* A reset starts the receiver over.
LEMMA HonourResetKeeps ==
  ASSUME ReassemblyInv, HonourReset
  PROVE  ReassemblyInv' /\ Follows
<1>1. Good(Resynchronise(Now), peer.ssrc) /\ NoneHanded(Now, Resynchronise(Now))
  BY NowIsGood, ResyncKeeps
<1> QED
  BY <1>1, Flags, QuietKeeps DEF HonourReset

\* A packet that finds receiving off, or no slot.
LEMMA PacketIgnoredKeeps ==
  ASSUME ReassemblyInv, NEW s \in Ssrcs, NEW port \in Ports, PacketIgnored(s, port)
  PROVE  ReassemblyInv' /\ Follows
<1>1. Good(Restarted(s), peer.ssrc) /\ NoneHanded(Now, Restarted(s))
  BY RestartedIsGood
<1> QED
  BY <1>1, Flags, QuietKeeps DEF PacketIgnored

\* An unusable packet discards the unit.
LEMMA PacketRefusedKeeps ==
  ASSUME ReassemblyInv, NEW p, NEW s \in Ssrcs, NEW port \in Ports, PacketRefused(p, s, port)
  PROVE  ReassemblyInv' /\ Follows
<1> DEFINE n == Restarted(s)
           a == Acquire(n)
           d == Discard(a)
<1>1. Good(n, peer.ssrc) /\ NoneHanded(Now, n)
  BY RestartedIsGood
<1>2. Good(a, peer.ssrc) /\ NoneHanded(n, a)
  BY <1>1, AcquireKeeps, AcquireEffect DEF Good
<1>3. Good(d, peer.ssrc) /\ NoneHanded(a, d)
  BY <1>2, DiscardKeeps
<1>4. NoneHanded(Now, d)
  BY <1>1, <1>2, <1>3, NoneHandedOn
<1>5. Becomes(d) /\ peer' = peer /\ enabled' = enabled /\ resetAsked' = resetAsked
  BY DEF PacketRefused
<1> HIDE DEF d
<1> QED
  BY <1>3, <1>4, <1>5, Flags, QuietKeeps

\* What a packet that may be stored finds and leaves.
LEMMA UsableTakes ==
  ASSUME ReassemblyInv, NEW i \in Index, NEW s \in Ssrcs, NEW port \in Ports, Usable(i, s, port)
  PROVE  LET a == Acquire(Restarted(s))
             n == Stored(a, i, s)
         IN  /\ Good(a, s) /\ NoneHanded(Now, a) /\ Taken(a, n, s, i)
             /\ n.slot # 0 /\ (n.asked \/ (Pli /\ peer.ssrc # 0)) /\ Stream[i].unit # 0
             /\ n.asked \/ (peer.ssrc = s /\ n.last = last)
             /\ a.valid => peer.ssrc # 0
<1> DEFINE r == Restarted(s)
           a == Acquire(r)
           n == Stored(a, i, s)
<1>1. /\ Good(r, s) /\ Good(r, peer.ssrc) /\ NoneHanded(Now, r)
      /\ r.asked \/ (Pli /\ peer.ssrc # 0)
      /\ r.asked \/ (peer.ssrc = s /\ r.last = last)
  BY RestartedIsGood
<1>2. Stream[i].unit # 0 /\ a.slot # 0
  BY StreamAssumption DEF Usable, Ready
<1> HIDE DEF r
<1>3. Good(a, s) /\ Good(a, peer.ssrc)
  BY <1>1, AcquireKeeps
<1>4. NoneHanded(r, a) /\ a.asked = r.asked /\ a.last = r.last
  BY <1>1, AcquireEffect DEF Good
<1>5. NoneHanded(Now, a)
  BY <1>1, <1>4, NoneHandedOn
<1>6. a.valid => peer.ssrc # 0
  BY <1>3 DEF Good, ReceiverInv
<1> HIDE DEF a
<1>7. Taken(a, n, s, i)
  BY <1>2, <1>3, StoredTakes
<1> HIDE DEF n
<1>8. n.slot = a.slot /\ n.asked = a.asked /\ n.last = a.last
  BY <1>7 DEF Taken
<1> QED
  BY <1>1, <1>2, <1>3, <1>4, <1>5, <1>6, <1>7, <1>8 DEF r, a, n

\* A marker inside a fragmentation unit drops the unit, as it is torn.
LEMMA MarkerRefusedKeeps ==
  ASSUME ReassemblyInv, NEW i \in Index, NEW s \in Ssrcs, NEW port \in Ports,
         MarkerRefused(i, s, port)
  PROVE  ReassemblyInv' /\ Follows
<1> DEFINE a == Acquire(Restarted(s))
           n == Stored(a, i, s)
           d == Drop(n)
           q == [d EXCEPT !.torn = TRUE]
<1>1. /\ Good(a, s) /\ NoneHanded(Now, a) /\ Taken(a, n, s, i)
      /\ n.asked \/ (Pli /\ peer.ssrc # 0)
      /\ a.valid => peer.ssrc # 0
  BY UsableTakes DEF MarkerRefused
<1>2. Becomes(q) /\ peer' = peer /\ enabled' = enabled /\ resetAsked' = resetAsked
  BY DEF MarkerRefused
<1> HIDE DEF a, n
<1>3. /\ n \in Receivers /\ SlotsRight(n) /\ n.expected = a.expected /\ n.valid = a.valid
      /\ n.slot = a.slot /\ n.lease = a.lease /\ n.last = a.last
  BY <1>1 DEF Taken
<1>4. /\ d \in Receivers /\ d.unit = Empty /\ d.asked
      /\ d.expected = n.expected /\ d.valid = n.valid /\ d.slot = n.slot /\ d.lease = n.lease
      /\ d.last = n.last
  BY <1>1, <1>3, DropEffect
<1> HIDE DEF d
<1>5. /\ q \in Receivers /\ q.unit = Empty /\ q.asked /\ q.torn
      /\ q.expected = n.expected /\ q.valid = n.valid /\ q.slot = n.slot /\ q.lease = n.lease
      /\ q.last = n.last
  BY <1>4 DEF Receivers
<1> HIDE DEF q
<1>6. q.unit.active = FALSE /\ Len(q.unit.got) = 0
  BY <1>5, EmptyFields
<1>7. ReceiverInv(a, s)
  BY <1>1 DEF Good
<1>8. ASSUME q.valid
      PROVE  \E h \in Index : /\ q.expected = After(h)
                              /\ UnitIsOpen(q, h) /\ UnitIsGathered(q, peer.ssrc, h)
                              /\ IsFollowed(q, h)
  <2>1. PICK h \in Index : a.expected = After(h)
    BY <1>3, <1>5, <1>7, <1>8 DEF ReceiverInv
  <2>2. q.expected = After(h)
    BY <1>3, <1>5, <2>1
  <2> QED
    BY <1>5, <1>6, <2>2 DEF UnitIsOpen, UnitIsGathered, IsFollowed
<1>9. ReceiverInv(q, peer.ssrc)
  BY <1>1, <1>3, <1>5, <1>6, <1>7, <1>8 DEF ReceiverInv
<1>10. Good(q, peer.ssrc) /\ NoneHanded(a, q)
  BY <1>3, <1>5, <1>6, <1>9, Sizes DEF Good, SlotsRight, NoneHanded
<1> QED
  BY <1>1, <1>2, <1>10, Flags, NoneHandedOn, QuietKeeps

\* finish_access_unit_: the unit is dropped, its slot released or the unit
\* handed over, whichever way it ends.
LEMMA FinishedEnds ==
  ASSUME NEW a, NEW n, NEW s \in Ssrcs, NEW i \in Index, Good(a, s), Taken(a, n, s, i),
         n.slot # 0, n.asked \/ (Pli /\ peer.ssrc # 0), Stream[i].marker, NEW m \in Finished(n)
  PROVE  /\ Over(m, s, i)
         /\ NoneHanded(n, m) \/ (~n.unit.damaged /\ m.last.unit = n.unit.time /\ m.last.ssrc = s)
<1>1. /\ n \in Receivers /\ SlotsRight(n) /\ n.last = a.last /\ ReceiverInv(a, s)
  BY DEF Taken, Good
<1>2. n.last.unit # 0 /\ n.last.synced /\ ~n.last.torn => Whole(n.last)
  BY <1>1 DEF ReceiverInv
<1>3. CASE m = Drop(n)
  <2>1. /\ m \in Receivers /\ m.unit = Empty /\ ~m.torn /\ m.asked /\ m.slot = n.slot
        /\ m.lease = n.lease /\ m.last = n.last
    BY <1>1, <1>3, DropEffect
  <2> QED
    BY <1>1, <1>2, <2>1 DEF Over, SlotsRight, NoneHanded
<1>4. CASE ~n.unit.damaged /\ m = Acquire(Drop(RefusedUnit(n)))
  <2> DEFINE f == RefusedUnit(n)
             d == Drop(f)
  <2>1. /\ f \in Receivers /\ SlotsRight(f) /\ NoneHanded(n, f) /\ f.last = n.last
        /\ f.asked = n.asked
    BY <1>1, RefusedUnitEffect
  <2> HIDE DEF f
  <2>2. /\ d \in Receivers /\ d.unit = Empty /\ ~d.torn /\ d.asked /\ d.slot = f.slot
        /\ d.lease = f.lease /\ d.last = f.last
    BY <2>1, DropEffect
  <2> HIDE DEF d
  <2>3. Over(d, s, i) /\ NoneHanded(n, d)
    BY <1>2, <2>1, <2>2 DEF Over, SlotsRight, NoneHanded
  <2>4. m = Acquire(d)
    BY <1>4 DEF d, f
  <2> QED
    BY <2>3, <2>4, NoneHandedOn, OverAcquires
<1>5. CASE ~n.unit.damaged /\ m = Acquire(UnitOver(Hand(n)))
  <2> DEFINE h == UnitOver(Hand(n))
  <2>1. Over(h, s, i) /\ h.last.unit = n.unit.time /\ h.last.ssrc = s
    BY <1>5, HandEffect
  <2> HIDE DEF h
  <2>2. Over(Acquire(h), s, i) /\ Acquire(h).last = h.last
    BY <2>1, AcquireEffect, OverAcquires DEF Over
  <2>3. m = Acquire(h)
    BY <1>5 DEF h
  <2> QED
    BY <1>5, <2>1, <2>2, <2>3
<1> QED
  BY <1>3, <1>4, <1>5 DEF Finished

\* A media packet is counted and its source latched.
LEMMA PacketAcceptedKeeps ==
  ASSUME ReassemblyInv, NEW i \in Index, NEW s \in Ssrcs, NEW port \in Ports,
         PacketAccepted(i, s, port)
  PROVE  ReassemblyInv' /\ Follows
<1> DEFINE a == Acquire(Restarted(s))
           n == Stored(a, i, s)
<1>1. /\ Good(a, s) /\ NoneHanded(Now, a) /\ Taken(a, n, s, i) /\ n.slot # 0
      /\ n.asked \/ (Pli /\ peer.ssrc # 0)
      /\ Stream[i].unit # 0
      /\ n.asked \/ (peer.ssrc = s /\ n.last = last)
  BY UsableTakes DEF PacketAccepted
<1>2. PICK m \in Admitted(n, i) : Becomes(Advance(m, i))
  BY DEF PacketAccepted
<1>3. /\ peer' = [ssrc |-> s, port |-> port] /\ enabled' = enabled /\ resetAsked' = resetAsked
  BY DEF PacketAccepted
<1>4. SourceChanged(s) \/ n.asked = asked
  <2>1. CASE ~SourceChanged(s)
    <3>1. Now \in Receivers /\ SlotsRight(Now) /\ Now.asked = asked
      BY NowIsGood DEF Good
    <3>2. a = Acquire(Now)
      BY <2>1 DEF Restarted
    <3> QED
      BY <1>1, <3>1, <3>2, AcquireEffect DEF Taken
  <2> QED
    BY <2>1
<1> HIDE DEF a, n
<1> DEFINE q == Advance(m, i)
<1>5. ASSUME Good(q, s)
      PROVE  ReassemblyInv'
  <2>1. peer' \in [ssrc : {0} \cup Ssrcs, port : {0} \cup Ports] /\ peer'.ssrc = s
    BY <1>3
  <2> HIDE DEF q
  <2> QED
    BY <1>2, <1>3, <1>5, <2>1, BecomesKeeps, Flags DEF q
<1>6. ASSUME NoneHanded(n, m), m \in Receivers
      PROVE  Follows
  <2>1. q.lease = m.lease
    BY <1>6 DEF Advance, Receivers
  <2>2. n.lease = a.lease
    BY <1>1 DEF Taken
  <2> HIDE DEF q
  <2>3. NoneHanded(Now, q)
    BY <1>1, <1>6, <2>1, <2>2 DEF NoneHanded
  <2> QED
    BY <1>2, <2>3, NothingFollows DEF q
<1>7. CASE ~Stream[i].marker
  <2>1. m = n /\ m \in Receivers
    BY <1>1, <1>2, <1>7 DEF Admitted, Taken
  <2>2. Good(q, s) /\ NoneHanded(n, m)
    BY <1>1, <1>7, <2>1, PartKeeps DEF NoneHanded
  <2> HIDE DEF q
  <2> QED
    BY <1>5, <1>6, <2>1, <2>2
<1>8. CASE Stream[i].marker
  <2>1. m \in Finished(n)
    BY <1>2, <1>8 DEF Admitted
  <2>2. /\ Over(m, s, i)
        /\ NoneHanded(n, m) \/ (~n.unit.damaged /\ m.last.unit = n.unit.time /\ m.last.ssrc = s)
    BY <1>1, <1>8, <2>1, FinishedEnds
  <2>3. m \in Receivers
    BY <2>2 DEF Over
  <2>4. Good(q, s)
    BY <1>8, <2>2, OverKeeps
  <2>5. ASSUME ~n.unit.damaged, m.last.unit = n.unit.time, m.last.ssrc = s
        PROVE  Follows
    <3> SUFFICES ASSUME ~asked, last'.ssrc = last.ssrc
                 PROVE  last'.unit = last.unit + 1
      BY DEF Follows
    <3>1. last' = m.last
      BY <1>2, <2>3 DEF Becomes, Advance, Receivers
    <3>2. last.ssrc = peer.ssrc
      BY NowIsGood DEF Good, ReceiverInv
    <3>3. ~n.asked
      BY <1>4, <2>5, <3>1, <3>2 DEF SourceChanged
    <3>4. n.unit.time = n.last.unit + 1
      BY <1>1, <2>5, <3>3 DEF Taken
    <3> QED
      BY <1>1, <2>5, <3>1, <3>3, <3>4
  <2> HIDE DEF q
  <2> QED
    BY <1>5, <1>6, <2>2, <2>3, <2>4, <2>5
<1> QED
  BY <1>7, <1>8

\* A keepalive is the next packet, of no unit: the stream is followed past it.
LEMMA KeepaliveKeeps ==
  ASSUME ReassemblyInv, NEW i \in Index, NEW s \in Ssrcs, NEW port \in Ports,
         Keepalive(i, s, port)
  PROVE  ReassemblyInv' /\ Follows
<1> DEFINE q == [Now EXCEPT !.expected = After(i)]
           n == Now
<1>1. /\ Good(n, peer.ssrc) /\ n \in Receivers /\ n.expected = expected /\ n.valid = valid
  BY NowIsGood DEF Good
<1>2. /\ Becomes(q) /\ peer' = peer /\ enabled' = enabled /\ resetAsked' = resetAsked
      /\ valid /\ Number(i) = expected /\ Stream[i].unit = 0
  BY StreamAssumption DEF Keepalive
<1> HIDE DEF n
<1>3. /\ q \in Receivers /\ q.expected = After(i) /\ q.valid = n.valid /\ q.unit = n.unit
      /\ q.slot = n.slot /\ q.lease = n.lease /\ q.torn = n.torn /\ q.synced = n.synced
      /\ q.last = n.last /\ q.asked = n.asked
  BY <1>1, NumberType DEF n, Receivers
<1> HIDE DEF q
<1>4. ReceiverInv(n, peer.ssrc)
  BY <1>1 DEF Good
<1>5. PICK h \in Index : /\ n.expected = After(h) /\ UnitIsOpen(n, h)
                         /\ UnitIsGathered(n, peer.ssrc, h) /\ IsFollowed(n, h)
  BY <1>1, <1>2, <1>4 DEF ReceiverInv
<1>6. i = h + 1 /\ h \in Nat
  BY <1>1, <1>2, <1>5, InSequence, StreamFacts
<1>7. /\ \A k \in Index : k \in Nat /\ (k <= i <=> k <= h \/ k = i)
      /\ \A k \in Index : i < k <=> h < k /\ k # i
  BY <1>6, StreamFacts
<1>8. UnitIsOpen(q, i)
  <2>1. CASE n.unit.active
    BY <1>2, <1>3, <1>5, <1>7, <2>1 DEF UnitIsOpen
  <2>2. CASE ~n.unit.active
    <3>1. n.torn \/ Border(h)
      BY <1>5, <2>2 DEF UnitIsOpen
    <3>2. Border(h) => Border(i)
      BY <1>2, <1>7 DEF Border
    <3> QED
      BY <1>3, <2>2, <3>1, <3>2 DEF UnitIsOpen
  <2> QED
    BY <2>1, <2>2
<1>9. UnitIsGathered(q, peer.ssrc, i)
  <2> SUFFICES ASSUME n.unit.active, ~n.unit.damaged
               PROVE  UnitIsGathered(q, peer.ssrc, i)
    BY <1>3 DEF UnitIsGathered
  <2>1. n.unit.time # 0 /\ n.unit.got \in Gathered
    BY <1>1, <1>5 DEF UnitIsOpen, Receivers, UnitType
  <2>2. \A k \in DOMAIN n.unit.got : n.unit.got[k][2] \in Index
    BY <2>1 DEF Gathered
  <2>3. SentUpTo(n.unit.got, peer.ssrc, n.unit.time, h)
          => SentUpTo(n.unit.got, peer.ssrc, n.unit.time, i)
    BY <1>2, <1>7, <2>1, <2>2 DEF SentUpTo
  <2> QED
    BY <1>3, <1>5, <2>3 DEF UnitIsGathered
<1>10. IsFollowed(q, i)
  <2>1. n.last.unit \in Nat
    BY <1>1, Sizes DEF Receivers, LastType
  <2>2. (\A k \in Index : k <= h => Stream[k].unit <= n.last.unit)
        => (\A j \in Index : j <= i => Stream[j].unit <= n.last.unit)
    BY <1>2, <1>7, <2>1
  <2> QED
    BY <1>2, <1>3, <1>5, <1>7, <2>2 DEF IsFollowed
<1>11. ReceiverInv(q, peer.ssrc)
  BY <1>3, <1>4, <1>8, <1>9, <1>10 DEF ReceiverInv
<1>12. Good(q, peer.ssrc) /\ NoneHanded(Now, q)
  BY <1>1, <1>3, <1>11 DEF n, Good, SlotsRight, NoneHanded
<1> QED
  BY <1>2, <1>12, Flags, QuietKeeps

\* A slot that the sink gives back is free.
LEMMA SinkReleasesKeeps ==
  ASSUME ReassemblyInv, NEW t \in 1..Slots, SinkReleases(t)
  PROVE  ReassemblyInv' /\ Follows
<1> DEFINE l == [lease EXCEPT ![t] = "free"]
           n == Now
           q == [n EXCEPT !.lease = l]
<1>1. /\ Good(n, peer.ssrc) /\ n \in Receivers /\ n.lease = lease /\ lease[t] = "sink"
      /\ n.expected = expected /\ n.valid = valid /\ n.unit = unit /\ n.slot = slot
      /\ n.torn = torn /\ n.synced = synced /\ n.last = last /\ n.asked = asked
  BY NowIsGood DEF Good, SinkReleases
<1> HIDE DEF n
<1>2. lease \in Leases
  BY <1>1 DEF Receivers
<1>3. l \in Leases /\ l[t] = "free" /\ \A u \in 1..Slots : u # t => l[u] = lease[u]
  BY <1>2 DEF Leases
<1>4. lease' = l
  BY DEF SinkReleases
<1> HIDE DEF l
<1>5. /\ q \in Receivers /\ q.lease = l /\ q.expected = n.expected /\ q.valid = n.valid
      /\ q.unit = n.unit /\ q.slot = n.slot /\ q.torn = n.torn /\ q.synced = n.synced
      /\ q.last = n.last /\ q.asked = n.asked
  BY <1>1, <1>3 DEF Receivers
<1> HIDE DEF q
<1>6. Becomes(q) /\ peer' = peer /\ enabled' = enabled /\ resetAsked' = resetAsked
  BY <1>1, <1>4, <1>5 DEF SinkReleases, Becomes
<1>7. ReceiverInv(q, peer.ssrc)
  BY <1>1, <1>5 DEF Good, ReceiverInv, UnitIsOpen, UnitIsGathered, IsFollowed
<1>8. SlotsRight(q)
  BY <1>1, <1>3, <1>5 DEF Good, SlotsRight
<1>9. Good(q, peer.ssrc) /\ NoneHanded(n, q)
  BY <1>1, <1>3, <1>5, <1>7, <1>8 DEF Good, NoneHanded
<1> QED
  BY <1>6, <1>9, Flags, QuietKeeps DEF n

\* A step that leaves the receiver as it is.
LEMMA ReceiverUntouched ==
  ASSUME ReassemblyInv, enabled' \in BOOLEAN, resetAsked' \in BOOLEAN,
         UNCHANGED <<peer, expected, valid, unit, slot, lease, torn, synced, last, asked>>
  PROVE  ReassemblyInv' /\ Follows
<1>1. Becomes(Now)
  BY DEF Becomes, Now
<1>2. Good(Now, peer.ssrc) /\ NoneHanded(Now, Now)
  BY NowIsGood DEF NoneHanded
<1> QED
  BY <1>1, <1>2, QuietKeeps

\* Every step keeps the invariant, and what it hands over follows.
LEMMA StepKeeps ==
  ASSUME ReassemblyInv, [Next]_vars
  PROVE  ReassemblyInv' /\ Follows
<1>1. CASE HonourReset
  BY <1>1, HonourResetKeeps
<1>2. CASE EnableReceive \/ DisableReceive \/ UNCHANGED vars
  BY <1>2, Flags, ReceiverUntouched DEF EnableReceive, DisableReceive, vars
<1>3. ASSUME NEW t \in 1..Slots, SinkReleases(t)
      PROVE  ReassemblyInv' /\ Follows
  BY <1>3, SinkReleasesKeeps
<1>4. ASSUME NEW s \in Ssrcs, NEW port \in Ports, PacketIgnored(s, port)
      PROVE  ReassemblyInv' /\ Follows
  BY <1>4, PacketIgnoredKeeps
<1>5. ASSUME NEW s \in Ssrcs, NEW port \in Ports, PacketRefused(Malformed, s, port)
      PROVE  ReassemblyInv' /\ Follows
  BY <1>5, PacketRefusedKeeps
<1>6. ASSUME NEW s \in Ssrcs, NEW port \in Ports, NEW i \in Index,
             \/ PacketRefused(Stream[i], s, port)
             \/ PacketAccepted(i, s, port)
             \/ MarkerRefused(i, s, port)
             \/ Keepalive(i, s, port)
      PROVE  ReassemblyInv' /\ Follows
  BY <1>6, PacketRefusedKeeps, PacketAcceptedKeeps, MarkerRefusedKeeps, KeepaliveKeeps
<1> QED
  BY <1>1, <1>2, <1>3, <1>4, <1>5, <1>6 DEF Next

\* Nothing is in reassembly at first.
LEMMA InitKeeps ==
  ASSUME Init
  PROVE  ReassemblyInv
<1>1. /\ unit = Empty /\ valid = FALSE /\ asked = TRUE /\ last = None /\ slot = 0
      /\ lease = [t \in 1..Slots |-> "free"]
  BY DEF Init
<1>2. unit.active = FALSE /\ Len(unit.got) = 0 /\ unit \in UnitType
  BY <1>1, EmptyFields
<1>3. None \in LastType /\ None.unit = 0
  BY Sizes DEF None, LastType, Gathered
<1>4. TypeOK
  <2>1. 0 \in 0..(Numbers - 1) /\ 0 \in 0..Slots /\ 0 <= MaxPackets
    BY Sizes
  <2>2. NoPeer \in [ssrc : {0} \cup Ssrcs, port : {0} \cup Ports]
    BY DEF NoPeer
  <2>3. {enabled, resetAsked, valid, torn, synced, asked} \subseteq BOOLEAN
    BY DEF Init
  <2>4. lease \in [1..Slots -> {"free", "filling", "sink"}]
    BY <1>1
  <2>5. peer = NoPeer /\ expected = 0
    BY DEF Init
  <2>6. Len(unit.got) <= MaxPackets
    BY <1>2, <2>1
  <2> QED
    BY <1>1, <1>2, <1>3, <2>1, <2>2, <2>3, <2>4, <2>5, <2>6 DEF TypeOK, UnitType, LastType
<1>5. OneSlotFilling
  BY <1>1, <1>4, Sizes DEF OneSlotFilling
<1>6. ReceiverInv(Now, peer.ssrc)
  BY <1>1, <1>2, <1>3 DEF ReceiverInv, Now
<1> QED
  BY <1>4, <1>5, <1>6 DEF ReassemblyInv

-----------------------------------------------------------------------------

\* The worker always stands at some packet of the stream: of the unit it has
\* open it holds all that was sent up to there, or knows that it does not, and
\* it has seen every unit since the last one handed over, or owes a request for
\* a key frame (handle_h264_payload_, finish_access_unit_, send_rtcp_pli_).
THEOREM ReassemblyInvariant == Spec => []ReassemblyInv
<1>1. Init => ReassemblyInv
  BY InitKeeps
<1>2. ReassemblyInv /\ [Next]_vars => ReassemblyInv'
  BY StepKeeps
<1> QED
  BY <1>1, <1>2, PTL DEF Spec

\* Slots circulate (acquire_reassembly_slot_, finish_access_unit_,
\* release_reassembly_slot_): the one being filled is the worker's and no other
\* is, whatever is dropped, refused or reset, so that none is lost and none is
\* written while the sink reads it.
THEOREM SlotsCirculate == Spec => []OneSlotFilling
<1>1. ReassemblyInv => OneSlotFilling
  BY DEF ReassemblyInv
<1> QED
  BY <1>1, ReassemblyInvariant, PTL

\* A unit that finish_access_unit_ hands to the sink is all that one source
\* sent of it, once and in order, if it began in sequence and no refused packet
\* took a part of it.
THEOREM UnitsReachSinkWhole == Spec => []UnitsAreWhole
<1>1. ReassemblyInv => UnitsAreWhole
  <2> SUFFICES ASSUME ReassemblyInv
               PROVE  UnitsAreWhole
    OBVIOUS
  <2>1. ReceiverInv(Now, peer.ssrc) /\ Now.last = last
    BY DEF ReassemblyInv, Now
  <2> QED
    BY <2>1 DEF ReceiverInv, UnitsAreWhole
<1> QED
  BY <1>1, ReassemblyInvariant, PTL

\* Where key frames may be asked for (send_remote_pli_), a unit handed over out of
\* turn follows a request for one (send_rtcp_pli_), a new start of the sequence or a
\* unit discarded with a refused packet: handle_h264_payload_ notices every loss.
THEOREM SkipsAreAnswered == Spec => SkipIsAnswered
<1>1. ReassemblyInv /\ [Next]_vars => [Follows]_vars
  BY StepKeeps
<1>2. Spec => [][Follows]_vars
  BY <1>1, ReassemblyInvariant, PTL DEF Spec
<1> QED
  BY <1>2 DEF SkipIsAnswered, Follows
=============================================================================
