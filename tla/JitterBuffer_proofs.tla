------------------------ MODULE JitterBuffer_proofs ------------------------
(***************************************************************************)
(* Proofs about JitterBuffer, for every width of the sequence numbers,      *)
(* number of slots and prefetch: the count is right and every frame is in   *)
(* the window, every accepted frame is accounted for, playout goes back in  *)
(* a prefetch only, and a jump lands on a frame.                            *)
(***************************************************************************)
EXTENDS JitterBuffer, FiniteSetTheorems, WellFoundedInduction, TLAPS

SlotTable == [Slots -> Sequences \cup {NoFrame}]

\* Frames in their own slots, inside the window that starts at from.
Aligned(sl, from) ==
    \A i \in Held(sl) : SlotOf(sl[i]) = i /\ InWindow(sl[i], from)

-----------------------------------------------------------------------------
(* Arithmetic of sequence numbers. *)

\* The sizes that the constructor establishes.
LEMMA Sizes ==
  /\ Half \in Nat /\ SlotCount \in Nat /\ Prebuffer \in Nat
  /\ 1 <= Prebuffer /\ Prebuffer <= SlotCount /\ SlotCount < Half
  /\ KeepFrames \in 1..SlotCount
  BY WindowAssumption DEF KeepFrames

\* The slot that a sequence is stored in exists.
LEMMA SlotExists ==
  ASSUME NEW s \in Sequences
  PROVE  SlotOf(s) \in Slots
  BY Sizes DEF Sequences, SeqMod, SlotOf, Slots

\* sequence_delta_ is a signed number of the width of a sequence, and adding it to
\* the reference gives the sequence back.
LEMMA DeltaRange ==
  ASSUME NEW a \in Sequences, NEW b \in Sequences
  PROVE  /\ Delta(a, b) \in (-Half)..(Half - 1)
         /\ Wrap(b + Delta(a, b)) = a
         /\ Delta(a, b) = 0 <=> a = b
  BY Sizes DEF Sequences, SeqMod, Delta, Wrap

\* A sequence k ahead of b is at distance k from it.
LEMMA DeltaAhead ==
  ASSUME NEW b \in Sequences, NEW k \in (-Half)..(Half - 1)
  PROVE  Wrap(b + k) \in Sequences /\ Delta(Wrap(b + k), b) = k
  BY Sizes DEF Sequences, SeqMod, Delta, Wrap

\* Moving the reference by k changes the distance by k.
LEMMA DeltaShift ==
  ASSUME NEW a \in Sequences, NEW b \in Sequences, NEW k \in (-Half)..(Half - 1),
         Delta(a, b) - k \in (-Half)..(Half - 1)
  PROVE  Delta(a, Wrap(b + k)) = Delta(a, b) - k
  BY Sizes DEF Sequences, SeqMod, Delta, Wrap

-----------------------------------------------------------------------------
(* Counting the frames that are held. *)

\* At most SlotCount frames are held.
LEMMA HeldFinite ==
  ASSUME NEW sl
  PROVE  IsFiniteSet(Held(sl)) /\ Cardinality(Held(sl)) \in 0..SlotCount
<1>1. IsFiniteSet(Slots) /\ Cardinality(Slots) = SlotCount
  BY FS_Interval, Sizes DEF Slots
<1>2. Held(sl) \in SUBSET Slots
  BY DEF Held
<1>3. IsFiniteSet(Held(sl)) /\ Cardinality(Held(sl)) <= SlotCount
  BY <1>1, <1>2, FS_Subset
<1>4. Cardinality(Held(sl)) \in Nat
  BY <1>3, FS_CardinalityType
<1>5. QED
  BY <1>3, <1>4, Sizes

\* Storing a frame in a slot adds one frame, unless the slot was in use.
LEMMA HeldAfterStore ==
  ASSUME NEW sl \in SlotTable, NEW s \in Sequences
  PROVE  LET i == SlotOf(s)
             placed == [sl EXCEPT ![i] = s]
         IN  /\ placed \in SlotTable
             /\ i \in Held(placed)
             /\ Cardinality(Held(placed)) =
                  IF sl[i] # NoFrame THEN Cardinality(Held(sl))
                                     ELSE Cardinality(Held(sl)) + 1
             /\ sl[i] # NoFrame => Cardinality(Held(sl)) >= 1
<1> DEFINE i == SlotOf(s)
           placed == [sl EXCEPT ![i] = s]
<1>1. i \in Slots
  BY SlotExists
<1>2. s # NoFrame
  BY Sizes DEF Sequences, SeqMod, NoFrame
<1>3. placed \in SlotTable
  BY <1>1 DEF SlotTable
<1>4. Held(placed) = Held(sl) \cup {i}
  BY <1>1, <1>2 DEF Held, SlotTable
<1>5. i \in Held(sl) <=> sl[i] # NoFrame
  BY <1>1 DEF Held
<1>6. Cardinality(Held(placed)) =
        IF i \in Held(sl) THEN Cardinality(Held(sl)) ELSE Cardinality(Held(sl)) + 1
  BY <1>4, HeldFinite, FS_AddElement
<1>7. sl[i] # NoFrame => Cardinality(Held(sl)) >= 1
  <2>1. i \in Held(sl) => Held(sl) # {}
    OBVIOUS
  <2>2. Cardinality(Held(sl)) = 0 <=> Held(sl) = {}
    BY HeldFinite, FS_EmptySet
  <2>3. QED
    BY <1>5, <2>1, <2>2, HeldFinite
<1>8. QED
  BY <1>3, <1>4, <1>5, <1>6, <1>7

\* Taking a frame out of its slot leaves one frame less.
LEMMA HeldAfterTake ==
  ASSUME NEW sl \in SlotTable, NEW i \in Slots, sl[i] # NoFrame
  PROVE  /\ [sl EXCEPT ![i] = NoFrame] \in SlotTable
         /\ Held([sl EXCEPT ![i] = NoFrame]) = Held(sl) \ {i}
         /\ Cardinality(Held([sl EXCEPT ![i] = NoFrame])) = Cardinality(Held(sl)) - 1
<1>1. [sl EXCEPT ![i] = NoFrame] \in SlotTable
  BY DEF SlotTable
<1>2. Held([sl EXCEPT ![i] = NoFrame]) = Held(sl) \ {i}
  BY DEF Held, SlotTable
<1>3. i \in Held(sl)
  BY DEF Held
<1>4. QED
  BY <1>1, <1>2, <1>3, HeldFinite, FS_RemoveElement

\* keep_window_from_ leaves frames of the window, in their slots, and no more of
\* them than there were.
LEMMA KeptFrames ==
  ASSUME NEW sl \in SlotTable, NEW from \in Sequences,
         \A i \in Held(sl) : SlotOf(sl[i]) = i
  PROVE  LET kept == KeepWindow(sl, from)
         IN  /\ kept \in SlotTable
             /\ Aligned(kept, from)
             /\ \A i \in Held(kept) : i \in Held(sl) /\ kept[i] = sl[i]
             /\ Cardinality(Held(kept)) <= Cardinality(Held(sl))
<1> DEFINE kept == KeepWindow(sl, from)
<1>1. kept \in SlotTable
  BY DEF KeepWindow, SlotTable
<1>2. \A i \in Held(kept) : i \in Held(sl) /\ kept[i] = sl[i] /\ InWindow(sl[i], from)
  BY DEF KeepWindow, Held
<1>3. Aligned(kept, from)
  BY <1>2 DEF Aligned
<1>4. Cardinality(Held(kept)) <= Cardinality(Held(sl))
  <2>1. Held(kept) \in SUBSET Held(sl)
    BY <1>2
  <2>2. QED
    BY <2>1, HeldFinite, FS_Subset
<1>5. QED
  BY <1>1, <1>2, <1>3, <1>4

-----------------------------------------------------------------------------
(* The first frame of a window that has moved. *)

\* A set of slots that is not empty has a least element.
LEMMA LeastSlot ==
  ASSUME NEW T, T \subseteq Slots, T # {}
  PROVE  Min(T) \in T /\ \A y \in T : Min(T) <= y
<1>1. T \subseteq Nat
  BY Sizes DEF Slots
<1> DEFINE Less2 == {p \in Nat \X Nat : p[1] < p[2]}
<1>2. IsWellFoundedOn(Less2, Nat)
  BY NatLessThanWellFounded, Zenon DEF OpToRel
<1>3. PICK x \in T : \A y \in T : ~ (<<y, x>> \in Less2)
  <2> HIDE DEF Less2
  <2> QED
    BY <1>1, <1>2, WFMin
<1>4. \A y \in T : x <= y
  <2> TAKE y \in T
  <2>1. x \in Nat /\ y \in Nat
    BY <1>1
  <2>2. y < x => <<y, x>> \in Less2
    BY <2>1
  <2>3. QED
    BY <1>3, <2>1, <2>2
<1>5. \E m \in T : \A y \in T : m =< y
  BY <1>4
<1>6. QED
  BY <1>5 DEF Min

\* With a frame s that is held at most KeepFrames - 1 behind the start, the first
\* frame is held, is not behind s, and no frame is before it.
LEMMA FirstHeldIsFirst ==
  ASSUME NEW sl \in SlotTable, NEW from \in Sequences, NEW s \in Sequences,
         Aligned(sl, from), sl[SlotOf(s)] = s, InWindow(s, from)
  PROVE  LET first == FirstHeld(sl, from)
         IN  /\ first \in Sequences
             /\ sl[SlotOf(first)] = first
             /\ Aligned(sl, first)
             /\ \E m \in 0..Delta(s, from) : first = Wrap(from + m)
<1> DEFINE found == {o \in Slots : sl[SlotOf(Wrap(from + o))] = Wrap(from + o)}
           m == Min(found)
           first == Wrap(from + m)
<1>1. ASSUME NEW f \in Sequences, InWindow(f, from), sl[SlotOf(f)] = f
      PROVE  Delta(f, from) \in found
  <2>1. Delta(f, from) \in Slots
    BY <1>1, DeltaRange, Sizes DEF InWindow, Slots
  <2>2. Wrap(from + Delta(f, from)) = f
    BY <1>1, DeltaRange
  <2>3. QED
    BY <1>1, <2>1, <2>2
<1>2. Delta(s, from) \in found
  BY <1>1
<1>3. m \in found /\ \A o \in found : m <= o
  <2>1. found \subseteq Slots /\ found # {}
    BY <1>2
  <2>2. QED
    BY <2>1, LeastSlot
<1>4. m \in Slots /\ m \in 0..(SlotCount - 1) /\ m \in (-Half)..(Half - 1)
  BY <1>3, Sizes DEF Slots
<1>5. FirstHeld(sl, from) = first
  BY <1>2 DEF FirstHeld
<1>6. first \in Sequences
  BY <1>4, DeltaAhead
<1>7. sl[SlotOf(first)] = first
  BY <1>3
<1>8. Aligned(sl, first)
  <2> SUFFICES ASSUME NEW i \in Held(sl)
               PROVE  SlotOf(sl[i]) = i /\ InWindow(sl[i], first)
    BY DEF Aligned
  <2>1. SlotOf(sl[i]) = i /\ InWindow(sl[i], from)
    BY DEF Aligned
  <2>2. sl[i] \in Sequences
    BY DEF Held, SlotTable
  <2>3. m <= Delta(sl[i], from)
    BY <1>1, <1>3, <2>1, <2>2
  <2>4. Delta(sl[i], from) - m \in 0..(SlotCount - 1)
    BY <1>4, <2>1, <2>2, <2>3, DeltaRange, Sizes DEF InWindow
  <2>5. Delta(sl[i], first) = Delta(sl[i], from) - m
    BY <1>4, <2>2, <2>4, DeltaShift, Sizes
  <2>6. QED
    BY <2>1, <2>4, <2>5, Sizes DEF InWindow
<1>9. m \in 0..Delta(s, from)
  BY <1>2, <1>3, <1>4, DeltaRange
<1>10. QED
  BY <1>5, <1>6, <1>7, <1>8, <1>9

-----------------------------------------------------------------------------
(* The invariant. *)

\* What a frame stored by push leaves behind, for the window that starts at start
\* and the slots sl that count frames were left in.
LEMMA PlaceEffect ==
  ASSUME TypeOK, NEW s \in Sequences, NEW sl \in SlotTable, NEW start \in Sequences,
         NEW count, count = Cardinality(Held(sl)), NEW lost \in Int,
         NEW realigned \in BOOLEAN,
         Aligned(sl, start), InWindow(s, start),
         debt = count + lost, buffering => count < Prebuffer,
         Place(s, sl, count, start, lost, realigned)
  PROVE  /\ slots' \in SlotTable /\ next' \in Sequences /\ anchored' = TRUE
         /\ depth' = Cardinality(Held(slots'))
         /\ Aligned(slots', next')
         /\ buffering' \in BOOLEAN
         /\ buffering' => depth' < Prebuffer
         /\ debt' = depth'
         /\ ~realigned => next' = start
         /\ (realigned /\ sl[SlotOf(s)] # s)
              => /\ slots'[SlotOf(next')] = next'
                 /\ \E m \in 0..Delta(s, start) : next' = Wrap(start + m)
<1> DEFINE i == SlotOf(s)
           placed == [sl EXCEPT ![i] = s]
           taken == sl[i] # NoFrame
           total == 1 + (IF taken THEN Less(count) ELSE count)
<1>1. i \in Slots /\ s # NoFrame
  BY SlotExists, Sizes DEF Sequences, SeqMod, NoFrame
<1>2. count \in 0..SlotCount /\ count \in Nat
  BY HeldFinite, Sizes
<1>3. CASE sl[i] = s
  <2>1. slots' = sl /\ depth' = count /\ next' = start /\ debt' = debt - lost
        /\ buffering' = buffering /\ anchored' = TRUE
    BY <1>3 DEF Place
  <2>2. debt' = depth'
    BY <1>2, <2>1
  <2>3. QED
    BY <1>3, <2>1, <2>2 DEF TypeOK
<1>4. CASE sl[i] # s
  <2>1. /\ slots' = placed /\ depth' = total /\ anchored' = TRUE
        /\ next' = IF realigned THEN FirstHeld(placed, start) ELSE start
        /\ debt' = debt + 1 - lost - (IF taken THEN 1 ELSE 0)
        /\ buffering' = IF realigned THEN total < Prebuffer
                        ELSE buffering /\ total < Prebuffer
    BY <1>4 DEF Place
  <2>2. placed \in SlotTable /\ placed[i] = s
    BY <1>1, HeldAfterStore DEF SlotTable
  <2>3. total = Cardinality(Held(placed)) /\ total \in Nat
        /\ total = count + 1 - (IF taken THEN 1 ELSE 0)
    BY <1>2, HeldAfterStore DEF Less
  <2>4. Aligned(placed, start)
    <3> SUFFICES ASSUME NEW j \in Held(placed)
                 PROVE  SlotOf(placed[j]) = j /\ InWindow(placed[j], start)
      BY DEF Aligned
    <3>1. CASE j = i
      BY <2>2, <3>1
    <3>2. CASE j # i
      <4>1. j \in Held(sl) /\ placed[j] = sl[j]
        BY <1>1, <3>2 DEF Held, SlotTable
      <4>2. QED
        BY <4>1 DEF Aligned
    <3>3. QED
      BY <3>1, <3>2
  <2>5. debt' = depth'
    BY <1>2, <2>1, <2>3
  <2>6. buffering' \in BOOLEAN /\ (buffering' => depth' < Prebuffer)
    <3> HIDE DEF placed, total, taken
    <3>1. (total < Prebuffer) \in BOOLEAN
      BY <2>3, Sizes
    <3>2. buffering' \in BOOLEAN
      BY <2>1, <3>1, Zenon
    <3>3. buffering' => depth' < Prebuffer
      BY <2>1, Zenon
    <3>4. QED
      BY <3>2, <3>3
  <2>7. CASE realigned
    <3> HIDE DEF placed, total, taken
    <3>1. next' = FirstHeld(placed, start)
      BY <2>1, <2>7
    <3>2. placed[SlotOf(s)] = s
      BY <2>2
    <3>3. /\ next' \in Sequences /\ placed[SlotOf(next')] = next'
          /\ Aligned(placed, next')
          /\ \E m \in 0..Delta(s, start) : next' = Wrap(start + m)
      BY <2>2, <2>4, <3>1, <3>2, FirstHeldIsFirst
    <3>4. QED
      BY <2>1, <2>2, <2>3, <2>5, <2>6, <2>7, <3>3
  <2>8. CASE ~realigned
    <3> HIDE DEF placed, total, taken
    <3>1. next' = start
      BY <2>1, <2>8
    <3>2. QED
      BY <2>1, <2>2, <2>3, <2>4, <2>5, <2>6, <2>8, <3>1
  <2>9. QED
    BY <2>7, <2>8
<1>5. QED
  BY <1>3, <1>4

\* The frame itself is stored, and only a jump starts a prefetch.
LEMMA PlacedFrame ==
  ASSUME NEW s \in Sequences, NEW sl \in SlotTable, NEW start, NEW count, NEW lost,
         NEW realigned \in BOOLEAN, Place(s, sl, count, start, lost, realigned)
  PROVE  /\ slots'[SlotOf(s)] = s
         /\ (~realigned /\ buffering') => buffering
<1>1. SlotOf(s) \in Slots
  BY SlotExists
<1>2. CASE sl[SlotOf(s)] = s
  BY <1>2 DEF Place
<1>3. CASE sl[SlotOf(s)] # s
  <2>1. slots' = [sl EXCEPT ![SlotOf(s)] = s]
    BY <1>3 DEF Place
  <2>2. ~realigned => (buffering' => buffering)
    BY <1>3, Zenon DEF Place
  <2>3. QED
    BY <1>1, <2>1, <2>2 DEF SlotTable
<1>4. QED
  BY <1>2, <1>3

\* The inductive invariant.  Accounting needs BufferInv: what a move discards is
\* the difference of two counts of what is held.
FrameInv == BufferInv /\ Accounting

\* The facts of FrameInv that the cases of push use.
LEMMA FrameFacts ==
  ASSUME FrameInv
  PROVE  /\ slots \in SlotTable /\ next \in Sequences
         /\ anchored \in BOOLEAN /\ buffering \in BOOLEAN
         /\ depth = Cardinality(Held(slots)) /\ depth \in 0..SlotCount /\ depth \in Nat
         /\ debt = depth
         /\ Aligned(slots, next)
         /\ ~anchored => Held(slots) = {}
         /\ buffering => depth < Prebuffer
  BY Sizes DEF FrameInv, BufferInv, Accounting, TypeOK, SlotTable, Aligned

\* The converse, for the state after a step.
LEMMA FrameInvNext ==
  ASSUME slots' \in SlotTable, next' \in Sequences, buffering' \in BOOLEAN,
         anchored' \in BOOLEAN, ~anchored' => Held(slots') = {},
         depth' = Cardinality(Held(slots')), debt' = depth',
         Aligned(slots', next'), buffering' => depth' < Prebuffer
  PROVE  FrameInv'
<1>1. depth' \in 0..SlotCount
  BY HeldFinite
<1>2. debt' \in Int
  BY <1>1, Sizes
<1>3. TypeOK'
  BY <1>1, <1>2 DEF TypeOK, SlotTable
<1>4. \A i \in Held(slots') :
         SlotOf(slots'[i]) = i /\ anchored' /\ InWindow(slots'[i], next')
  BY DEF Aligned
<1>5. QED
  BY <1>3, <1>4 DEF FrameInv, BufferInv, Accounting

\* A move of the window, by an earlier frame or by a jump.
LEMMA MovedEffect ==
  ASSUME FrameInv, NEW s \in Sequences, NEW start \in Sequences,
         NEW realigned \in BOOLEAN, InWindow(s, start), Moved(s, start, realigned)
  PROVE  /\ FrameInv' /\ anchored' = TRUE
         /\ slots'[SlotOf(s)] = s
         /\ ~realigned => next' = start
         /\ (realigned /\ slots[SlotOf(s)] # s)
              => /\ slots'[SlotOf(next')] = next'
                 /\ \E m \in 0..Delta(s, start) : next' = Wrap(start + m)
<1> DEFINE sl == KeepWindow(slots, start)
           kept == Cardinality(Held(sl))
           lost == Cardinality(Held(slots)) - kept
<1>1. \A i \in Held(slots) : SlotOf(slots[i]) = i
  BY FrameFacts DEF Aligned
<1>2. /\ sl \in SlotTable /\ Aligned(sl, start)
      /\ \A i \in Held(sl) : i \in Held(slots) /\ sl[i] = slots[i]
      /\ kept <= Cardinality(Held(slots))
  BY <1>1, FrameFacts, KeptFrames
<1>3. kept \in Nat /\ lost \in Int /\ debt = kept + lost /\ (buffering => kept < Prebuffer)
  <2>1. kept \in Nat /\ Cardinality(Held(slots)) \in Nat
    BY HeldFinite, Sizes
  <2>2. QED
    BY <1>2, <2>1, FrameFacts, Sizes
<1>4. slots[SlotOf(s)] # s => sl[SlotOf(s)] # s
  <2>1. SlotOf(s) \in Slots /\ s # NoFrame
    BY SlotExists, Sizes DEF Sequences, SeqMod, NoFrame
  <2>2. QED
    BY <1>2, <2>1 DEF Held
<1>5. Place(s, sl, kept, start, lost, realigned)
  BY DEF Moved
<1>6. TypeOK
  BY DEF FrameInv, BufferInv
<1> HIDE DEF sl, kept, lost
<1>7. kept = Cardinality(Held(sl))
  BY DEF kept
<1>8. /\ slots' \in SlotTable /\ next' \in Sequences /\ anchored' = TRUE
      /\ depth' = Cardinality(Held(slots'))
      /\ Aligned(slots', next')
      /\ buffering' \in BOOLEAN
      /\ buffering' => depth' < Prebuffer
      /\ debt' = depth'
      /\ ~realigned => next' = start
      /\ (realigned /\ sl[SlotOf(s)] # s)
           => /\ slots'[SlotOf(next')] = next'
              /\ \E m \in 0..Delta(s, start) : next' = Wrap(start + m)
  BY <1>2, <1>3, <1>5, <1>6, <1>7, PlaceEffect
<1>9. FrameInv'
  BY <1>8, FrameInvNext
<1>10. slots'[SlotOf(s)] = s
  BY <1>2, <1>5, PlacedFrame
<1>11. QED
  BY <1>4, <1>8, <1>9, <1>10

-----------------------------------------------------------------------------
(* The actions. *)

\* What playout may see of a step: the start of the window goes back in a prefetch
\* only, by less than a window and to a frame that is held; what starts a prefetch
\* takes it at least that far ahead; and where it moves by more than one it finds
\* a frame.
StartMoves ==
    /\ Delta(next', next) < 0
         => /\ buffering /\ Delta(next', next) > -SlotCount
            /\ slots'[SlotOf(next')] = next'
    /\ (buffering' /\ ~buffering) => Delta(next', next) >= Prebuffer
    /\ Delta(next', next) > 1 => slots'[SlotOf(next')] = next'

Forward == (anchored /\ anchored') => StartMoves

\* A step that leaves the start alone is no movement.
LEMMA ForwardInPlace ==
  ASSUME FrameInv, next' = next, buffering' => buffering
  PROVE  Forward
<1>1. Delta(next', next) = 0
  BY FrameFacts, DeltaRange
<1>2. QED
  BY <1>1 DEF Forward, StartMoves

\* A frame before the start.
LEMMA PushEarlierStep ==
  ASSUME FrameInv, NEW s \in Sequences, PushEarlier(s)
  PROVE  FrameInv' /\ Forward
<1>1. Delta(s, s) = 0 /\ InWindow(s, s)
  BY DeltaRange, Sizes DEF InWindow
<1>2. Moved(s, s, FALSE) /\ Ahead(s) < 0 /\ Ahead(s) > -SlotCount /\ buffering
  BY DEF PushEarlier
<1>3. FrameInv' /\ next' = s /\ slots'[SlotOf(next')] = next'
  BY <1>1, <1>2, MovedEffect
<1>4. anchored => Delta(next', next) < 0 /\ Delta(next', next) > -SlotCount
  BY <1>2, <1>3 DEF Ahead
<1>5. Delta(next', next) \in Int
  BY <1>3, FrameFacts, DeltaRange, Sizes
<1>6. QED
  BY <1>2, <1>3, <1>4, <1>5 DEF Forward, StartMoves

\* A frame inside the window, or the first one.
LEMMA PushInWindowStep ==
  ASSUME FrameInv, NEW s \in Sequences, PushInWindow(s)
  PROVE  FrameInv' /\ Forward
<1> DEFINE start == IF anchored THEN next ELSE s
<1>1. start \in Sequences
  BY FrameFacts
<1>2. Aligned(slots, start)
  BY FrameFacts DEF Aligned
<1>3. InWindow(s, start)
  BY DeltaRange, Sizes DEF InWindow, PushInWindow, Ahead
<1>4. Place(s, slots, depth, start, 0, FALSE)
  BY DEF PushInWindow
<1>5. TypeOK
  BY DEF FrameInv, BufferInv
<1>6. /\ slots \in SlotTable /\ depth = Cardinality(Held(slots)) /\ debt = depth + 0
      /\ buffering => depth < Prebuffer
      /\ 0 \in Int /\ FALSE \in BOOLEAN
  BY FrameFacts
<1> HIDE DEF start
<1>7. /\ slots' \in SlotTable /\ next' \in Sequences /\ anchored' = TRUE
      /\ depth' = Cardinality(Held(slots'))
      /\ Aligned(slots', next')
      /\ buffering' \in BOOLEAN
      /\ buffering' => depth' < Prebuffer
      /\ debt' = depth'
      /\ next' = start
  BY <1>1, <1>2, <1>3, <1>4, <1>5, <1>6, PlaceEffect, Zenon
<1>8. FrameInv'
  BY <1>7, FrameInvNext
<1>9. CASE anchored
  <2>1. next' = next
    BY <1>7, <1>9 DEF start
  <2>2. buffering' => buffering
    BY <1>4, <1>6, PlacedFrame
  <2>3. QED
    BY <1>8, <2>1, <2>2, ForwardInPlace
<1>10. CASE ~anchored
  BY <1>8, <1>10 DEF Forward
<1>11. QED
  BY <1>9, <1>10

\* A frame beyond the window.
LEMMA PushBeyondStep ==
  ASSUME FrameInv, NEW s \in Sequences, PushBeyond(s)
  PROVE  FrameInv' /\ Forward
<1> DEFINE ahead == Delta(s, next)
           start == Wrap(s - KeepFrames + 1)
<1>1. anchored /\ ahead >= SlotCount /\ ahead \in Int /\ ahead < Half
  BY FrameFacts, DeltaRange, Sizes DEF PushBeyond, Ahead
<1>2. start = Wrap(s + (1 - KeepFrames)) /\ 1 - KeepFrames \in (-Half)..(Half - 1)
  <2>1. KeepFrames \in Int /\ s \in Int /\ KeepFrames >= 1 /\ KeepFrames <= SlotCount
    BY Sizes DEF Sequences, SeqMod
  <2>2. s - KeepFrames + 1 = s + (1 - KeepFrames)
    BY <2>1
  <2>3. QED
    BY <2>1, <2>2, Sizes
<1>3. start \in Sequences
  BY <1>2, DeltaAhead
<1>4. Delta(s, start) = KeepFrames - 1
  <2>1. Delta(s, s) = 0
    BY DeltaRange
  <2>2. Delta(s, s) - (1 - KeepFrames) \in (-Half)..(Half - 1)
    BY <2>1, Sizes
  <2>3. Delta(s, start) = Delta(s, s) - (1 - KeepFrames)
    BY <1>2, <2>2, DeltaShift
  <2>4. QED
    BY <2>1, <2>3, Sizes
<1>5. InWindow(s, start)
  BY <1>4, Sizes DEF InWindow
<1>6. slots[SlotOf(s)] # s
  <2> SUFFICES ASSUME slots[SlotOf(s)] = s PROVE FALSE
    OBVIOUS
  <2>1. SlotOf(s) \in Held(slots)
    BY SlotExists, Sizes DEF Held, Sequences, SeqMod, NoFrame
  <2>2. Delta(s, next) < SlotCount
    BY <2>1, FrameFacts DEF Aligned, InWindow
  <2>3. QED
    BY <1>1, <2>2, Sizes
<1>7. Moved(s, start, TRUE)
  BY DEF PushBeyond
<1> HIDE DEF start
<1>8. /\ FrameInv' /\ slots'[SlotOf(next')] = next'
      /\ \E m \in 0..Delta(s, start) : next' = Wrap(start + m)
  BY <1>3, <1>5, <1>6, <1>7, MovedEffect
<1>9. Delta(next', next) >= Prebuffer
  <2>1. PICK m \in 0..(KeepFrames - 1) : next' = Wrap(start + m)
    BY <1>4, <1>8
  <2>2. m \in Int /\ m >= 0 /\ m < KeepFrames /\ KeepFrames \in Int /\ KeepFrames <= SlotCount
    BY Sizes
  <2>3. next' = Wrap(next + (ahead - KeepFrames + 1 + m))
    <3>1. start \in Int /\ next \in Int /\ s \in Int
      BY <1>3, FrameFacts DEF Sequences
    <3>2. QED
      BY <1>1, <1>2, <2>1, <2>2, <3>1, FrameFacts, Sizes
         DEF Delta, Wrap, Sequences, SeqMod
  <2>4. ahead - KeepFrames + 1 + m \in 0..(Half - 1)
    BY <1>1, <2>2, Sizes
  <2>5. ahead - KeepFrames + 1 + m \in (-Half)..(Half - 1)
    BY <2>4, Sizes
  <2>6. Delta(next', next) = ahead - KeepFrames + 1 + m
    BY <2>3, <2>5, FrameFacts, DeltaAhead
  <2>7. ahead - KeepFrames >= Prebuffer - 1
    BY <1>1, WindowAssumption DEF KeepFrames
  <2>8. QED
    BY <1>1, <2>2, <2>6, <2>7, Sizes
<1>10. Delta(next', next) \in Int
  BY <1>8, FrameFacts, DeltaRange, Sizes DEF FrameInv, BufferInv, TypeOK
<1>11. QED
  BY <1>8, <1>9, <1>10, Sizes DEF Forward, StartMoves

\* Any frame with a sequence number.
LEMMA PushStep ==
  ASSUME FrameInv, NEW s \in Sequences, PushSequence(s)
  PROVE  FrameInv' /\ Forward
<1>1. CASE PushLate(s)
  <2>1. UNCHANGED vars
    BY <1>1 DEF PushLate
  <2>2. FrameInv'
    BY <2>1 DEF FrameInv, BufferInv, Accounting, TypeOK, vars
  <2>3. next' = next /\ (buffering' => buffering)
    BY <2>1 DEF vars
  <2>4. QED
    BY <2>2, <2>3, ForwardInPlace
<1>2. QED
  BY <1>1, PushEarlierStep, PushInWindowStep, PushBeyondStep DEF PushSequence

\* The start moves on by one, over a frame that is delivered or missing.
LEMMA AdvanceStep ==
  ASSUME FrameInv, NEW sl \in SlotTable, NEW count, NEW owed, anchored,
         \A i \in Held(sl) : i \in Held(slots) /\ sl[i] = slots[i] /\ sl[i] # next,
         count = Cardinality(Held(sl)), owed = count,
         Advance(sl, count, owed)
  PROVE  FrameInv' /\ Forward
<1>1. 1 \in (-Half)..(Half - 1)
  BY Sizes
<1>2. next' \in Sequences /\ Delta(next', next) = 1
  BY <1>1, FrameFacts, DeltaAhead DEF Advance
<1>3. Aligned(sl, next')
  <2> SUFFICES ASSUME NEW i \in Held(sl)
               PROVE  SlotOf(sl[i]) = i /\ InWindow(sl[i], next')
    BY DEF Aligned
  <2>1. SlotOf(sl[i]) = i /\ InWindow(sl[i], next) /\ sl[i] # next
    BY FrameFacts DEF Aligned
  <2>2. sl[i] \in Sequences
    BY DEF Held, SlotTable
  <2>3. Delta(sl[i], next) \in 1..(SlotCount - 1)
    BY <2>1, <2>2, FrameFacts, DeltaRange, Sizes DEF InWindow
  <2>4. Delta(sl[i], next) - 1 \in (-Half)..(Half - 1)
    BY <2>3, Sizes
  <2>5. Delta(sl[i], next') = Delta(sl[i], next) - 1
    BY <1>1, <2>2, <2>4, FrameFacts, DeltaShift DEF Advance
  <2>6. QED
    BY <2>1, <2>3, <2>5, Sizes DEF InWindow
<1>4. /\ slots' = sl /\ depth' = count /\ debt' = owed /\ buffering' = FALSE
      /\ anchored' = anchored
  BY DEF Advance
<1>5. buffering' \in BOOLEAN /\ anchored' \in BOOLEAN
  BY <1>4, FrameFacts, Zenon
<1>6. FrameInv'
  BY <1>2, <1>3, <1>4, <1>5, FrameInvNext
<1>7. QED
  BY <1>2, <1>4, <1>6 DEF Forward, StartMoves

\* read, in each of its four ways to return.
LEMMA ReadStep ==
  ASSUME FrameInv, Read
  PROVE  FrameInv' /\ Forward
<1> DEFINE i == SlotOf(next)
<1>1. i \in Slots /\ next \in Sequences /\ next # NoFrame
  BY FrameFacts, SlotExists, Sizes DEF Sequences, SeqMod, NoFrame
<1>2. CASE ReadBuffering
  <2>1. FrameInv'
    BY <1>2 DEF ReadBuffering, FrameInv, BufferInv, Accounting, TypeOK, vars
  <2>2. next' = next /\ (buffering' => buffering)
    BY <1>2 DEF ReadBuffering, vars
  <2>3. QED
    BY <2>1, <2>2, ForwardInPlace
<1>3. CASE ReadFrame
  <2>1. slots[i] = next /\ anchored /\ Advance(Emptied, Less(depth), debt - 1)
    BY <1>3 DEF ReadFrame, Ready
  <2>2. /\ Emptied \in SlotTable /\ Held(Emptied) = Held(slots) \ {i}
        /\ Cardinality(Held(Emptied)) = Cardinality(Held(slots)) - 1
    BY <1>1, <2>1, FrameFacts, HeldAfterTake DEF Emptied
  <2>3. \A j \in Held(Emptied) : /\ j \in Held(slots) /\ Emptied[j] = slots[j]
                                 /\ Emptied[j] # next
    <3> TAKE j \in Held(Emptied)
    <3>1. j \in Held(slots) /\ j # i
      BY <2>2
    <3>2. Emptied[j] = slots[j]
      BY <3>1, FrameFacts DEF Emptied, SlotTable
    <3>3. SlotOf(slots[j]) = j
      BY <3>1, FrameFacts DEF Aligned
    <3>4. QED
      BY <3>1, <3>2, <3>3
  <2>4. Less(depth) = Cardinality(Held(Emptied)) /\ debt - 1 = Less(depth)
    <3>1. Cardinality(Held(Emptied)) \in Nat
      BY HeldFinite, Sizes
    <3>2. depth \in Nat /\ depth >= 1 /\ debt = depth
      BY <2>2, <3>1, FrameFacts
    <3>3. QED
      BY <2>2, <3>2, FrameFacts DEF Less
  <2>5. QED
    BY <2>1, <2>2, <2>3, <2>4, AdvanceStep
<1>4. CASE ReadDry
  <2>1. /\ slots' = slots /\ depth' = depth /\ anchored' = anchored /\ next' = next
        /\ debt' = debt /\ buffering' = FALSE
    BY <1>4 DEF ReadDry
  <2>2. buffering' \in BOOLEAN
    BY <2>1, Zenon
  <2>3. FrameInv'
    BY <2>1, <2>2, FrameFacts, FrameInvNext
  <2>4. QED
    BY <2>1, <2>3, ForwardInPlace
<1>5. CASE ReadMissing
  <2>1. slots[i] # next /\ anchored /\ Advance(slots, depth, debt)
    BY <1>5 DEF ReadMissing, Ready
  <2>2. \A j \in Held(slots) : slots[j] # next
    BY <2>1, FrameFacts DEF Aligned
  <2>3. QED
    BY <2>1, <2>2, FrameFacts, AdvanceStep
<1>6. QED
  BY <1>2, <1>3, <1>4, <1>5 DEF Read

\* The empty buffer of the constructor and of reset.
LEMMA EmptyHeld ==
  LET empty == [i \in Slots |-> NoFrame]
  IN  empty \in SlotTable /\ Held(empty) = {} /\ Cardinality(Held(empty)) = 0
<1>1. Held([i \in Slots |-> NoFrame]) = {}
  BY DEF Held
<1>2. QED
  BY <1>1, FS_EmptySet DEF SlotTable

\* Every step keeps the invariant and moves playout forward.
LEMMA FrameStep ==
  ASSUME FrameInv, [Next]_vars
  PROVE  FrameInv' /\ (Forward \/ UNCHANGED vars)
<1>1. CASE Push
  BY <1>1, PushStep DEF Push
<1>2. CASE PushPlain
  <2>1. depth \in (-Half)..(Half - 1)
    BY FrameFacts, Sizes
  <2>2. PlainSequence \in Sequences
    BY <2>1, FrameFacts, DeltaAhead, Sizes DEF PlainSequence, Sequences, SeqMod
  <2>3. QED
    BY <1>2, <2>2, PushStep DEF PushPlain
<1>3. CASE Read
  BY <1>3, ReadStep
<1>4. CASE Reset
  <2>1. /\ slots' = [i \in Slots |-> NoFrame] /\ depth' = 0 /\ debt' = 0 /\ next' = 0
        /\ buffering' = TRUE /\ anchored' = FALSE
    BY <1>4 DEF Reset
  <2>2. buffering' \in BOOLEAN /\ anchored' \in BOOLEAN
    BY <2>1, Zenon
  <2>3. next' \in Sequences /\ depth' < Prebuffer
    BY <2>1, Sizes DEF Sequences, SeqMod
  <2>4. Aligned(slots', next') /\ Held(slots') = {} /\ depth' = Cardinality(Held(slots'))
        /\ slots' \in SlotTable
    BY <2>1, EmptyHeld DEF Aligned
  <2>5. FrameInv'
    BY <2>1, <2>2, <2>3, <2>4, FrameInvNext
  <2>6. QED
    BY <2>1, <2>5 DEF Forward
<1>5. CASE UNCHANGED vars
  BY <1>5 DEF FrameInv, BufferInv, Accounting, TypeOK, vars
<1>6. QED
  BY <1>1, <1>2, <1>3, <1>4, <1>5 DEF Next

\* The constructor establishes the invariant.
LEMMA FrameInit == Init => FrameInv
<1> SUFFICES ASSUME Init PROVE FrameInv
  OBVIOUS
<1>1. Held(slots) = {} /\ depth = Cardinality(Held(slots)) /\ slots \in SlotTable
  BY EmptyHeld DEF Init
<1>2. TypeOK
  <2>1. buffering \in BOOLEAN /\ anchored \in BOOLEAN
    BY Zenon DEF Init
  <2>2. next \in Sequences /\ depth \in 0..SlotCount /\ debt \in Int
    BY Sizes DEF Init, Sequences, SeqMod
  <2>3. QED
    BY <1>1, <2>1, <2>2 DEF TypeOK, SlotTable
<1>3. QED
  BY <1>1, <1>2, Sizes DEF Init, FrameInv, BufferInv, Accounting

-----------------------------------------------------------------------------
(* The theorems. *)

\* FrameInv is an invariant of the buffer.
LEMMA FrameInvAlways == Spec => []FrameInv
<1>1. FrameInv /\ [Next]_vars => FrameInv'
  BY FrameStep
<1>2. QED
  BY <1>1, FrameInit, PTL DEF Spec

\* valid_count_ is the number of frames held, each in its own slot and inside the
\* window, whatever push is given.
THEOREM WindowIsSound == Spec => []BufferInv
<1>1. FrameInv => BufferInv
  BY DEF FrameInv
<1>2. QED
  BY <1>1, FrameInvAlways, PTL

\* Every frame that push accepts is delivered, held, or counted in
\* discarded_frames.
THEOREM FramesAreAccounted == Spec => []Accounting
<1>1. FrameInv => Accounting
  BY DEF FrameInv
<1>2. QED
  BY <1>1, FrameInvAlways, PTL

\* Playout goes back in a prefetch only, by less than a window and to the frame that
\* has just arrived; short of a reset only a jump ahead, of a prefetch at least,
\* starts a prefetch again.  Also across the wrap of the sequence numbers.
THEOREM PlayoutGoesBackInPrefetchOnly == Spec => PlayoutAdvances
<1>1. FrameInv /\ [Next]_vars
        => [(anchored /\ anchored')
              => /\ Delta(next', next) < 0
                      => /\ buffering /\ Delta(next', next) > -SlotCount
                         /\ slots'[SlotOf(next')] = next'
                 /\ (buffering' /\ ~buffering) => Delta(next', next) >= Prebuffer]_vars
  BY FrameStep DEF Forward, StartMoves
<1>2. QED
  BY <1>1, FrameInvAlways, PTL DEF Spec, PlayoutAdvances

\* After a jump of the stream the next frame to play is held: the jump does not
\* manufacture silence.
THEOREM JumpsFindAFrame == Spec => JumpLandsOnFrame
<1>1. FrameInv /\ [Next]_vars
        => [(anchored /\ anchored' /\ Delta(next', next) > 1)
              => slots'[SlotOf(next')] = next']_vars
  BY FrameStep DEF Forward, StartMoves
<1>2. QED
  BY <1>1, FrameInvAlways, PTL DEF Spec, JumpLandsOnFrame

=============================================================================
