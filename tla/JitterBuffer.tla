---------------------------- MODULE JitterBuffer ----------------------------
(***************************************************************************)
(* RtpJitterBuffer: the window in which received audio frames are put back  *)
(* in order.  The RTP worker pushes, and resets it when the source changes; *)
(* the playout task reads; the main loop resets it between calls.  Each     *)
(* call holds the buffer's mutex and is one action.                         *)
(*                                                                         *)
(* A frame is its sequence number.  Sequence numbers are unsigned and wrap; *)
(* the code's 16 bits are Half = 2^15 here.                                 *)
(***************************************************************************)
EXTENDS Integers, FiniteSets, FiniteSetsExt

CONSTANTS
    Half,       \* half of the sequence numbers
    SlotCount,  \* slot_count_
    Prebuffer   \* prebuffer_

\* The constructor clamps both; at most 16 slots are far from half the numbers.
ASSUME WindowAssumption ==
    /\ Half \in Nat
    /\ SlotCount \in Nat /\ SlotCount < Half
    /\ Prebuffer \in 1..SlotCount

VARIABLES
    slots,      \* slots_: the sequence held, or NoFrame
    depth,      \* valid_count_
    buffering,  \* buffering_
    anchored,   \* next_sequence_valid_
    next,       \* next_sequence_
    debt        \* frames accepted, less those delivered and those counted in
                \* discarded_frames

vars == <<slots, depth, buffering, anchored, next, debt>>

SeqMod == 2 * Half
Sequences == 0..(SeqMod - 1)
NoFrame == -1
Slots == 0..(SlotCount - 1)

\* uint16_t arithmetic on the sum or difference of a sequence and a small number
\* or a sequence.
Wrap(x) == IF x < 0 THEN x + SeqMod ELSE IF x >= SeqMod THEN x - SeqMod ELSE x

\* sequence_delta_: the difference as a signed number of the same width.
Delta(s, reference) ==
    LET d == Wrap(s - reference) IN IF d >= Half THEN d - SeqMod ELSE d

SlotOf(s) == s % SlotCount

Held(sl) == {i \in Slots : sl[i] # NoFrame}

TypeOK ==
    /\ slots \in [Slots -> Sequences \cup {NoFrame}]
    /\ depth \in 0..SlotCount
    /\ buffering \in BOOLEAN
    /\ anchored \in BOOLEAN
    /\ next \in Sequences
    /\ debt \in Int

Init ==
    /\ slots = [i \in Slots |-> NoFrame]
    /\ depth = 0
    /\ buffering = TRUE
    /\ anchored = FALSE
    /\ next = 0
    /\ debt = 0

\* reset
Reset ==
    /\ slots' = [i \in Slots |-> NoFrame]
    /\ depth' = 0
    /\ buffering' = TRUE
    /\ anchored' = FALSE
    /\ next' = 0
    /\ debt' = 0

-----------------------------------------------------------------------------
(* push *)

InWindow(s, from) == Delta(s, from) >= 0 /\ Delta(s, from) < SlotCount

\* keep_window_from_
KeepWindow(sl, from) ==
    [i \in Slots |-> IF sl[i] # NoFrame /\ InWindow(sl[i], from) THEN sl[i] ELSE NoFrame]

\* Variant: the start of the window itself.
WindowStart(sl, from) == from

\* The first frame that survived a move of the window to from.
FirstHeld(sl, from) ==
    LET found == {o \in Slots : sl[SlotOf(Wrap(from + o))] = Wrap(from + o)}
    IN  IF found = {} THEN from ELSE Wrap(from + Min(found))

Less(n) == IF n > 0 THEN n - 1 ELSE n

\* Variant: a frame that is there already is counted again.
PlaceOver(s, sl, count, start, lost, realigned) ==
    /\ anchored' = TRUE
    /\ slots' = [sl EXCEPT ![SlotOf(s)] = s]
    /\ depth' = count + 1
    /\ next' = IF realigned THEN FirstHeld(slots', start) ELSE start
    /\ buffering' = (buffering /\ depth' < Prebuffer)
    /\ debt' = debt + 1 - lost

\* The frame s goes into the slots sl, which hold count frames from start on; lost
\* frames were discarded to get there.
Place(s, sl, count, start, lost, realigned) ==
    LET i == SlotOf(s)
        taken == sl[i] # NoFrame
        total == 1 + (IF taken THEN Less(count) ELSE count)
        placed == [sl EXCEPT ![i] = s]
    IN  /\ anchored' = TRUE
        /\ IF sl[i] = s
           THEN /\ slots' = sl /\ depth' = count /\ next' = start
                /\ debt' = debt - lost
                /\ UNCHANGED buffering
           ELSE /\ slots' = placed /\ depth' = total
                /\ next' = IF realigned THEN FirstHeld(placed, start) ELSE start
                /\ debt' = debt + 1 - lost - (IF taken THEN 1 ELSE 0)
                /\ buffering' = IF realigned THEN total < Prebuffer
                                ELSE buffering /\ total < Prebuffer

\* Variant: the frames that a move of the window discards are not counted.
MovedUncounted(s, start, realigned) ==
    LET sl == KeepWindow(slots, start)
    IN  Place(s, sl, Cardinality(Held(sl)), start, 0, realigned)

Moved(s, start, realigned) ==
    LET sl == KeepWindow(slots, start)
        kept == Cardinality(Held(sl))
    IN  Place(s, sl, kept, start, Cardinality(Held(slots)) - kept, realigned)

\* The first frame is the anchor.
Ahead(s) == IF anchored THEN Delta(s, next) ELSE 0

\* Late for good once playout has started, or before the window of an earlier
\* start.
PushLate(s) ==
    /\ Ahead(s) < 0
    /\ ~(buffering /\ Ahead(s) > -SlotCount)
    /\ UNCHANGED vars

\* Variant: a frame before the start is taken in at any time.
PushEarlierAnyTime(s) ==
    /\ Ahead(s) < 0
    /\ Ahead(s) > -SlotCount
    /\ Moved(s, s, FALSE)

\* Before playout has started the window moves back to an earlier frame.
PushEarlier(s) ==
    /\ Ahead(s) < 0
    /\ buffering /\ Ahead(s) > -SlotCount
    /\ Moved(s, s, FALSE)

PushInWindow(s) ==
    /\ Ahead(s) >= 0 /\ Ahead(s) < SlotCount
    /\ Place(s, slots, depth, IF anchored THEN next ELSE s, 0, FALSE)

\* A jump beyond the window moves it so that the new frame is near its end.
KeepFrames == IF SlotCount > Prebuffer THEN SlotCount - Prebuffer ELSE 1

PushBeyond(s) ==
    /\ Ahead(s) >= SlotCount
    /\ Moved(s, Wrap(s - KeepFrames + 1), TRUE)

\* A frame without RTP metadata takes the sequence behind those that are held.
PlainSequence == IF anchored THEN Wrap(next + depth) ELSE 0

PushSequence(s) == PushLate(s) \/ PushEarlier(s) \/ PushInWindow(s) \/ PushBeyond(s)

Push == \E s \in Sequences : PushSequence(s)

PushPlain == PushSequence(PlainSequence)

-----------------------------------------------------------------------------
(* read *)

Ready == anchored /\ (buffering => depth >= Prebuffer)

\* Prefetch: nothing is played yet.
ReadBuffering ==
    /\ ~Ready
    /\ UNCHANGED vars

Advance(sl, count, owed) ==
    /\ slots' = sl
    /\ depth' = count
    /\ next' = Wrap(next + 1)
    /\ buffering' = FALSE
    /\ debt' = owed
    /\ UNCHANGED anchored

Emptied == [slots EXCEPT ![SlotOf(next)] = NoFrame]

\* The reader's buffer holds every frame that push admits.
ReadFrame ==
    /\ Ready
    /\ slots[SlotOf(next)] = next
    /\ Advance(Emptied, Less(depth), debt - 1)

\* An established stream that has run dry keeps its place.
ReadDry ==
    /\ Ready
    /\ slots[SlotOf(next)] # next
    /\ depth = 0
    /\ buffering' = FALSE
    /\ UNCHANGED <<slots, depth, anchored, next, debt>>

\* Variant: the place of a missing frame is kept.
ReadMissingInPlace ==
    /\ Ready
    /\ slots[SlotOf(next)] # next
    /\ depth > 0
    /\ buffering' = FALSE
    /\ UNCHANGED <<slots, depth, anchored, next, debt>>

ReadMissing ==
    /\ Ready
    /\ slots[SlotOf(next)] # next
    /\ depth > 0
    /\ Advance(slots, depth, debt)

Read == ReadBuffering \/ ReadFrame \/ ReadDry \/ ReadMissing

Next == Push \/ PushPlain \/ Read \/ Reset

Spec == Init /\ [][Next]_vars

\* The playout task reads once per frame time.
FairSpec == Spec /\ WF_vars(Read)

-----------------------------------------------------------------------------
(* What the buffer promises. *)

\* The count is the number of frames held; each is in its own slot and inside the
\* window that starts at the next frame to play; and a buffer that prefetches
\* holds less than the prefetch.
BufferInv ==
    /\ TypeOK
    /\ depth = Cardinality(Held(slots))
    /\ \A i \in Held(slots) : SlotOf(slots[i]) = i /\ anchored /\ InWindow(slots[i], next)
    /\ buffering => depth < Prebuffer

\* "Overflow/invalid-frame events, not the number of discarded frames": the
\* frames that were accepted are delivered, held or counted in discarded_frames.
Accounting == debt = depth

\* "Once playout has started, older packets are genuinely late": the start of
\* playout goes back in a prefetch only, by less than a window and to the frame
\* that has just arrived.  Short of a reset, nothing but a jump ahead puts a buffer
\* that plays back into prefetch, and the jump skips no less than the prefetch.
\* A frame from before the jump that comes in that second prefetch may take the
\* start behind frames that have been played: the promise is kept per prefetch,
\* not per call.
PlayoutAdvances ==
    [][(anchored /\ anchored')
          => /\ Delta(next', next) < 0
                  => /\ buffering /\ Delta(next', next) > -SlotCount
                     /\ slots'[SlotOf(next')] = next'
             /\ (buffering' /\ ~buffering) => Delta(next', next) >= Prebuffer]_vars

\* "Keeping the purely mathematical window start would manufacture silence when a
\* large sequence jump arrives after a sparse queue": after a jump the next frame
\* to play is there.
JumpLandsOnFrame ==
    [][(anchored /\ anchored' /\ Delta(next', next) > 1)
          => slots'[SlotOf(next')] = next']_vars

\* While frames are held and playout runs, frames are played.
FramesArePlayed ==
    <>[](depth > 0 /\ ~buffering) => []<><<ReadFrame>>_vars

=============================================================================
