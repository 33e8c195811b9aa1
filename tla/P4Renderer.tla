----------------------------- MODULE P4Renderer -----------------------------
(***************************************************************************)
(* P4VideoRenderer, the H.264 build that draws directly on the display.     *)
(*                                                                         *)
(* Threads: the RTP receive worker, which lends access units; the decoder   *)
(* worker, which owns them, decodes and paints one of two surfaces; the     *)
(* main loop, which presents a surface and runs the UI triggers; and the    *)
(* thread that holds the media lock (start, activation, stop).              *)
(* The generations only count up and are only compared with the current     *)
(* one, so what bears a generation keeps whether it is still current.       *)
(* The pages are external: the first-frame trigger opens the video page,    *)
(* the end trigger leaves it.                                               *)
(***************************************************************************)
EXTENDS Integers, Sequences, FiniteSets, FiniteSetsExt, Functions

CONSTANTS
    Slots,      \* kH264AccessUnitQueueDepth
    Leases      \* kReceiveAccessUnitSlots of the RTP session

ASSUME RendererAssumption == {Slots, Leases} \subseteq Nat \ {0}

VARIABLES
    running,        \* rx_running_
    active,         \* rx_active_
    prepared,       \* rx_session_prepared_
    waiting,        \* waiting_for_key_frame_
    resetPending,   \* decoder_reset_pending_
    slots,          \* h264_au_slots_: state, lease, current session, no loss since, key
    queue,          \* h264_au_queue_
    lent,           \* leases the renderer has accepted and not released
    note,           \* the decoder worker's notification
    rtp,            \* the RTP worker's place in consume_video_access_unit
    worker,         \* the decoder worker: place, its slot, the surface it paints
    mutex,          \* presentation_mutex_
    pending,        \* pending_surface_, -1: none
    front,          \* front_surface_
    visible,        \* remote_frame_visible_
    pageActive,     \* direct_page_active_
    page,           \* the page on the screen
    endPending,     \* video_ended_pending_
    loopOn,         \* the main loop is enabled
    loop,           \* the main loop's place, and the surface it observed
    control         \* the media lock holder's place, and its operation

slotVars == <<slots, queue, lent>>
surfaceVars == <<mutex, pending, front>>
uiVars == <<visible, pageActive, page, endPending, loopOn, loop>>
stateVars == <<running, active, prepared, waiting, resetPending>>
vars == <<stateVars, slotVars, note, rtp, worker, surfaceVars, uiVars, control>>

None == -1
EmptySlot == [state |-> 0, lease |-> 0, session |-> FALSE, intact |-> FALSE, key |-> FALSE]
IdleRtp == [at |-> "idle", slot |-> 0, lease |-> 0, key |-> FALSE]

Init ==
    /\ running = TRUE /\ active = FALSE /\ prepared = FALSE
    /\ waiting = FALSE /\ resetPending = FALSE
    /\ slots = [i \in 1..Slots |-> EmptySlot] /\ queue = <<>> /\ lent = {}
    /\ note = FALSE
    /\ rtp = IdleRtp
    /\ worker = [at |-> "wait", slot |-> 0, target |-> 0]
    /\ mutex = "none" /\ pending = None /\ front = 0
    /\ visible = FALSE /\ pageActive = FALSE /\ page = "call"
    /\ endPending = FALSE /\ loopOn = FALSE
    /\ loop = [at |-> "idle", index |-> None, first |-> FALSE]
    /\ control = [at |-> "idle", op |-> "none", was |-> FALSE]

\* The generations move on.
Revoked(s) == [i \in 1..Slots |-> [s[i] EXCEPT !.session = FALSE, !.intact = FALSE]]
Lost(s) == [i \in 1..Slots |-> [s[i] EXCEPT !.intact = FALSE]]
NewSession == slots' = Revoked(slots)

-----------------------------------------------------------------------------
(* consume_video_access_unit, on the RTP receive worker *)

Admits(key) == running /\ active /\ prepared /\ (waiting => key)
\* Mutant: a queued slot counts as free.
FreeOrQueuedSlot == {i \in 1..Slots : slots[i].state # 2}

FreeSlot == {i \in 1..Slots : slots[i].state = 0}

\* Leases differ in name only: the first one that is not lent.
FreeLease == Min(1..Leases \ lent)

Claim(key) ==
    /\ rtp.at = "idle"
    /\ lent # 1..Leases
    /\ Admits(key) /\ FreeSlot # {}
    /\ slots' = [slots EXCEPT ![Min(FreeSlot)].state = 2]
    /\ rtp' = [at |-> "fill", slot |-> Min(FreeSlot), lease |-> FreeLease, key |-> key]
    /\ UNCHANGED <<stateVars, queue, lent, note, worker, surfaceVars, uiVars, control>>

\* The queue is full: a loss, and the lease stays the caller's.
Overflow(key) ==
    /\ rtp.at = "idle"
    /\ lent # 1..Leases
    /\ Admits(key) /\ FreeSlot = {}
    /\ slots' = Lost(slots) /\ waiting' = TRUE
    /\ UNCHANGED <<running, active, prepared, resetPending, queue, lent, note, rtp, worker,
                   surfaceVars, uiVars, control>>

\* The slot is seen by the worker through the queue, which has room for all.
Send ==
    /\ rtp.at = "fill"
    /\ slots' = [slots EXCEPT ![rtp.slot] =
            [state |-> 1, lease |-> rtp.lease, session |-> TRUE, intact |-> TRUE, key |-> rtp.key]]
    /\ lent' = lent \cup {rtp.lease}
    /\ queue' = Append(queue, rtp.slot)
    /\ rtp' = [rtp EXCEPT !.at = "open", !.slot = 0, !.lease = 0]
    /\ UNCHANGED <<stateVars, note, worker, surfaceVars, uiVars, control>>

\* A key frame opens the admission, and the worker is notified.
OpenAdmission ==
    /\ rtp.at = "open"
    /\ waiting' = (waiting /\ ~rtp.key)
    /\ rtp' = [rtp EXCEPT !.at = "notify"]
    /\ UNCHANGED <<running, active, prepared, resetPending, slotVars, note, worker, surfaceVars,
                   uiVars, control>>

\* Mutant: only a key frame wakes the worker.
NotifyForKey ==
    /\ rtp.at = "notify"
    /\ note' = (note \/ rtp.key)
    /\ rtp' = IdleRtp
    /\ UNCHANGED <<stateVars, slotVars, worker, surfaceVars, uiVars, control>>

Notify ==
    /\ rtp.at = "notify"
    /\ note' = TRUE
    /\ rtp' = IdleRtp
    /\ UNCHANGED <<stateVars, slotVars, worker, surfaceVars, uiVars, control>>

Consume ==
    \/ \E key \in BOOLEAN : Claim(key) \/ Overflow(key)
    \/ Send \/ OpenAdmission \/ Notify

-----------------------------------------------------------------------------
(* The decoder worker *)

Goes(place) == worker' = [worker EXCEPT !.at = place]
Mine == slots[worker.slot]
Current == active /\ Mine.session

WorkerWakes ==
    /\ worker.at = "wait" /\ note
    /\ note' = FALSE
    /\ Goes(IF running THEN "take" ELSE "exit")
    /\ UNCHANGED <<stateVars, slotVars, rtp, surfaceVars, uiVars, control>>

\* What is not current is only released.
WorkerTakes ==
    /\ worker.at = "take" /\ queue # <<>>
    /\ queue' = Tail(queue)
    /\ LET i == Head(queue) IN
          /\ slots' = [slots EXCEPT ![i].state = 2]
          /\ worker' = [worker EXCEPT !.slot = i,
                !.at = IF active /\ prepared /\ slots[i].session /\ slots[i].intact
                       THEN "decode" ELSE "release"]
    /\ UNCHANGED <<stateVars, lent, note, rtp, surfaceVars, uiVars, control>>

WorkerDrained ==
    /\ worker.at = "take" /\ queue = <<>>
    /\ Goes(IF running THEN "wait" ELSE "exit")
    /\ UNCHANGED <<stateVars, slotVars, note, rtp, surfaceVars, uiVars, control>>

\* A recovery IDR resets the decoder; a decoder that cannot be reset ends the
\* worker.
WorkerResets ==
    /\ worker.at = "decode" /\ Mine.key /\ resetPending
    /\ resetPending' = FALSE
    /\ \/ UNCHANGED <<running, worker>>
       \/ running' = FALSE /\ Goes("release")
    /\ UNCHANGED <<active, prepared, waiting, slotVars, note, rtp, surfaceVars, uiVars, control>>

\* One access unit: revoked, undecodable, no picture to show, or a picture.
WorkerDecodes ==
    /\ worker.at = "decode" /\ ~(Mine.key /\ resetPending)
    /\ \/ ~(running /\ Current) /\ Goes("settle")
       \/ running /\ Current /\ \E place \in {"failed", "settle", "render"} : Goes(place)
    /\ UNCHANGED <<stateVars, slotVars, note, rtp, surfaceVars, uiVars, control>>

WorkerFails ==
    /\ worker.at = "failed"
    /\ slots' = Lost(slots)
    /\ waiting' = TRUE /\ resetPending' = TRUE
    /\ Goes("release")
    /\ UNCHANGED <<running, active, prepared, queue, lent, note, rtp, surfaceVars, uiVars, control>>

\* Mutant: a picture that waits is not looked for.
WorkerRendersAlways ==
    /\ worker.at = "render"
    /\ worker' = [worker EXCEPT !.at = "paint", !.target = 1 - front]
    /\ UNCHANGED <<stateVars, slotVars, note, rtp, surfaceVars, uiVars, control>>

\* render_i420_: no picture while one waits; the back surface is painted.
WorkerRenders ==
    /\ worker.at = "render"
    /\ IF pending = None
       THEN worker' = [worker EXCEPT !.at = "paint", !.target = 1 - front]
       ELSE Goes("settle")
    /\ UNCHANGED <<stateVars, slotVars, note, rtp, surfaceVars, uiVars, control>>

\* The mutex is taken without waiting and the session checked again.
WorkerLocks ==
    /\ worker.at = "paint"
    /\ IF Current /\ mutex = "none"
       THEN mutex' = "worker" /\ Goes("publish")
       ELSE worker' = [worker EXCEPT !.at = "settle", !.target = 0] /\ UNCHANGED mutex
    /\ UNCHANGED <<stateVars, slotVars, note, rtp, pending, front, uiVars, control>>

WorkerPublishes ==
    /\ worker.at = "publish"
    /\ pending' = worker.target
    /\ Goes("present")
    /\ UNCHANGED <<stateVars, slotVars, note, rtp, mutex, front, uiVars, control>>

\* present_surface_direct_: the layout may have changed meanwhile.
Draw(i) ==
    /\ pending = i
    /\ pending' = None
    /\ front' = i

WorkerPresents ==
    /\ worker.at = "present"
    /\ \/ pageActive /\ Draw(worker.target) /\ UNCHANGED loopOn
       \/ loopOn' = TRUE /\ UNCHANGED <<pending, front>>
    /\ mutex' = "none"
    /\ worker' = [worker EXCEPT !.at = "settle", !.target = 0]
    /\ UNCHANGED <<stateVars, slotVars, note, rtp, visible, pageActive, page, endPending,
                   loop, control>>

\* Admission stays open only if nothing invalidated this picture's group.
WorkerSettles ==
    /\ worker.at = "settle"
    /\ Goes(IF Mine.session /\ Mine.intact THEN "admit" ELSE "release")
    /\ UNCHANGED <<stateVars, slotVars, note, rtp, surfaceVars, uiVars, control>>

WorkerAdmits ==
    /\ worker.at = "admit"
    /\ waiting' = FALSE
    /\ Goes("release")
    /\ UNCHANGED <<running, active, prepared, resetPending, slotVars, note, rtp, surfaceVars,
                   uiVars, control>>

\* Mutant: only a current unit is released.
WorkerReleasesCurrent ==
    /\ worker.at = "release"
    /\ lent' = IF Mine.session THEN lent \ {Mine.lease} ELSE lent
    /\ slots' = [slots EXCEPT ![worker.slot] = [EmptySlot EXCEPT !.state = 2]]
    /\ Goes("free")
    /\ UNCHANGED <<stateVars, queue, note, rtp, surfaceVars, uiVars, control>>

\* The lease goes back before the slot is free again.
WorkerReleases ==
    /\ worker.at = "release"
    /\ lent' = lent \ {Mine.lease}
    /\ slots' = [slots EXCEPT ![worker.slot] = [EmptySlot EXCEPT !.state = 2]]
    /\ Goes("free")
    /\ UNCHANGED <<stateVars, queue, note, rtp, surfaceVars, uiVars, control>>

WorkerFrees ==
    /\ worker.at = "free"
    /\ slots' = [slots EXCEPT ![worker.slot] = EmptySlot]
    /\ worker' = [worker EXCEPT !.at = "take", !.slot = 0]
    /\ UNCHANGED <<stateVars, queue, lent, note, rtp, surfaceVars, uiVars, control>>

\* What is queued is released with the worker.
WorkerExits ==
    /\ worker.at = "exit"
    /\ lent' = lent \ {slots[i].lease : i \in 1..Slots}
    /\ slots' = [i \in 1..Slots |-> EmptySlot]
    /\ Goes("done")
    /\ UNCHANGED <<stateVars, queue, note, rtp, surfaceVars, uiVars, control>>

Worker ==
    \/ WorkerWakes \/ WorkerTakes \/ WorkerDrained \/ WorkerResets \/ WorkerDecodes
    \/ WorkerFails \/ WorkerRenders \/ WorkerLocks \/ WorkerPublishes \/ WorkerPresents
    \/ WorkerSettles \/ WorkerAdmits \/ WorkerReleases \/ WorkerFrees \/ WorkerExits

-----------------------------------------------------------------------------
(* The main loop *)

\* The wake-up is consumed first; an ended stream runs its trigger.
LoopBegins ==
    /\ loop.at = "idle" /\ loopOn
    /\ loopOn' = FALSE
    /\ endPending' = FALSE
    /\ page' = IF endPending THEN "call" ELSE page
    /\ loop' = [loop EXCEPT !.at = "lock"]
    /\ UNCHANGED <<stateVars, slotVars, note, rtp, worker, surfaceVars, visible, pageActive, control>>

LoopBlocked ==
    /\ loop.at = "lock" /\ mutex # "none"
    /\ loopOn' = TRUE
    /\ loop' = [loop EXCEPT !.at = "idle"]
    /\ UNCHANGED <<stateVars, slotVars, note, rtp, worker, surfaceVars, visible, pageActive, page,
                   endPending, control>>

LoopLocks ==
    /\ loop.at = "lock" /\ mutex = "none"
    /\ IF running /\ active /\ pending # None
       THEN /\ mutex' = "loop"
            /\ loop' = [loop EXCEPT !.at = "mark", !.index = pending]
       ELSE loop' = [loop EXCEPT !.at = "idle"] /\ UNCHANGED mutex
    /\ UNCHANGED <<stateVars, slotVars, note, rtp, worker, pending, front, visible,
                   pageActive, page, endPending, loopOn, control>>

\* The first picture is what opens the page.
LoopMarks ==
    /\ loop.at = "mark"
    /\ visible' = TRUE
    /\ pageActive' = (page = "video")
    /\ loop' = [loop EXCEPT !.at = "draw", !.first = ~visible]
    /\ UNCHANGED <<stateVars, slotVars, note, rtp, worker, surfaceVars, page, endPending, loopOn,
                   control>>

\* A picture that is not drawn is dropped.
LoopDraws ==
    /\ loop.at = "draw"
    /\ \/ pageActive /\ Draw(loop.index)
       \/ /\ pending' = IF pending = loop.index THEN None ELSE pending
          /\ UNCHANGED front
    /\ mutex' = "none"
    /\ loop' = [loop EXCEPT !.at = "trigger"]
    /\ UNCHANGED <<stateVars, slotVars, note, rtp, worker, visible, pageActive, page,
                   endPending, loopOn, control>>

LoopEnds ==
    /\ loop.at = "trigger"
    /\ page' = IF loop.first /\ active /\ visible THEN "video" ELSE page
    /\ loop' = [at |-> "idle", index |-> None, first |-> FALSE]
    /\ UNCHANGED <<stateVars, slotVars, note, rtp, worker, surfaceVars, visible, pageActive,
                   endPending, loopOn, control>>

MainLoop == LoopBegins \/ LoopBlocked \/ LoopLocks \/ LoopMarks \/ LoopDraws \/ LoopEnds

-----------------------------------------------------------------------------
(* Control *)

Does(place) == control' = [control EXCEPT !.at = place]

\* start_video, followed by set_video_active(false).  The RTP worker of the
\* last session has been joined.
StartVideo ==
    /\ control.at = "idle" /\ rtp.at = "idle"
    /\ running /\ ~prepared
    /\ prepared' = TRUE /\ active' = FALSE /\ waiting' = TRUE
    /\ NewSession
    /\ note' = TRUE /\ visible' = FALSE
    /\ control' = [at |-> "revoke", op |-> "start", was |-> FALSE]
    /\ UNCHANGED <<running, resetPending, queue, lent, rtp, worker, mutex, pending, front,
                   pageActive, page, endPending, loopOn, loop>>

\* set_video_active(true) opens the gate before it asks for a key frame.
Activate ==
    /\ control.at = "idle" /\ ~active
    /\ running /\ prepared
    /\ active' = TRUE
    /\ Does("key")
    /\ UNCHANGED <<running, prepared, waiting, resetPending, slotVars, note, rtp, worker,
                   surfaceVars, uiVars>>

AskKey ==
    /\ control.at = "key"
    /\ waiting' = TRUE
    /\ Does("idle")
    /\ UNCHANGED <<running, active, prepared, resetPending, slotVars, note, rtp, worker,
                   surfaceVars, uiVars>>

\* set_video_active(false), for a change of direction.
Deactivate ==
    /\ control.at = "idle" /\ active
    /\ active' = FALSE
    /\ control' = [at |-> "revoke", op |-> "deactivate", was |-> FALSE]
    /\ UNCHANGED <<running, prepared, waiting, resetPending, slotVars, note, rtp, worker,
                   surfaceVars, uiVars>>

\* stop_video, after the RTP worker was joined.
StopVideo ==
    /\ control.at = "idle" /\ rtp.at = "idle" /\ prepared
    /\ pageActive' = FALSE
    /\ active' = FALSE
    /\ control' = [at |-> "revoke", op |-> "stop", was |-> FALSE]
    /\ UNCHANGED <<running, prepared, waiting, resetPending, slotVars, note, rtp, worker,
                   surfaceVars, visible, page, endPending, loopOn, loop>>

Revoke ==
    /\ control.at = "revoke"
    /\ active' = FALSE /\ waiting' = TRUE
    /\ NewSession
    /\ note' = TRUE
    /\ visible' = FALSE
    /\ control' = [control EXCEPT !.at = "clear", !.was = visible]
    /\ UNCHANGED <<running, prepared, resetPending, queue, lent, rtp, worker, mutex, pending, front,
                   pageActive, page, endPending, loopOn, loop>>

\* Mutant: nobody is told.
ClearBusySilently ==
    /\ control.at = "clear" /\ mutex # "none"
    /\ Does("finish")
    /\ UNCHANGED <<stateVars, slotVars, note, rtp, worker, surfaceVars, uiVars>>

\* The mutex is not waited for: the main loop is told instead.
ClearBusy ==
    /\ control.at = "clear" /\ mutex # "none"
    /\ endPending' = TRUE /\ loopOn' = TRUE
    /\ Does("finish")
    /\ UNCHANGED <<stateVars, slotVars, note, rtp, worker, surfaceVars, visible, pageActive, page,
                   loop>>

Clear ==
    /\ control.at = "clear" /\ mutex = "none"
    /\ pending' = None
    /\ endPending' = (endPending \/ control.was) /\ loopOn' = (loopOn \/ control.was)
    /\ Does("finish")
    /\ UNCHANGED <<stateVars, slotVars, note, rtp, worker, mutex, front, visible, pageActive,
                   page, loop>>

Finish ==
    /\ control.at = "finish"
    /\ prepared' = (prepared /\ control.op # "stop")
    /\ control' = [at |-> "idle", op |-> "none", was |-> FALSE]
    /\ UNCHANGED <<running, active, waiting, resetPending, slotVars, note, rtp, worker, surfaceVars,
                   uiVars>>

\* on_shutdown, on the main loop, up to the wait for the worker.
Shutdown ==
    /\ running /\ loop.at = "idle"
    /\ prepared' = FALSE /\ active' = FALSE /\ running' = FALSE
    /\ NewSession
    /\ note' = TRUE
    /\ UNCHANGED <<waiting, resetPending, queue, lent, rtp, worker, mutex, pending, front, uiVars,
                   control>>

Control ==
    \/ StartVideo \/ Activate \/ AskKey \/ Deactivate \/ StopVideo
    \/ Revoke \/ ClearBusy \/ Clear \/ Finish \/ Shutdown

-----------------------------------------------------------------------------

Next == Consume \/ Worker \/ MainLoop \/ Control

Spec == Init /\ [][Next]_vars

\* The places of consume_video_access_unit, of the decoder worker, of the main loop
\* and of the media lock holder.
RtpPlaces == {"idle", "fill", "open", "notify"}
HoldingPlaces == {"decode", "failed", "settle", "render", "paint", "publish", "present", "admit",
                  "release", "free"}
WorkerPlaces == HoldingPlaces \cup {"wait", "take", "exit", "done"}
LoopPlaces == {"idle", "lock", "mark", "draw", "trigger"}
ControlPlaces == {"idle", "key", "revoke", "clear", "finish"}

SlotRecord == [state : 0..2, lease : 0..Leases, session : BOOLEAN, intact : BOOLEAN, key : BOOLEAN]
RtpRecord == [at : RtpPlaces, slot : 0..Slots, lease : 0..Leases, key : BOOLEAN]
WorkerRecord == [at : WorkerPlaces, slot : 0..Slots, target : {0, 1}]
LoopRecord == [at : LoopPlaces, index : {None, 0, 1}, first : BOOLEAN]
ControlRecord == [at : ControlPlaces, op : {"none", "start", "deactivate", "stop"}, was : BOOLEAN]

TypeOK ==
    /\ {running, active, prepared, waiting, resetPending, note, visible, pageActive, endPending,
        loopOn} \subseteq BOOLEAN
    /\ slots \in [1..Slots -> SlotRecord]
    /\ queue \in Seq(1..Slots) /\ Len(queue) <= Slots
    /\ lent \subseteq 1..Leases
    /\ mutex \in {"none", "worker", "loop"}
    /\ pending \in {None, 0, 1} /\ front \in {0, 1}
    /\ page \in {"call", "video"}
    /\ rtp \in RtpRecord /\ worker \in WorkerRecord
    /\ loop \in LoopRecord /\ control \in ControlRecord

\* Every access unit the renderer accepted is held by one slot and one slot
\* holds nothing else (h264_au_slots_): none is lost while its place is reused,
\* none is decoded after it went back to the RTP session.
LeasesHeldOnce ==
    worker.at # "done" =>
        /\ \A l \in lent : Cardinality({i \in 1..Slots : slots[i].lease = l}) = 1
        /\ \A i \in 1..Slots : slots[i].lease # 0 => slots[i].lease \in lent

\* The decoder paints a surface that neither the display shows nor the main
\* loop is about to show (pending_surface_, front_surface_).
PaintsBackSurface ==
    worker.at \in {"paint", "publish"} =>
        /\ worker.target # front /\ worker.target # pending
        /\ ~(loop.at \in {"mark", "draw"} /\ loop.index = worker.target /\ pending = loop.index)

\* A video page that outlives its stream is about to be left: the end trigger
\* is due and the loop is on to run it, whoever held presentation_mutex_.
EndIsReported ==
    page = "video" /\ ~active /\ control.at = "idle" /\ running => endPending /\ loopOn

\* The decoder worker never sleeps on a queue that holds an access unit without
\* being notified: a full slot table would refuse every later unit.
QueueWakesWorker ==
    worker.at = "wait" /\ queue # <<>> => note \/ rtp.at \in {"open", "notify"}

\* Access units pass through the renderer: each has one place, and none stays
\* there because nobody was told.
UnitsPassThrough == TypeOK /\ LeasesHeldOnce /\ QueueWakesWorker

-----------------------------------------------------------------------------
(* What every step preserves, and the properties follow from. *)

Filling(i) == rtp.at = "fill" /\ rtp.slot = i
Holding(i) == worker.at \in HoldingPlaces /\ worker.slot = i
Queued(i) == i \in Range(queue)

\* A slot is the RTP worker's, the decoder worker's, the queue's or nobody's, and its
\* state says so, until the worker has left.
SlotsHaveOneOwner ==
    /\ worker.at \in {"exit", "done"} => ~running
    /\ rtp.at = "fill" => rtp.slot \in 1..Slots /\ rtp.lease \in (1..Leases) \ lent
    /\ worker.at \in HoldingPlaces => worker.slot \in 1..Slots
    /\ IsInjective(queue)
    /\ \A i \in 1..Slots :
          /\ Filling(i) => ~Queued(i) /\ ~Holding(i)
          /\ Holding(i) => ~Queued(i)
    /\ worker.at # "done" => \A i \in 1..Slots :
          /\ slots[i].state = 0 <=> ~Filling(i) /\ ~Holding(i) /\ ~Queued(i)
          /\ slots[i].state = 1 <=> Queued(i)
          /\ slots[i].lease # 0 <=> Queued(i) \/ (Holding(i) /\ worker.at # "free")

\* The leases in the slots and the leases that are out are the same, each in one slot.
LeasesInSlots ==
    worker.at # "done" =>
        /\ \A l \in lent : \E i \in 1..Slots : slots[i].lease = l
        /\ \A i \in 1..Slots : slots[i].lease # 0 => slots[i].lease \in lent
        /\ \A i, j \in 1..Slots : slots[i].lease # 0 /\ slots[i].lease = slots[j].lease => i = j

\* Between the look at pending_surface_ and the publication the other surface is the
\* front one and nothing else becomes pending.
BackSurfaceReserved ==
    /\ worker.at \in {"paint", "publish"} => pending = None /\ worker.target = 1 - front
    /\ loop.at \in {"mark", "draw"} => loop.index \in {0, 1}

\* While the video page shows and its end is not reported, the stream is active or the
\* media lock holder is on the way to report it.
EndOnItsWay ==
    running =>
        /\ active => prepared /\ control.at \notin {"revoke", "clear", "finish"}
        /\ page = "video" /\ ~(endPending /\ loopOn) =>
              \/ control.at \in {"idle", "key"} /\ active /\ visible
              \/ control.at = "revoke" /\ visible
              \/ control.at = "clear" /\ control.was

RendererInv ==
    TypeOK /\ SlotsHaveOneOwner /\ LeasesInSlots /\ BackSurfaceReserved /\ EndOnItsWay
    /\ QueueWakesWorker

=============================================================================
