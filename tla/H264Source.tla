----------------------------- MODULE H264Source -----------------------------
(***************************************************************************)
(* EspH264VideoSource: raw frames arrive on the camera's thread, wait in    *)
(* YUV slots for a persistent encoder task, and leave as access units in    *)
(* encoded slots that are lent to the RTP session.  The session starts and  *)
(* stops the source from three of its threads, one at a time               *)
(* (source_control_mutex_); the main loop shuts the source down.            *)
(*                                                                         *)
(* A generation is only ever compared with the current one, so a frame      *)
(* carries whether its generation is still current.  A slot that is         *)
(* released and the idle check that follows it are one step.  callback_ is   *)
(* set whenever the source is active, and only then used; which frames are   *)
(* key frames is left to the encoder.                                        *)
(***************************************************************************)
EXTENDS Naturals, Sequences, FiniteSets, TLC

CONSTANTS
    YuvSlots,   \* number of tx_slots_
    EncSlots,   \* encoded_slots_, in any order
    NoSlot,
    Deadlines   \* whether a wait for the idle barrier may run out

ASSUME SourceAssumption ==
    /\ YuvSlots \in Nat \ {0}
    /\ EncSlots # {} /\ NoSlot \notin EncSlots
    /\ Deadlines \in BOOLEAN

VARIABLES
    active,     \* tx_active_
    failed,     \* is_failed()
    camOn,      \* the camera delivers raw frames to this consumer
    cam,        \* the camera's thread: place, and its frame's generation is current
    ready,      \* YUV slots in state 2, oldest first: generation is current
    enc,        \* the encoder task: place, its frame's generation is current, its encoded slot
    encoded,    \* encoded_slots_: lent or being filled
    idle,       \* tx_idle_
    wakeEnc,    \* the encoder task's notification
    call,       \* who is inside start_video or stop_video, and where
    down        \* shutdown: "no", "joining", "waiting", "freed"; and loop enabled

sourceVars == <<active, failed, camOn, cam, ready, enc, encoded, idle,
                wakeEnc, call, down>>

Callers == {"control", "receiver", "lifecycle"}
NoCaller == "nobody"

HoldsYuv == enc.at \in {"check", "publish", "gate", "store", "fill", "release"}
InControl == enc.at \in {"gate", "store", "fill"}   \* control_mutex_ held
ControlFree == ~InControl

Filling == cam.at \in {"filling", "queue"}

Count(b) == IF b THEN 1 ELSE 0
YuvUsed == Len(ready) + Count(HoldsYuv) + Count(Filling)

\* tx_slots_idle_
Idle ==
    /\ cam.at \in {"out", "calling"}
    /\ YuvUsed = 0
    /\ \A e \in EncSlots : ~encoded[e]

CamRecord == [at : {"out", "calling", "gate", "filling", "queue", "leave"},
              current : BOOLEAN]
EncRecord == [at : {"look", "sleep", "check", "publish", "gate", "store", "fill", "release",
                    "ended", "joined"},
              current : BOOLEAN, slot : EncSlots \cup {NoSlot}]
CallRecord == [by : Callers \cup {NoCaller},
               at : {"none", "request", "wait", "blocked", "done"}]
DownRecord == [at : {"no", "joining", "waiting", "freed"}, loop : BOOLEAN]

SourceTypeOK ==
    /\ active \in BOOLEAN /\ failed \in BOOLEAN
    /\ camOn \in BOOLEAN
    /\ cam \in CamRecord
    /\ ready \in Seq(BOOLEAN) /\ YuvUsed <= YuvSlots
    /\ enc \in EncRecord
    /\ encoded \in [EncSlots -> BOOLEAN]
    /\ idle \in BOOLEAN /\ wakeEnc \in BOOLEAN
    /\ call \in CallRecord
    /\ down \in DownRecord

NoCall == [by |-> NoCaller, at |-> "none"]

\* setup: the task and the encoder are there, nothing is captured.
SourceInit ==
    /\ active = FALSE /\ failed = FALSE /\ camOn = FALSE
    /\ cam = [at |-> "out", current |-> FALSE]
    /\ ready = <<>>
    /\ enc = [at |-> "sleep", current |-> FALSE, slot |-> NoSlot]
    /\ encoded = [e \in EncSlots |-> FALSE]
    /\ idle = FALSE /\ wakeEnc = FALSE
    /\ call = NoCall
    /\ down = [at |-> "no", loop |-> FALSE]

ShuttingDown == down.at # "no"

\* A task that has ended takes no notification.
EncoderAlive == enc.at \notin {"ended", "joined"}

\* Variant: the main loop is not told.
AfterReleaseUntold ==
    /\ idle' = (idle \/ (~active' /\ Idle'))
    /\ UNCHANGED down

\* The tail of every release: complete the idle barrier, and wake the main loop
\* when it waits to free the buffers.
AfterRelease ==
    /\ idle' = (idle \/ (~active' /\ Idle'))
    /\ down' = [down EXCEPT !.loop = @ \/ ShuttingDown]

\* A new tx_generation_: every frame on its way is of an older one.
NewGeneration ==
    /\ ready' = [i \in DOMAIN ready |-> FALSE]
    /\ cam' = [cam EXCEPT !.current = FALSE]
    /\ enc' = [enc EXCEPT !.current = FALSE]

-----------------------------------------------------------------------------
(* consume_raw_video_frame, on the camera's thread *)

\* The camera has seen the consumer's intent and is about to call it; a stop does
\* not take that call back.
CameraCalls ==
    /\ cam.at = "out" /\ camOn
    /\ cam' = [cam EXCEPT !.at = "calling"]
    /\ UNCHANGED <<active, failed, camOn, ready, enc, encoded, idle, wakeEnc,
                   call, down>>

CameraEnters ==
    /\ cam.at = "calling"
    /\ cam' = [cam EXCEPT !.at = "gate"]
    /\ UNCHANGED <<active, failed, camOn, ready, enc, encoded, idle, wakeEnc,
                   call, down>>

\* Variant: a frame takes a slot whether one is free or not.
CameraGateFull ==
    /\ cam.at = "gate"
    /\ \/ active /\ cam' = [at |-> "filling", current |-> TRUE]
       \/ cam' = [cam EXCEPT !.at = "leave"]
    /\ UNCHANGED <<active, failed, camOn, ready, enc, encoded, idle, wakeEnc,
                   call, down>>

\* A frame in time takes a slot, if there is one.
CameraGate ==
    /\ cam.at = "gate"
    /\ \/ /\ active /\ YuvUsed < YuvSlots
          /\ cam' = [at |-> "filling", current |-> TRUE]
       \/ cam' = [cam EXCEPT !.at = "leave"]
    /\ UNCHANGED <<active, failed, camOn, ready, enc, encoded, idle, wakeEnc,
                   call, down>>

\* The callback still counts as in flight, so its own release cannot complete the
\* barrier.
CameraAbandons ==
    /\ cam.at = "filling"
    /\ cam' = [at |-> "leave", current |-> FALSE]
    /\ down' = [down EXCEPT !.loop = @ \/ ShuttingDown]
    /\ UNCHANGED <<active, failed, camOn, ready, enc, encoded, idle, wakeEnc,
                   call>>

CameraChecks ==
    /\ cam.at = "filling"
    /\ active /\ cam.current
    /\ cam' = [cam EXCEPT !.at = "queue"]
    /\ UNCHANGED <<active, failed, camOn, ready, enc, encoded, idle, wakeEnc,
                   call, down>>

\* The frame is queued whatever has happened since it was checked; behind a task
\* that has ended it keeps its slot for good.
CameraQueues ==
    /\ cam.at = "queue"
    /\ cam' = [at |-> "leave", current |-> FALSE]
    /\ ready' = Append(ready, cam.current)
    /\ wakeEnc' = EncoderAlive
    /\ UNCHANGED <<active, failed, camOn, enc, encoded, idle, call, down>>

\* finish_raw_callback_
CameraLeaves ==
    /\ cam.at = "leave"
    /\ cam' = [cam EXCEPT !.at = "out"]
    /\ UNCHANGED <<active, failed, camOn, ready, enc, encoded, wakeEnc, call>>
    /\ AfterRelease

Camera == CameraCalls \/ CameraEnters \/ CameraGate \/ CameraAbandons
          \/ CameraChecks \/ CameraQueues \/ CameraLeaves

-----------------------------------------------------------------------------
(* tx_task_ and encode_frame_, on the encoder task *)

TaskRunning == ~ShuttingDown

EncoderTakes ==
    /\ enc.at = "look" /\ TaskRunning
    /\ ready # <<>>
    /\ enc' = [enc EXCEPT !.at = "check", !.current = Head(ready)]
    /\ ready' = Tail(ready)
    /\ UNCHANGED <<active, failed, camOn, cam, encoded, idle, wakeEnc, call, down>>

EncoderSleeps ==
    /\ enc.at = "look" /\ TaskRunning
    /\ ready = <<>>
    /\ enc' = [enc EXCEPT !.at = "sleep"]
    /\ idle' = (idle \/ (~active /\ Idle))
    /\ UNCHANGED <<active, failed, camOn, cam, ready, encoded, wakeEnc, call, down>>

EncoderWakes ==
    /\ enc.at = "sleep" /\ wakeEnc
    /\ enc' = [enc EXCEPT !.at = "look"]
    /\ wakeEnc' = FALSE
    /\ UNCHANGED <<active, failed, camOn, cam, ready, encoded, idle, call, down>>

EncoderSkipsStale ==
    /\ enc.at = "check"
    /\ ~(active /\ enc.current)
    /\ enc' = [enc EXCEPT !.at = "release"]
    /\ UNCHANGED <<active, failed, camOn, cam, ready, encoded, idle, wakeEnc,
                   call, down>>

\* No encoded slot is free, or the encoder refuses.
EncoderDrops ==
    /\ enc.at = "check" /\ active /\ enc.current
    /\ enc' = [enc EXCEPT !.at = "release"]
    /\ UNCHANGED <<active, failed, camOn, cam, ready, encoded, idle, wakeEnc, call, down>>

FreeEncoded == {e \in EncSlots : ~encoded[e]}

EncoderEncodes ==
    /\ enc.at = "check" /\ active /\ enc.current
    /\ \E e \in FreeEncoded :
          /\ encoded' = [encoded EXCEPT ![e] = TRUE]
          /\ enc' = [enc EXCEPT !.at = "publish", !.slot = e]
    /\ UNCHANGED <<active, failed, camOn, cam, ready, idle, wakeEnc, call, down>>

\* The frame's generation ended while it was encoded.
EncoderDiscards ==
    /\ enc.at = "publish"
    /\ ~(active /\ enc.current)
    /\ encoded' = [encoded EXCEPT ![enc.slot] = FALSE]
    /\ enc' = [enc EXCEPT !.at = "release", !.slot = NoSlot]
    /\ UNCHANGED <<active, failed, camOn, cam, ready, idle, wakeEnc, call, down>>

\* Under control_mutex_ the access unit goes to the session's callback.
EncoderPublishes ==
    /\ enc.at = "publish"
    /\ active /\ enc.current
    /\ enc' = [enc EXCEPT !.at = "gate"]
    /\ UNCHANGED <<active, failed, camOn, cam, ready, encoded, idle, wakeEnc,
                   call, down>>

\* release_tx_slot_
EncoderReleases ==
    /\ enc.at = "release"
    /\ enc' = [enc EXCEPT !.at = "look", !.current = FALSE]
    /\ UNCHANGED <<active, failed, camOn, cam, ready, encoded, wakeEnc, call>>
    /\ AfterRelease

\* The task ends: what is queued is its own to discard.
EncoderEnds ==
    /\ enc.at \in {"look", "sleep"} /\ ~TaskRunning
    /\ enc.at = "sleep" => wakeEnc
    /\ enc' = [enc EXCEPT !.at = "ended"]
    /\ ready' = <<>>
    /\ wakeEnc' = FALSE
    /\ down' = [down EXCEPT !.loop = TRUE]
    /\ UNCHANGED <<active, failed, camOn, cam, encoded, idle, call>>

Encoder ==
    \/ EncoderTakes \/ EncoderSleeps \/ EncoderWakes \/ EncoderSkipsStale \/ EncoderDrops
    \/ EncoderEncodes \/ EncoderDiscards \/ EncoderPublishes \/ EncoderReleases \/ EncoderEnds

\* Variant: a lent slot that comes back does not complete the barrier.
ReturnSlotQuietly(e) ==
    /\ encoded' = [encoded EXCEPT ![e] = FALSE]
    /\ down' = [down EXCEPT !.loop = @ \/ ShuttingDown]
    /\ UNCHANGED idle

\* release_encoded_slot_: a lent slot comes back.  The caller states the other
\* variables of the source.
ReturnSlot(e) ==
    /\ encoded' = [encoded EXCEPT ![e] = FALSE]
    /\ AfterRelease

-----------------------------------------------------------------------------
(* start_video and stop_video, inside source_control_mutex_ *)

SourceFree == call.by = NoCaller

\* video_ready_; the capability was checked when the stream was negotiated.
Ready == ~failed /\ ~ShuttingDown /\ EncoderAlive /\ ~active

StartOk ==
    /\ SourceFree /\ ControlFree /\ Ready
    /\ NewGeneration
    /\ active' = TRUE /\ camOn' = TRUE
    /\ UNCHANGED <<failed, encoded, idle, wakeEnc, call, down>>

StartRefused == SourceFree /\ ControlFree /\ ~Ready /\ UNCHANGED sourceVars

\* The camera refuses: the start is taken back and waits for the barrier like a
\* stop.
StartWithoutCamera(by) ==
    /\ SourceFree /\ ControlFree /\ Ready
    /\ NewGeneration
    /\ idle' = FALSE /\ wakeEnc' = EncoderAlive
    /\ call' = [by |-> by, at |-> "wait"]
    /\ UNCHANGED <<active, failed, camOn, encoded, down>>

EnterStop(by) ==
    /\ SourceFree
    /\ call' = [by |-> by, at |-> "request"]
    /\ UNCHANGED <<active, failed, camOn, cam, ready, enc, encoded, idle, wakeEnc,
                   down>>

\* request_video_stop_
StopSource ==
    /\ ControlFree
    /\ camOn' = FALSE /\ active' = FALSE
    /\ IF active THEN NewGeneration ELSE UNCHANGED <<ready, cam, enc>>
    /\ idle' = FALSE /\ wakeEnc' = EncoderAlive
    /\ UNCHANGED <<failed, encoded>>

RequestVideoStop ==
    /\ call.at = "request"
    /\ StopSource
    /\ call' = [call EXCEPT !.at = "wait"]
    /\ UNCHANGED down

\* wait_for_tx_idle_
CheckBarrier ==
    /\ call.at = "wait"
    /\ call' = [call EXCEPT !.at = IF Idle THEN "done" ELSE "blocked"]
    /\ UNCHANGED <<active, failed, camOn, cam, ready, enc, encoded, idle, wakeEnc,
                   down>>

MissBarrier ==
    /\ failed' = TRUE
    /\ call' = [call EXCEPT !.at = "done"]

\* The semaphore arrives; a frame that came in since it was given makes it void.
PassBarrier ==
    /\ call.at = "blocked" /\ idle
    /\ idle' = FALSE
    /\ IF Idle THEN call' = [call EXCEPT !.at = "done"] /\ UNCHANGED failed ELSE MissBarrier
    /\ UNCHANGED <<active, camOn, cam, ready, enc, encoded, wakeEnc, down>>

BarrierDeadline ==
    /\ Deadlines
    /\ call.at = "blocked" /\ ~idle
    /\ MissBarrier
    /\ UNCHANGED <<active, camOn, cam, ready, enc, encoded, idle, wakeEnc, down>>

Barrier == RequestVideoStop \/ CheckBarrier \/ PassBarrier

\* The caller leaves source_control_mutex_.
Returned(by) == call.by = by /\ call.at = "done"
Leave ==
    /\ call' = NoCall
    /\ UNCHANGED <<active, failed, camOn, cam, ready, enc, encoded, idle, wakeEnc,
                   down>>

\* request_key_frame changes what the encoder emits next, and no state below.
RequestKeyFrame == SourceFree /\ UNCHANGED sourceVars

-----------------------------------------------------------------------------
(* on_shutdown and loop, on the main loop *)

\* The source stops and its task is told to end.
BeginShutdown ==
    /\ down.at = "no"
    /\ StopSource
    /\ down' = [down EXCEPT !.at = "joining"]
    /\ UNCHANGED call

\* reap_tx_task_ within its budget, or not at all
Reap == enc' = IF enc.at = "ended" THEN [enc EXCEPT !.at = "joined"] ELSE enc

\* finish_shutdown_ frees the buffers once the task is joined and every slot is
\* back.
FreeIfQuiet(from) ==
    IF enc'.at = "joined" /\ Idle' /\ ControlFree
    THEN down' = [at |-> "freed", loop |-> FALSE]
    ELSE down' = [at |-> "waiting", loop |-> from]

JoinTask ==
    /\ down.at = "joining" /\ ControlFree
    /\ enc.at = "ended" \/ Deadlines
    /\ Reap
    /\ UNCHANGED <<active, failed, camOn, cam, ready, encoded, idle, wakeEnc, call>>
    /\ FreeIfQuiet(down.loop)

\* Variant: the main loop frees the buffers when the task is joined.
LoopWithoutIdle ==
    /\ down.at = "waiting" /\ down.loop
    /\ Reap
    /\ UNCHANGED <<active, failed, camOn, cam, ready, encoded, idle, wakeEnc, call>>
    /\ down' = IF enc'.at = "joined" THEN [at |-> "freed", loop |-> FALSE]
                                     ELSE [down EXCEPT !.loop = FALSE]

\* loop: runs once for each wake-up.
Loop ==
    /\ down.at = "waiting" /\ down.loop /\ ControlFree
    /\ Reap
    /\ UNCHANGED <<active, failed, camOn, cam, ready, encoded, idle, wakeEnc, call>>
    /\ FreeIfQuiet(FALSE)

Shutdown == BeginShutdown \/ JoinTask \/ Loop

=============================================================================
