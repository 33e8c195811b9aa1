---------------------------- MODULE VideoSession ----------------------------
(***************************************************************************)
(* VideoRtpSession, the sending half and the life of its tasks, composed    *)
(* with the H.264 source it lends its queue to.                             *)
(*                                                                         *)
(* Threads: the one that holds the media lock (control: start, direction    *)
(* changes); anyone's request_stop; the lifecycle worker (stop); the        *)
(* receive worker, whose exit also stops the source; the sender task; the   *)
(* encoder task, which queues access units; the camera; the audio sender.   *)
(* request_stop is one step, as is the clearing of one queue.               *)
(***************************************************************************)
EXTENDS H264Source

CONSTANTS
    TxSlots,    \* kTxAccessUnitSlots
    Pacing      \* USE_ESPHOME_VOIP_STACK_VIDEO_HOSTED_AUDIO_PACING

ASSUME SessionAssumption == TxSlots \in Nat \ {0} /\ Pacing \in BOOLEAN

VARIABLES
    running,        \* running_
    terminate,      \* terminate_
    sendOn,         \* send_enabled_
    prepared,       \* send_prepared_
    sourceStarted,  \* source_started_
    sockets,        \* the sockets are open
    senderOn,       \* sender_running_
    sender,         \* the sender task's place; "none": joined
    wakeSender,     \* its notification
    queue,          \* tx_access_units_: state, and the encoded slot it holds
    rd, wr,         \* tx_read_slot_, tx_write_slot_
    resync,         \* tx_resync_needed_
    paced,          \* audio_pacing_started_
    credit,         \* audio_pacing_
    receiver,       \* the receive worker's place; "none": joined
    direction,      \* who holds direction_mutex_
    control,        \* the media-lock holder's place, and the direction it wants
    life            \* the lifecycle worker's place in stop, and what it joined

sessionVars == <<running, terminate, sendOn, prepared, sourceStarted, sockets>>
taskVars == <<senderOn, sender, wakeSender, queue, rd, wr, resync, paced, credit>>
vars == <<sourceVars, sessionVars, taskVars, receiver, direction, control, life>>

Txs == 0..(TxSlots - 1)
Free == [state |-> "free", slot |-> NoSlot]
NextTx(i) == (i + 1) % TxSlots

\* A task that has ended takes no notification.
SenderAlive == sender \notin {"none", "done"}

TypeOK ==
    /\ SourceTypeOK
    /\ {running, terminate, sendOn, prepared, sourceStarted, sockets, senderOn,
        wakeSender, resync, paced, credit} \subseteq BOOLEAN
    /\ sender \in {"none", "wait", "take", "send", "pacing", "wire", "resync", "done"}
    /\ queue \in [Txs -> [state : {"free", "filling", "ready", "owned"},
                          slot : EncSlots \cup {NoSlot}]]
    /\ rd \in Txs /\ wr \in Txs
    /\ receiver \in {"none", "loop", "exit", "stopping", "finish", "done"}
    /\ direction \in {NoCaller, "control", "receiver"}
    /\ control \in [at : {"idle", "starting", "source", "started", "stop", "stopping", "final",
                          "store", "undo", "undoing"},
                    want : BOOLEAN]
    /\ life \in [at : {"idle", "stopping", "sender", "receiver"},
                 joined : BOOLEAN]

Init ==
    /\ SourceInit
    /\ running = FALSE /\ terminate = FALSE /\ sendOn = FALSE /\ prepared = FALSE
    /\ sourceStarted = FALSE /\ sockets = FALSE
    /\ senderOn = FALSE /\ sender = "none" /\ wakeSender = FALSE
    /\ queue = [i \in Txs |-> Free] /\ rd = 0 /\ wr = 0
    /\ resync = FALSE /\ paced = FALSE /\ credit = FALSE
    /\ receiver = "none"
    /\ direction = NoCaller
    /\ control = [at |-> "idle", want |-> FALSE]
    /\ life = [at |-> "idle", joined |-> FALSE]

-----------------------------------------------------------------------------
(* queue_access_unit_, called by the encoder task under control_mutex_ *)

Open == running /\ senderOn /\ sendOn

\* The callback returns to the encoder.
CallbackDone == enc' = [enc EXCEPT !.at = "release", !.slot = NoSlot]

\* The input is released at once.
TurnAway ==
    /\ CallbackDone
    /\ UNCHANGED <<active, failed, camOn, cam, ready, wakeEnc, call, queue, rd, wr,
                   senderOn, sender, paced, credit, sessionVars, receiver, direction, control,
                   life>>
    /\ ReturnSlot(enc.slot)

QueueClosed ==
    /\ enc.at = "gate" /\ ~Open
    /\ TurnAway
    /\ UNCHANGED <<resync, wakeSender>>

QueueOversize ==
    /\ enc.at = "gate" /\ Open
    /\ resync' = TRUE /\ wakeSender' = SenderAlive
    /\ TurnAway

\* Only a key frame ends a resynchronisation.
QueueAwaitsKey ==
    /\ enc.at = "gate" /\ Open
    /\ resync
    /\ TurnAway
    /\ UNCHANGED <<resync, wakeSender>>

QueueAdmits ==
    /\ enc.at = "gate" /\ Open
    /\ enc' = [enc EXCEPT !.at = "store"]
    /\ UNCHANGED <<active, failed, camOn, cam, ready, encoded, idle, wakeEnc, call,
                   down, sessionVars, taskVars, receiver, direction, control, life>>

\* Nobody is told of this drop.
QueueDrops ==
    /\ enc.at = "store"
    /\ queue[wr].state # "free"
    /\ resync' = TRUE
    /\ TurnAway
    /\ UNCHANGED wakeSender

QueueFills ==
    /\ enc.at = "store"
    /\ queue[wr].state = "free"
    /\ queue' = [queue EXCEPT ![wr] = [state |-> "filling", slot |-> enc.slot]]
    /\ enc' = [enc EXCEPT !.at = "fill"]
    /\ UNCHANGED <<active, failed, camOn, cam, ready, encoded, idle, wakeEnc, call,
                   down, sessionVars, senderOn, sender, wakeSender, rd, wr, resync, paced, credit,
                   receiver, direction, control, life>>

QueuePublishes ==
    /\ enc.at = "fill"
    /\ queue' = [queue EXCEPT ![wr].state = "ready"]
    /\ wr' = NextTx(wr)
    /\ resync' \in {FALSE, resync}
    /\ wakeSender' = SenderAlive
    /\ CallbackDone
    /\ UNCHANGED <<active, failed, camOn, cam, ready, encoded, idle, wakeEnc, call,
                   down, sessionVars, senderOn, sender, rd, paced, credit, receiver, direction,
                   control, life>>

Queueing == QueueClosed \/ QueueOversize \/ QueueAwaitsKey \/ QueueAdmits
            \/ QueueDrops \/ QueueFills \/ QueuePublishes

-----------------------------------------------------------------------------
(* sender_task_ *)

SenderGoes(place) ==
    /\ sender' = place
    /\ UNCHANGED <<sessionVars, senderOn, wr, receiver, direction, control, life>>

SenderWakes ==
    /\ sender = "wait" /\ wakeSender
    /\ wakeSender' = FALSE
    /\ SenderGoes(IF senderOn THEN "take" ELSE "done")
    /\ UNCHANGED <<sourceVars, queue, rd, resync, paced, credit>>

SenderTakes ==
    /\ sender = "take" /\ senderOn
    /\ queue[rd].state = "ready"
    /\ queue' = [queue EXCEPT ![rd].state = "owned"]
    /\ SenderGoes("send")
    /\ UNCHANGED <<sourceVars, wakeSender, rd, resync, paced, credit>>

\* The inner loop ends, and with it the wish for a key frame is read; a queue that
\* is told to stop keeps what is ready.
NextRound == IF senderOn THEN "wait" ELSE "done"

SenderDrained ==
    /\ sender = "take"
    /\ ~senderOn \/ queue[rd].state # "ready"
    /\ SenderGoes(IF resync THEN "resync" ELSE NextRound)
    /\ wakeSender' = (wakeSender /\ SenderAlive')
    /\ UNCHANGED <<sourceVars, queue, rd, resync, paced, credit>>

\* Variant: an access unit that was not sent is not given back.
FreeSentSlot ==
    /\ queue' = [queue EXCEPT ![rd] = Free]
    /\ rd' = NextTx(rd)
    /\ SenderGoes("take")
    /\ UNCHANGED <<active, failed, camOn, cam, ready, enc, wakeEnc, call,
                   wakeSender, paced>>
    /\ IF running THEN ReturnSlot(queue[rd].slot) ELSE UNCHANGED <<encoded, idle, down>>

\* The access unit goes back to the source and its slot to the queue.
FreeSlot ==
    /\ queue' = [queue EXCEPT ![rd] = Free]
    /\ rd' = NextTx(rd)
    /\ SenderGoes("take")
    /\ UNCHANGED <<active, failed, camOn, cam, ready, enc, wakeEnc, call,
                   wakeSender, paced>>
    /\ ReturnSlot(queue[rd].slot)

\* send_access_unit_ and the first test of wait_for_audio_pacing_, which waits once
\* a first audio packet was sent.
Admitted == running /\ sendOn /\ (Pacing => paced \/ senderOn)

SenderDiscards ==
    /\ sender = "send" /\ ~Admitted
    /\ FreeSlot
    /\ UNCHANGED <<resync, credit>>

SenderBegins ==
    /\ sender = "send" /\ Admitted
    /\ SenderGoes(IF Pacing /\ paced THEN "pacing" ELSE "wire")
    /\ UNCHANGED <<sourceVars, wakeSender, queue, rd, resync, paced, credit>>

\* It has no deadline.
SenderPaced ==
    /\ sender = "pacing" /\ credit
    /\ credit' = FALSE
    /\ IF Open THEN SenderGoes("wire") /\ UNCHANGED <<sourceVars, wakeSender, queue, rd, paced>>
               ELSE FreeSlot
    /\ UNCHANGED resync

\* send_rtp_payload_ puts no packet on a session or on sockets that are closed.
OnWire == running /\ sendOn /\ sockets

\* send_h264_access_unit_: all of its packets leave, or the stream needs a key frame.
SenderSends ==
    /\ sender = "wire"
    /\ \/ OnWire /\ UNCHANGED resync
       \/ resync' = TRUE
    /\ FreeSlot
    /\ UNCHANGED credit

\* A key frame is asked for under source_control_mutex_.
SenderResyncs ==
    /\ sender = "resync"
    /\ RequestKeyFrame
    /\ SenderGoes(NextRound)
    /\ wakeSender' = (wakeSender /\ SenderAlive')
    /\ UNCHANGED <<queue, rd, resync, paced, credit>>

Sender == SenderWakes \/ SenderTakes \/ SenderDrained \/ SenderDiscards \/ SenderBegins
          \/ SenderPaced \/ SenderSends \/ SenderResyncs

\* notify_audio_packet_sent
AudioSent ==
    /\ Pacing /\ Open
    /\ paced' = TRUE /\ credit' = TRUE
    /\ UNCHANGED <<sourceVars, sessionVars, senderOn, sender, wakeSender, queue, rd, wr, resync,
                   receiver, direction, control, life>>

-----------------------------------------------------------------------------
(* request_stop *)

\* Variant: the sender is not called back from its wait for audio.
GateWithoutCredit ==
    /\ running' = FALSE /\ terminate' = TRUE /\ sendOn' = FALSE /\ senderOn' = FALSE
    /\ wakeSender' = SenderAlive
    /\ paced' = FALSE /\ credit' = FALSE

Gate ==
    /\ running' = FALSE /\ terminate' = TRUE /\ sendOn' = FALSE /\ senderOn' = FALSE
    /\ wakeSender' = SenderAlive
    /\ paced' = FALSE /\ credit' = Pacing

\* Anyone who ends the call or finds it failing; start holds the media lock.
RequestStop ==
    /\ control.at # "starting" /\ ~terminate
    /\ Gate
    /\ UNCHANGED <<sourceVars, prepared, sourceStarted, sockets, sender, queue, rd,
                   wr, resync, receiver, direction, control, life>>

-----------------------------------------------------------------------------
(* start *)

\* Every task of the session before is joined now, or start refuses.
Reaped == sender \in {"none", "done"} /\ receiver \in {"none", "done"}

StartSession ==
    /\ control.at = "idle" /\ life.at = "idle"
    /\ ~running /\ Reaped /\ Ready
    /\ running' = TRUE /\ terminate' = FALSE /\ sendOn' = FALSE /\ prepared' = FALSE
    /\ sourceStarted' = FALSE /\ sockets' = TRUE
    /\ paced' = FALSE /\ credit' = FALSE
    /\ sender' = "none"
    /\ receiver' = "loop"
    /\ control' = [control EXCEPT !.at = "starting"]
    /\ UNCHANGED <<sourceVars, senderOn, wakeSender, queue, rd, wr, resync, direction, life>>

\* What every queue slot held goes back to the source.
ClearQueue ==
    /\ encoded' = [e \in EncSlots |-> encoded[e] /\ \A i \in Txs : queue[i].slot # e]
    /\ queue' = [i \in Txs |-> Free]
    /\ UNCHANGED <<active, failed, camOn, cam, ready, enc, wakeEnc, call>>
    /\ IF encoded' # encoded THEN AfterRelease ELSE UNCHANGED <<idle, down>>

\* start_sender_task_
StartSender ==
    /\ control.at = "starting"
    /\ ClearQueue
    /\ rd' = 0 /\ wr' = 0 /\ resync' = FALSE
    /\ senderOn' = TRUE /\ sender' = "wait" /\ wakeSender' = FALSE
    /\ prepared' = TRUE
    /\ control' = [control EXCEPT !.at = "idle"]
    /\ UNCHANGED <<running, terminate, sendOn, sourceStarted, sockets, paced, credit, receiver,
                   direction, life>>

\* The sink or the sender task is not available.
StartFails ==
    /\ control.at = "starting"
    /\ Gate
    /\ control' = [control EXCEPT !.at = "idle"]
    /\ UNCHANGED <<sourceVars, prepared, sourceStarted, sockets, sender, queue, rd, wr, resync,
                   receiver, direction, life>>

-----------------------------------------------------------------------------
(* request_media_direction, the sending direction *)

ControlGoes(place) == control' = [control EXCEPT !.at = place]
LeaveDirection == direction' = NoCaller /\ control' = [at |-> "idle", want |-> FALSE]
Ended == ~running \/ terminate

\* The sender is woken to discard the frame it has.
WakeSender ==
    /\ credit' = (credit \/ Pacing)
    /\ wakeSender' = SenderAlive

\* Disabling closes the queue first; whoever takes source_started_ stops the source.
DirectionBegins(want) ==
    /\ control.at = "idle" /\ direction = NoCaller
    /\ running /\ (want => prepared)
    /\ direction' = "control"
    /\ sendOn' = (sendOn /\ want)
    /\ LET off == sendOn /\ ~want
           at == IF want /\ ~sendOn THEN "source"
                 ELSE IF off /\ sourceStarted THEN "stop" ELSE "final"
       IN  /\ control' = [at |-> at, want |-> want]
           /\ sourceStarted' = (sourceStarted /\ ~off)
           /\ paced' = (paced /\ want = sendOn)
           /\ IF off /\ ~sourceStarted THEN WakeSender
              ELSE credit' = (credit /\ want = sendOn) /\ UNCHANGED wakeSender
    /\ UNCHANGED <<sourceVars, running, terminate, prepared, sockets, senderOn,
                   sender, queue, rd, wr, resync, receiver, life>>

DirectionStartsSource ==
    /\ control.at = "source"
    /\ \/ ~Ended /\ StartOk /\ ControlGoes("started") /\ UNCHANGED direction
       \/ ~Ended /\ StartRefused /\ LeaveDirection
       \/ ~Ended /\ StartWithoutCamera("control") /\ ControlGoes("undoing") /\ UNCHANGED direction
       \/ Ended /\ SourceFree /\ LeaveDirection /\ UNCHANGED sourceVars
    /\ UNCHANGED <<sessionVars, taskVars, receiver, life>>

\* A stop came in meanwhile: the source is stopped again, unless somebody else
\* has taken it.
TakeBack(started) ==
    /\ sendOn' = FALSE
    /\ sourceStarted' = FALSE
    /\ IF started THEN ControlGoes("undo") /\ UNCHANGED direction ELSE LeaveDirection

DirectionStarted ==
    /\ control.at = "started"
    /\ IF Ended THEN TakeBack(TRUE)
       ELSE sendOn' = TRUE /\ sourceStarted' = TRUE /\ ControlGoes("final") /\ UNCHANGED direction
    /\ UNCHANGED <<sourceVars, running, terminate, prepared, sockets, taskVars,
                   receiver, life>>

DirectionStops ==
    /\ control.at \in {"stop", "undo"}
    /\ EnterStop("control")
    /\ ControlGoes(IF control.at = "stop" THEN "stopping" ELSE "undoing")
    /\ UNCHANGED <<sessionVars, taskVars, receiver, direction, life>>

DirectionStopped ==
    /\ control.at = "stopping" /\ Returned("control")
    /\ Leave
    /\ WakeSender
    /\ ControlGoes("final")
    /\ UNCHANGED <<sessionVars, senderOn, sender, queue, rd, wr, resync, paced, receiver, direction,
                   life>>

DirectionUndone ==
    /\ control.at = "undoing" /\ Returned("control")
    /\ Leave
    /\ LeaveDirection
    /\ UNCHANGED <<sessionVars, taskVars, receiver, life>>

DirectionFinal ==
    /\ control.at = "final"
    /\ IF Ended THEN TakeBack(sourceStarted)
       ELSE ControlGoes("store") /\ UNCHANGED <<sendOn, sourceStarted, direction>>
    /\ UNCHANGED <<sourceVars, running, terminate, prepared, sockets, taskVars,
                   receiver, life>>

DirectionStores ==
    /\ control.at = "store"
    /\ sendOn' = control.want
    /\ LeaveDirection
    /\ UNCHANGED <<sourceVars, running, terminate, prepared, sourceStarted, sockets,
                   taskVars, receiver, life>>

Direction ==
    \/ DirectionStartsSource \/ DirectionStarted \/ DirectionStops \/ DirectionStopped
    \/ DirectionUndone \/ DirectionFinal \/ DirectionStores

-----------------------------------------------------------------------------
(* task_: the receive worker's end *)

ReceiverGoes(place) == receiver' = place

ReceiverTerminates ==
    /\ receiver = "loop"
    /\ terminate
    /\ ReceiverGoes("exit")
    /\ UNCHANGED <<sourceVars, sessionVars, taskVars, direction, control, life>>

\* select or a socket fails.
ReceiverBreaks ==
    /\ receiver = "loop"
    /\ receiver' = "exit"
    /\ running' = (running /\ terminate)
    /\ UNCHANGED <<sourceVars, terminate, sendOn, prepared, sourceStarted, sockets,
                   taskVars, direction, control, life>>

\* Variant: the source is left to whoever stops the session.
ReceiverLeavesSource ==
    /\ receiver = "exit" /\ direction = NoCaller
    /\ direction' = "receiver"
    /\ sendOn' = FALSE /\ senderOn' = FALSE /\ wakeSender' = SenderAlive
    /\ ReceiverGoes("finish")
    /\ UNCHANGED <<sourceVars, running, terminate, prepared, sourceStarted, sockets, sender,
                   queue, rd, wr, resync, paced, credit, control, life>>

ReceiverQuiesces ==
    /\ receiver = "exit" /\ direction = NoCaller
    /\ direction' = "receiver"
    /\ sendOn' = FALSE /\ senderOn' = FALSE /\ wakeSender' = SenderAlive
    /\ sourceStarted' = FALSE
    /\ ReceiverGoes(IF sourceStarted THEN "stopping" ELSE "finish")
    /\ UNCHANGED <<sourceVars, running, terminate, prepared, sockets, sender, queue,
                   rd, wr, resync, paced, credit, control, life>>

ReceiverStopsSource ==
    /\ receiver = "stopping"
    /\ \/ EnterStop("receiver") /\ UNCHANGED receiver
       \/ Returned("receiver") /\ Leave /\ ReceiverGoes("finish")
    /\ UNCHANGED <<sessionVars, taskVars, direction, control, life>>

ReceiverFinishes ==
    /\ receiver = "finish"
    /\ prepared' = FALSE
    /\ sockets' = FALSE
    /\ direction' = NoCaller
    /\ receiver' = "done"
    /\ UNCHANGED <<sourceVars, running, terminate, sendOn, sourceStarted, taskVars, control, life>>

Receiver == ReceiverTerminates \/ ReceiverBreaks \/ ReceiverQuiesces \/ ReceiverStopsSource
            \/ ReceiverFinishes

-----------------------------------------------------------------------------
(* stop, on the lifecycle worker *)

LifeGoes(place) == life' = [life EXCEPT !.at = place]

StopBegins ==
    /\ life.at = "idle" /\ control.at # "starting" /\ terminate
    /\ Gate
    /\ sourceStarted' = FALSE
    /\ LifeGoes(IF sourceStarted THEN "stopping" ELSE "sender")
    /\ UNCHANGED <<sourceVars, prepared, sockets, sender, queue, rd, wr, resync,
                   receiver, direction, control>>

StopStopsSource ==
    /\ life.at = "stopping"
    /\ \/ EnterStop("lifecycle") /\ UNCHANGED life
       \/ Returned("lifecycle") /\ Leave /\ LifeGoes("sender")
    /\ UNCHANGED <<sessionVars, taskVars, receiver, direction, control>>

\* stop_sender_task_: the sender has ended within the budget, or keeps its queue.
StopJoinsSender ==
    /\ life.at = "sender"
    /\ \/ sender \in {"none", "done"} /\ sender' = "none" /\ ClearQueue
       \/ Deadlines /\ sender \notin {"none", "done"} /\ UNCHANGED <<sender, queue, sourceVars>>
    /\ senderOn' = FALSE
    /\ wakeSender' = (SenderAlive' /\ (wakeSender \/ senderOn))
    /\ life' = [at |-> "receiver", joined |-> sender' = "none"]
    /\ UNCHANGED <<sessionVars, rd, wr, resync, paced, credit, receiver, direction, control>>

\* stop_receive_task_, then the sink and the sockets once nobody uses them.
StopJoinsReceiver ==
    /\ life.at = "receiver"
    /\ terminate' = TRUE
    /\ \/ /\ receiver \in {"none", "done"}
          /\ ReceiverGoes("none")
          /\ sockets' = (sockets /\ ~life.joined)
       \/ /\ Deadlines /\ receiver \notin {"none", "done"}
          /\ UNCHANGED <<receiver, sockets>>
    /\ life' = [at |-> "idle", joined |-> FALSE]
    /\ UNCHANGED <<sourceVars, running, sendOn, prepared, sourceStarted, taskVars, direction,
                   control>>

Stop == StopBegins \/ StopStopsSource \/ StopJoinsSender \/ StopJoinsReceiver

-----------------------------------------------------------------------------
OfSource == Camera \/ Encoder \/ Barrier \/ BarrierDeadline \/ Shutdown

SourceStep == OfSource /\ UNCHANGED <<sessionVars, taskVars, receiver, direction, control, life>>

Control ==
    \/ StartSession \/ StartSender \/ StartFails
    \/ \E want \in BOOLEAN : DirectionBegins(want)
    \/ Direction

\* Slots differ in nothing but their name.
Symmetry == Permutations(EncSlots)

Next == SourceStep \/ Queueing \/ Sender \/ AudioSent \/ RequestStop \/ Control \/ Receiver \/ Stop

Spec == Init /\ [][Next]_vars

-----------------------------------------------------------------------------
(* What the sending half promises. *)

\* An encoded slot that is out has one owner: the encoder until the session took
\* it over, or one slot of the queue.  Nothing is lost, nothing is given back twice.
Holders(e) ==
    Cardinality({i \in Txs : queue[i].slot = e})
    + Count(enc.slot = e /\ enc.at \in {"publish", "gate", "store"})

LentOnce == \A e \in EncSlots : Holders(e) = Count(encoded[e])

\* Once a session is over and nobody is still at work on it, the camera is off.
SessionOver ==
    /\ ~running /\ control.at = "idle" /\ life.at = "idle"
    /\ receiver \in {"none", "done"} /\ SourceFree

CameraOff == SessionOver => ~camOn /\ ~active

\* "A later one cannot enter PPA or touch a freed buffer": buffers are freed when
\* neither the camera, the encoder nor the session can touch them.
FreedIsUnused ==
    down.at = "freed" =>
        /\ ~Filling
        /\ enc.at = "joined" /\ YuvUsed = 0
        /\ \A e \in EncSlots : ~encoded[e]

\* Every slot has one owner, through stops, direction changes and failures, and
\* its memory outlives them all.
SlotsAreOwned == TypeOK /\ LentOnce /\ FreedIsUnused

\* "The next successful audio RTP enqueue or request_stop() wakes the video
\* sender": a stop is never missed by a sender that waits.
StopWakesSender ==
    /\ sender = "wait" /\ ~senderOn => wakeSender
    /\ sender = "pacing" /\ terminate => credit

\* "The callback is the last owner and must complete the same idle barrier as the
\* worker": who waits for the barrier is told when it is reached, whoever was last.
\* Only a shutdown may take the signal away.
BarrierIsSignalled == call.at = "blocked" /\ Idle /\ ~ShuttingDown => idle

\* "An outstanding owner will wake it again on release": once the task has ended and
\* the last slot is back, the main loop will run and free the buffers.
ShutdownIsWoken ==
    down.at = "waiting" /\ Idle /\ enc.at \in {"ended", "joined"} => down.loop

\* Whoever waits for a slot, for audio or for the last owner is woken, although
\* those who wake test the waiter's flag and give its signal in two steps.
WakeUpsArrive == StopWakesSender /\ BarrierIsSignalled /\ ShutdownIsWoken

-----------------------------------------------------------------------------
(* What these properties rest on: an invariant of every step by itself. *)

\* The encoder names a slot from the moment it takes one until the callback is
\* done with it; a free place of the queue names none.
EncoderNames == enc.at \in {"publish", "gate", "store", "fill"}
SlotsNamed ==
    /\ EncoderNames <=> enc.slot # NoSlot
    /\ \A i \in Txs : queue[i].state = "free" => queue[i].slot = NoSlot

\* LentOnce without counting: no two places of the queue name one slot, nor the
\* encoder before it filled one, and the slots that are out are those.
EncoderHolds == enc.at \in {"publish", "gate", "store"}
OneHolder ==
    /\ \A i, j \in Txs : i # j /\ queue[i].slot = queue[j].slot => queue[i].slot = NoSlot
    /\ EncoderHolds => \A i \in Txs : queue[i].slot # enc.slot
    /\ \A e \in EncSlots :
          encoded[e] <=> (EncoderHolds /\ enc.slot = e) \/ \E i \in Txs : queue[i].slot = e

\* The camera runs while the source is active, and that is over once a stop has
\* closed the source, or the shutdown has.
SourceCloses ==
    /\ camOn = active
    /\ SourceFree => call.at = "none"
    /\ call.at \in {"wait", "blocked", "done"} \/ ShuttingDown => ~active

\* A session runs on its receive worker; whoever stops it has closed it.
SessionRuns ==
    /\ running => ~terminate /\ receiver = "loop"
    /\ life.at # "idle" => ~running /\ terminate

\* A change of direction and the end of the receive worker exclude each other.
DirectionHeld ==
    /\ control.at \notin {"idle", "starting"} =>
          direction = "control" /\ receiver \in {"loop", "exit"}
    /\ receiver \in {"stopping", "finish"} => direction = "receiver"

\* A source that is active has somebody who will stop it.
SourceHasStopper ==
    /\ sourceStarted => receiver \in {"loop", "exit"}
    /\ active => \/ sourceStarted
                 \/ control.at \in {"started", "stop", "stopping", "undo", "undoing"}
                 \/ receiver = "stopping" \/ life.at = "stopping"

PacingIsBuilt == sender = "pacing" => Pacing

SessionInv ==
    /\ TypeOK /\ SlotsNamed /\ OneHolder /\ FreedIsUnused
    /\ SourceCloses /\ SessionRuns /\ DirectionHeld /\ SourceHasStopper
    /\ PacingIsBuilt /\ WakeUpsArrive

=============================================================================
