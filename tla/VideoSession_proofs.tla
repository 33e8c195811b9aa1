--------------------------- MODULE VideoSession_proofs ---------------------------
(***************************************************************************)
(* Proofs about VideoSession and the H.264 source, for every number of YUV  *)
(* slots, encoded slots and queue places, with and without audio pacing,    *)
(* whether or not a wait may run out.                                       *)
(*                                                                         *)
(* A step is either a move of the source's own threads or of the callback   *)
(* that queues, or what the session does; all that the session does to the  *)
(* source is one of the few things SessionOnSource lists.                   *)
(***************************************************************************)
EXTENDS VideoSession, FiniteSetTheorems, SequenceTheorems, TLAPS

\* A step the SMT encoding of Boolean variables needs spelled out.
LEMMA FalseIsBoolean == \A x : x = FALSE => x \in BOOLEAN
  BY Zenon

-----------------------------------------------------------------------------
(* What a step does to the source. *)

\* What a slot that comes back leaves alone.
restOfSource == <<active, failed, camOn, cam, ready, enc, wakeEnc, call>>

\* One slot that was lent comes back, or what the cleared queue held.
GivesBack ==
    /\ UNCHANGED restOfSource
    /\ encoded' \in [EncSlots -> BOOLEAN]
    /\ \A e \in EncSlots : encoded'[e] => encoded[e]
    /\ IF encoded' # encoded THEN AfterRelease ELSE UNCHANGED <<idle, down>> \/ AfterRelease

\* What the session may do to the source: nothing, give slots back, start it, enter a
\* stop, or leave one that is done.
SessionOnSource ==
    \/ UNCHANGED sourceVars
    \/ GivesBack
    \/ StartOk \/ StartWithoutCamera("control")
    \/ \E by \in Callers : EnterStop(by)
    \/ call.at = "done" /\ Leave

\* A request to stop, the start of a session and of a change of direction.
Beginning ==
    \/ RequestStop \/ StartSession \/ StartSender \/ StartFails
    \/ \E want \in BOOLEAN : DirectionBegins(want)

\* Every step that is neither the source's own nor the callback's.
SessionStep == Sender \/ AudioSent \/ RequestStop \/ Control \/ Receiver \/ Stop

\* release_encoded_slot_ gives one slot back.
LEMMA ReturnGivesBack ==
  ASSUME SourceTypeOK, NEW e, ReturnSlot(e), UNCHANGED restOfSource
  PROVE  GivesBack
BY DEF ReturnSlot, GivesBack, SourceTypeOK

\* Clearing the queue gives back what its places held.
LEMMA ClearGivesBack ==
  ASSUME SourceTypeOK, ClearQueue
  PROVE  GivesBack
<1>1. encoded \in [EncSlots -> BOOLEAN]
  BY DEF SourceTypeOK
<1>2. \A e \in EncSlots : encoded'[e] => encoded[e]
  BY <1>1 DEF ClearQueue
<1>3. encoded' \in [EncSlots -> BOOLEAN]
  BY <1>1 DEF ClearQueue
<1>4. QED
  BY <1>2, <1>3 DEF ClearQueue, GivesBack, restOfSource

\* free_access_unit_ gives back what the sender held.
LEMMA FreeGivesBack ==
  ASSUME SourceTypeOK, FreeSlot
  PROVE  GivesBack
BY ReturnGivesBack DEF FreeSlot, restOfSource

\* The sender only gives slots back; asking for a key frame changes nothing here.
LEMMA SenderOnSource ==
  ASSUME SourceTypeOK, Sender
  PROVE  UNCHANGED sourceVars \/ GivesBack
<1>1. CASE SenderWakes \/ SenderTakes \/ SenderDrained \/ SenderBegins
  BY <1>1 DEF SenderWakes, SenderTakes, SenderDrained, SenderBegins
<1>2. CASE SenderDiscards \/ SenderSends
  BY <1>2, FreeGivesBack DEF SenderDiscards, SenderSends
<1>3. CASE SenderPaced
  BY <1>3, FreeGivesBack DEF SenderPaced
<1>4. CASE SenderResyncs
  BY <1>4 DEF SenderResyncs, RequestKeyFrame
<1> QED
  BY <1>1, <1>2, <1>3, <1>4 DEF Sender

\* The holder of the media lock starts the source, enters its stop or leaves it.
LEMMA ControlOnSource ==
  ASSUME SourceTypeOK, Control
  PROVE  SessionOnSource
<1> USE DEF SessionOnSource
<1>1. CASE StartSession \/ StartFails \/ \E want \in BOOLEAN : DirectionBegins(want)
  BY <1>1 DEF StartSession, StartFails, DirectionBegins
<1>2. CASE StartSender
  BY <1>2, ClearGivesBack DEF StartSender
<1>3. CASE DirectionStartsSource
  BY <1>3 DEF DirectionStartsSource, StartRefused
<1>4. CASE DirectionStarted \/ DirectionFinal \/ DirectionStores
  BY <1>4 DEF DirectionStarted, DirectionFinal, DirectionStores
<1>5. CASE DirectionStops
  BY <1>5 DEF DirectionStops, Callers
<1>6. CASE DirectionStopped \/ DirectionUndone
  BY <1>6 DEF DirectionStopped, DirectionUndone, Returned
<1> QED
  BY <1>1, <1>2, <1>3, <1>4, <1>5, <1>6 DEF Control, Direction

\* So does each thread of the session.
LEMMA SessionStepOnSource ==
  ASSUME SourceTypeOK, SessionStep
  PROVE  SessionOnSource
<1>1. CASE Sender
  BY <1>1, SenderOnSource DEF SessionOnSource
<1>2. CASE AudioSent \/ RequestStop
  BY <1>2 DEF AudioSent, RequestStop, SessionOnSource
<1>3. CASE Control
  BY <1>3, ControlOnSource
<1>4. CASE Receiver
  BY <1>4 DEF Receiver, ReceiverTerminates, ReceiverBreaks, ReceiverQuiesces,
     ReceiverStopsSource, ReceiverFinishes, SessionOnSource, Callers, Returned
<1>5. CASE StopBegins \/ StopStopsSource \/ StopJoinsReceiver
  BY <1>5 DEF StopBegins, StopStopsSource, StopJoinsReceiver, SessionOnSource, Callers, Returned
<1>6. CASE StopJoinsSender
  BY <1>6, ClearGivesBack DEF StopJoinsSender, SessionOnSource
<1> QED
  BY <1>1, <1>2, <1>3, <1>4, <1>5, <1>6 DEF SessionStep, Stop

\* The steps of the source's own threads, and of the callback that queues.
SourceMoves == Camera \/ Encoder \/ Barrier \/ BarrierDeadline \/ Shutdown \/ Queueing

\* Every step of the system is one of the two kinds for the source.
LEMMA StepOnSource ==
  ASSUME SourceTypeOK, [Next]_vars
  PROVE  SourceMoves \/ SessionOnSource
<1>1. CASE SourceStep \/ Queueing
  BY <1>1 DEF SourceStep, OfSource, SourceMoves
<1>2. CASE SessionStep
  BY <1>2, SessionStepOnSource
<1>3. CASE UNCHANGED vars
  BY <1>3 DEF vars, SessionOnSource
<1>4. QED
  BY <1>1, <1>2, <1>3 DEF Next, SessionStep

-----------------------------------------------------------------------------
(* The types of the source: its records. *)

\* The updates of the camera's record the actions make keep its type.
LEMMA CamUpdates ==
  ASSUME NEW r \in CamRecord
  PROVE  /\ \A x \in {"out", "calling", "gate", "filling", "queue", "leave"} :
              [r EXCEPT !.at = x] \in CamRecord
         /\ [r EXCEPT !.current = FALSE] \in CamRecord
         /\ [at |-> "filling", current |-> TRUE] \in CamRecord
         /\ [at |-> "leave", current |-> FALSE] \in CamRecord
<1>1. TRUE \in BOOLEAN /\ FALSE \in BOOLEAN
  OBVIOUS
<1>2. QED
  BY <1>1, Zenon DEF CamRecord

\* The places of the encoder task.
EncPlaces == {"look", "sleep", "check", "publish", "gate", "store", "fill", "release",
                    "ended", "joined"}

\* The updates of the encoder task's record keep its type.
LEMMA EncUpdates ==
  ASSUME NEW r \in EncRecord
  PROVE  /\ \A x \in EncPlaces : [r EXCEPT !.at = x] \in EncRecord
         /\ \A x \in EncPlaces, c \in BOOLEAN : [r EXCEPT !.at = x, !.current = c] \in EncRecord
         /\ \A x \in EncPlaces, e \in EncSlots \cup {NoSlot} :
              [r EXCEPT !.at = x, !.slot = e] \in EncRecord
         /\ [r EXCEPT !.current = FALSE] \in EncRecord
<1>1. TRUE \in BOOLEAN /\ FALSE \in BOOLEAN
  OBVIOUS
<1>2. QED
  BY <1>1, Zenon DEF EncRecord, EncPlaces

\* The updates of the shutdown's record keep its type.
LEMMA DownUpdates ==
  ASSUME NEW r \in DownRecord
  PROVE  /\ \A b \in BOOLEAN : [r EXCEPT !.loop = b] \in DownRecord
         /\ [r EXCEPT !.at = "joining"] \in DownRecord
         /\ \A b \in BOOLEAN : [at |-> "waiting", loop |-> b] \in DownRecord
         /\ [at |-> "freed", loop |-> FALSE] \in DownRecord
         /\ r.loop \in BOOLEAN
<1>1. TRUE \in BOOLEAN /\ FALSE \in BOOLEAN
  OBVIOUS
<1>2. QED
  BY <1>1, Zenon DEF DownRecord

\* The camera's steps keep its record typed.
LEMMA CamByCamera ==
  ASSUME cam \in CamRecord, Camera
  PROVE  cam' \in CamRecord
BY CamUpdates DEF Camera, CameraCalls, CameraEnters, CameraGate, CameraAbandons,
   CameraChecks, CameraQueues, CameraLeaves

\* The encoder task's steps keep its record typed.
LEMMA EncByEncoder ==
  ASSUME SourceTypeOK, Encoder
  PROVE  enc' \in EncRecord
<1>1. enc \in EncRecord /\ ready \in Seq(BOOLEAN)
  BY DEF SourceTypeOK
<1>2. CASE EncoderTakes
  <2>1. Head(ready) \in BOOLEAN
    BY <1>1, <1>2 DEF EncoderTakes
  <2>2. QED
    BY <1>1, <1>2, <2>1, EncUpdates DEF EncoderTakes, EncPlaces
<1>3. CASE EncoderReleases \/ EncoderDiscards
  <2>1. FALSE \in BOOLEAN /\ NoSlot \in EncSlots \cup {NoSlot}
    OBVIOUS
  <2>2. \/ enc' = [enc EXCEPT !.at = "look", !.current = FALSE]
        \/ enc' = [enc EXCEPT !.at = "release", !.slot = NoSlot]
    BY <1>3, Zenon DEF EncoderReleases, EncoderDiscards
  <2>3. [enc EXCEPT !.at = "look", !.current = FALSE] \in EncRecord
    BY <1>1, <2>1, EncUpdates, Zenon DEF EncPlaces
  <2>4. [enc EXCEPT !.at = "release", !.slot = NoSlot] \in EncRecord
    BY <1>1, <2>1, EncUpdates, Zenon DEF EncPlaces
  <2>5. QED
    BY <2>2, <2>3, <2>4, Zenon
<1>5. CASE EncoderEncodes
  <2>1. PICK e \in EncSlots : enc' = [enc EXCEPT !.at = "publish", !.slot = e]
    BY <1>5, Zenon DEF EncoderEncodes, FreeEncoded
  <2>2. QED
    BY <1>1, <2>1, EncUpdates, Zenon DEF EncPlaces
<1>4. CASE EncoderSleeps \/ EncoderWakes \/ EncoderSkipsStale \/ EncoderDrops
        \/ EncoderPublishes \/ EncoderEnds
    BY <1>1, <1>4, EncUpdates, Zenon DEF EncPlaces, EncoderTakes, EncoderSleeps, EncoderWakes,
       EncoderSkipsStale, EncoderDrops, EncoderEncodes, EncoderDiscards, EncoderPublishes,
       EncoderReleases, EncoderEnds
<1> QED
  BY <1>2, <1>3, <1>4, <1>5 DEF Encoder

\* A release by the camera or the encoder keeps the shutdown's record typed.
LEMMA DownByCamera ==
  ASSUME SourceTypeOK, Camera \/ Encoder
  PROVE  down' \in DownRecord
<1>1. CASE UNCHANGED down
  BY <1>1 DEF SourceTypeOK
<1>2. CASE down' = [down EXCEPT !.loop = @ \/ ShuttingDown]
  <2>1. (down.loop \/ ShuttingDown) \in BOOLEAN
    OBVIOUS
  <2>2. QED
    BY <1>2, <2>1, DownUpdates, Zenon DEF SourceTypeOK
<1>3. CASE down' = [down EXCEPT !.loop = TRUE]
  <2>1. TRUE \in BOOLEAN
    OBVIOUS
  <2>2. QED
    BY <1>3, <2>1, DownUpdates, Zenon DEF SourceTypeOK
<1>4. QED
  BY <1>1, <1>2, <1>3, Zenon DEF Camera, Encoder, AfterRelease, CameraCalls, CameraEnters,
     CameraGate, CameraAbandons, CameraChecks, CameraQueues, CameraLeaves, EncoderTakes,
     EncoderSleeps,
     EncoderWakes, EncoderSkipsStale, EncoderDrops, EncoderEncodes, EncoderDiscards,
     EncoderPublishes, EncoderReleases, EncoderEnds

\* A camera, encoder or barrier record of another generation.
LEMMA NewGenerationTypes ==
  ASSUME SourceTypeOK, NewGeneration
  PROVE  cam' \in CamRecord /\ enc' \in EncRecord
BY CamUpdates, EncUpdates, Zenon DEF NewGeneration, SourceTypeOK

\* So does the closing of the source, which makes one if the source was active.
LEMMA StopTypes ==
  ASSUME SourceTypeOK, StopSource
  PROVE  cam' \in CamRecord /\ enc' \in EncRecord
<1>1. CASE NewGeneration
  BY <1>1, NewGenerationTypes
<1>2. CASE UNCHANGED <<ready, cam, enc>>
  BY <1>2 DEF SourceTypeOK
<1>3. QED
  BY <1>1, <1>2 DEF StopSource

\* The session's callback keeps the encoder task's record typed.
LEMMA EncByQueueing ==
  ASSUME SourceTypeOK, Queueing
  PROVE  enc' \in EncRecord
<1>1. enc \in EncRecord /\ NoSlot \in EncSlots \cup {NoSlot}
  BY DEF SourceTypeOK
<1>2. CASE CallbackDone
  BY <1>1, <1>2, EncUpdates, Zenon DEF CallbackDone, EncPlaces
<1>3. CASE QueueAdmits \/ QueueFills
  BY <1>1, <1>3, EncUpdates, Zenon DEF QueueAdmits, QueueFills, EncPlaces
<1>4. QED
  BY <1>2, <1>3 DEF Queueing, QueueClosed, QueueOversize, QueueAwaitsKey, QueueDrops,
     QueuePublishes, TurnAway

\* So does reaping the task.
LEMMA EncByShutdown ==
  ASSUME SourceTypeOK, JoinTask \/ Loop
  PROVE  enc' \in EncRecord
<1>1. enc \in EncRecord /\ Reap
  BY DEF SourceTypeOK, JoinTask, Loop
<1>2. QED
  BY <1>1, EncUpdates, Zenon DEF Reap, EncPlaces

\* The four records of the source have their types.
RecordsTyped == cam \in CamRecord /\ enc \in EncRecord /\ call \in CallRecord /\ down \in DownRecord

\* The updates of the record of who is inside start_video or stop_video keep its type.
LEMMA CallUpdates ==
  ASSUME NEW r \in CallRecord
  PROVE  /\ \A x \in {"none", "request", "wait", "blocked", "done"} :
              [r EXCEPT !.at = x] \in CallRecord
         /\ \A by \in Callers : [by |-> by, at |-> "request"] \in CallRecord
         /\ [by |-> "control", at |-> "wait"] \in CallRecord
         /\ NoCall \in CallRecord
BY DEF CallRecord, NoCall, Callers

\* The tail of a release keeps the shutdown's record typed.
LEMMA AfterReleaseTypes ==
  ASSUME SourceTypeOK, down' = [down EXCEPT !.loop = @ \/ ShuttingDown]
  PROVE  down' \in DownRecord
<1>1. (down.loop \/ ShuttingDown) \in BOOLEAN
  OBVIOUS
<1>2. QED
  BY <1>1, DownUpdates, Zenon DEF SourceTypeOK

\* The records keep their types under the steps of the camera
\* and of the encoder task.
LEMMA RecordsByCameraAndEncoder ==
  ASSUME SourceTypeOK, Camera \/ Encoder
  PROVE  RecordsTyped'
<1>1. UNCHANGED call /\ (Camera => UNCHANGED enc) /\ (Encoder => UNCHANGED cam)
  BY Zenon DEF Camera, Encoder, AfterRelease, CameraCalls, CameraEnters, CameraGate,
     CameraAbandons, CameraChecks, CameraQueues, CameraLeaves, EncoderTakes, EncoderSleeps,
     EncoderWakes,
     EncoderSkipsStale, EncoderDrops, EncoderEncodes, EncoderDiscards, EncoderPublishes,
     EncoderReleases, EncoderEnds
<1>2. QED
  BY <1>1, CamByCamera, EncByEncoder, DownByCamera DEF SourceTypeOK, RecordsTyped

\* They do in a stop that waits for the barrier.
LEMMA RecordsByBarrier ==
  ASSUME SourceTypeOK, Barrier \/ BarrierDeadline
  PROVE  RecordsTyped'
<1>1. call' \in CallRecord
  BY CallUpdates, Zenon DEF SourceTypeOK, Barrier, BarrierDeadline, RequestVideoStop,
     CheckBarrier, PassBarrier, MissBarrier
<1>2. UNCHANGED down /\ (StopSource \/ UNCHANGED <<cam, enc>>)
  BY DEF Barrier, BarrierDeadline, RequestVideoStop, CheckBarrier, PassBarrier
<1>3. QED
  BY <1>1, <1>2, StopTypes DEF SourceTypeOK, RecordsTyped

\* They do in the main loop's shutdown.
LEMMA RecordsByShutdown ==
  ASSUME SourceTypeOK, Shutdown
  PROVE  RecordsTyped'
<1>1. CASE BeginShutdown
  BY <1>1, StopTypes, DownUpdates DEF BeginShutdown, SourceTypeOK, RecordsTyped
<1>2. CASE JoinTask \/ Loop
  <2>1. down.loop \in BOOLEAN /\ FALSE \in BOOLEAN
    BY DownUpdates DEF SourceTypeOK
  <2>2. down' \in {[at |-> "freed", loop |-> FALSE], [at |-> "waiting", loop |-> down.loop],
                 [at |-> "waiting", loop |-> FALSE]}
    BY <1>2, Zenon DEF JoinTask, Loop, FreeIfQuiet
  <2>3. down' \in DownRecord
    BY <2>1, <2>2, DownUpdates DEF SourceTypeOK
  <2>4. UNCHANGED <<cam, call>>
    BY <1>2 DEF JoinTask, Loop
  <2>5. QED
    BY <1>2, <2>3, <2>4, EncByShutdown DEF SourceTypeOK, RecordsTyped
<1>3. QED
  BY <1>1, <1>2 DEF Shutdown

\* They do in the callback that queues an access unit.
LEMMA RecordsByQueueing ==
  ASSUME SourceTypeOK, Queueing
  PROVE  RecordsTyped'
<1>1. UNCHANGED <<cam, call>>
  BY DEF Queueing, QueueClosed, QueueOversize, QueueAwaitsKey, QueueAdmits, QueueDrops,
     QueueFills, QueuePublishes, TurnAway
<1>2. UNCHANGED down \/ down' = [down EXCEPT !.loop = @ \/ ShuttingDown]
  BY Zenon DEF Queueing, QueueClosed, QueueOversize, QueueAwaitsKey, QueueAdmits, QueueDrops,
     QueueFills, QueuePublishes, TurnAway, ReturnSlot, AfterRelease
<1>3. QED
  BY <1>1, <1>2, EncByQueueing, AfterReleaseTypes DEF SourceTypeOK, RecordsTyped

\* They do under the session's steps.
LEMMA RecordsBySession ==
  ASSUME SourceTypeOK, SessionOnSource
  PROVE  RecordsTyped'
<1> USE DEF SourceTypeOK, RecordsTyped
<1>1. CASE UNCHANGED sourceVars
  BY <1>1 DEF sourceVars
<1>2. CASE GivesBack
  BY <1>2, AfterReleaseTypes DEF GivesBack, restOfSource, AfterRelease
<1>3. CASE StartOk \/ StartWithoutCamera("control")
  BY <1>3, NewGenerationTypes, CallUpdates DEF StartOk, StartWithoutCamera
<1>4. CASE (\E by \in Callers : EnterStop(by)) \/ Leave
  BY <1>4, CallUpdates DEF EnterStop, Leave
<1>5. QED
  BY <1>1, <1>2, <1>3, <1>4 DEF SessionOnSource

-----------------------------------------------------------------------------
(* The types of the source: its frames and its flags. *)

\* No YUV slot is in use.
Empty == ready = <<>> /\ ~HoldsYuv /\ ~Filling

\* How many YUV slots are in use, part by part.
LEMMA YuvParts ==
  /\ \E h \in 0..1, f \in 0..1 :
        /\ YuvUsed = Len(ready) + h + f
        /\ h = 1 <=> HoldsYuv
        /\ f = 1 <=> Filling
  /\ \E h \in 0..1, f \in 0..1 :
        /\ YuvUsed' = Len(ready') + h + f
        /\ h = 1 <=> HoldsYuv'
        /\ f = 1 <=> Filling'
<1> DEFINE held == Count(HoldsYuv)
           filling == Count(Filling)
<1>1. held \in 0..1 /\ (held = 1 <=> HoldsYuv) /\ filling \in 0..1
        /\ (filling = 1 <=> Filling)
  BY DEF Count
<1>2. held' \in 0..1 /\ (held' = 1 <=> HoldsYuv') /\ filling' \in 0..1
        /\ (filling' = 1 <=> Filling')
  BY DEF Count
<1>3. YuvUsed = Len(ready) + held + filling /\ YuvUsed' = Len(ready') + held' + filling'
  BY DEF YuvUsed
<1> HIDE DEF held, filling
<1>4. QED
  BY <1>1, <1>2, <1>3

\* Only the empty queue of frames has length 0.
LEMMA LengthOfReady ==
  ASSUME NEW r \in Seq(BOOLEAN)
  PROVE  Len(r) \in Nat /\ (Len(r) = 0 <=> r = <<>>)
BY EmptySeq, LenProperties

\* The count of YUV slots in use is 0 exactly when none is.
LEMMA YuvUnused ==
  /\ SourceTypeOK => (YuvUsed = 0 <=> Empty)
  /\ SourceTypeOK' => (YuvUsed' = 0 <=> Empty')
<1>1. ASSUME SourceTypeOK PROVE YuvUsed = 0 <=> Empty
  <2>1. Len(ready) \in Nat /\ (Len(ready) = 0 <=> ready = <<>>)
    BY <1>1, LengthOfReady DEF SourceTypeOK
  <2>2. QED
    BY <2>1, YuvParts DEF Empty
<1>2. ASSUME SourceTypeOK' PROVE YuvUsed' = 0 <=> Empty'
  <2>1. Len(ready') \in Nat /\ (Len(ready') = 0 <=> ready' = <<>>)
    BY <1>2, LengthOfReady DEF SourceTypeOK
  <2>2. QED
    BY <2>1, YuvParts DEF Empty
<1>3. QED
  BY <1>1, <1>2

\* The flags of the source, and its encoded slots, have their types.
SourceFlags ==
    /\ active \in BOOLEAN /\ failed \in BOOLEAN /\ camOn \in BOOLEAN
    /\ idle \in BOOLEAN /\ wakeEnc \in BOOLEAN
    /\ encoded \in [EncSlots -> BOOLEAN]

\* They keep them under every step.
LEMMA FlagsTyped ==
  ASSUME SourceTypeOK, SourceMoves \/ SessionOnSource
  PROVE  SourceFlags'
<1> USE DEF SourceTypeOK, SourceFlags
<1>1. CASE Camera
  BY <1>1, Zenon DEF AfterRelease, EncoderAlive, Camera, CameraCalls, CameraEnters,
     CameraGate, CameraAbandons, CameraChecks, CameraQueues, CameraLeaves
<1>2. CASE Encoder
  BY <1>2, Zenon DEF AfterRelease, FreeEncoded, Encoder, EncoderTakes, EncoderSleeps,
     EncoderWakes, EncoderSkipsStale, EncoderDrops, EncoderEncodes, EncoderDiscards,
     EncoderPublishes, EncoderReleases, EncoderEnds
<1>3. CASE Barrier \/ BarrierDeadline
  BY <1>3 DEF Barrier, BarrierDeadline, RequestVideoStop, CheckBarrier, PassBarrier,
     MissBarrier, StopSource, EncoderAlive
<1>4. CASE Shutdown
  BY <1>4 DEF Shutdown, BeginShutdown, JoinTask, Loop, StopSource, EncoderAlive
<1>5. CASE Queueing
  BY <1>5 DEF Queueing, QueueClosed, QueueOversize, QueueAwaitsKey, QueueAdmits, QueueDrops,
     QueueFills, QueuePublishes, TurnAway, ReturnSlot, AfterRelease
<1>6. CASE SessionOnSource
  BY <1>6 DEF SessionOnSource, EncoderAlive, sourceVars, GivesBack, restOfSource,
     AfterRelease, StartOk, StartWithoutCamera, EnterStop, Leave, NewGeneration
<1>7. QED
  BY <1>1, <1>2, <1>3, <1>4, <1>5, <1>6 DEF SourceMoves

\* The frames that wait are typed, and the YUV slots are never exceeded.
SourceFrames == ready \in Seq(BOOLEAN) /\ YuvUsed <= YuvSlots

\* A step that adds no frame keeps the bound.
LEMMA FramesKept ==
  ASSUME SourceTypeOK, ready' \in Seq(BOOLEAN), Len(ready') = Len(ready),
         HoldsYuv' => HoldsYuv, Filling' => Filling
  PROVE  SourceFrames'
<1>1. YuvUsed <= YuvSlots /\ Len(ready) \in Nat /\ YuvSlots \in Nat
  BY LengthOfReady, SourceAssumption DEF SourceTypeOK
<1>2. YuvUsed' <= YuvSlots
  BY <1>1, YuvParts
<1>3. QED
  BY <1>2 DEF SourceFrames

\* A new generation keeps the number of frames that wait.
LEMMA OlderFrames ==
  ASSUME NEW r \in Seq(BOOLEAN)
  PROVE  LET q == [i \in DOMAIN r |-> FALSE] IN q \in Seq(BOOLEAN) /\ Len(q) = Len(r)
<1>1. Len(r) \in Nat /\ DOMAIN r = 1..Len(r)
  BY LenProperties
<1>2. FALSE \in BOOLEAN
  OBVIOUS
<1>3. [i \in 1..Len(r) |-> FALSE] \in Seq(BOOLEAN)
  BY <1>1, <1>2, IsASeq
<1>4. DOMAIN [i \in 1..Len(r) |-> FALSE] = 1..Len(r)
  OBVIOUS
<1>5. Len([i \in 1..Len(r) |-> FALSE]) = Len(r)
  BY <1>1, <1>3, <1>4, LenProperties
<1>6. QED
  BY <1>1, <1>3, <1>5

\* It keeps who holds a YUV slot, too.
LEMMA NewGenerationFrames ==
  ASSUME SourceTypeOK, NewGeneration
  PROVE  /\ ready' \in Seq(BOOLEAN) /\ Len(ready') = Len(ready)
         /\ HoldsYuv' = HoldsYuv /\ cam'.at = cam.at
<1>1. ready \in Seq(BOOLEAN)
  BY DEF SourceTypeOK
<1>2. QED
  BY <1>1, OlderFrames DEF NewGeneration, SourceTypeOK, CamRecord, EncRecord, HoldsYuv

\* consume_raw_video_frame takes a slot only if one is free.
LEMMA FramesByCamera ==
  ASSUME SourceTypeOK, Camera
  PROVE  SourceFrames'
<1>1. YuvUsed <= YuvSlots /\ Len(ready) \in Nat /\ ready \in Seq(BOOLEAN) /\ YuvSlots \in Nat
  BY LengthOfReady, SourceAssumption DEF SourceTypeOK
<1>2. UNCHANGED enc
  BY DEF Camera, CameraCalls, CameraEnters, CameraGate, CameraAbandons, CameraChecks, CameraQueues,
     CameraLeaves
<1>3. CASE CameraGate /\ Filling'
  <2>1. YuvUsed < YuvSlots /\ UNCHANGED ready /\ ~Filling
    BY <1>3 DEF CameraGate, Filling, SourceTypeOK, CamRecord
  <2>2. YuvUsed' <= YuvSlots
    BY <1>1, <1>2, <2>1, YuvParts DEF HoldsYuv
  <2>3. QED
    BY <1>1, <2>1, <2>2 DEF SourceFrames
<1>4. CASE CameraQueues
  <2>1. ready' = Append(ready, cam.current) /\ Filling /\ ~Filling'
    BY <1>4 DEF CameraQueues, Filling
  <2>2. cam.current \in BOOLEAN
    BY DEF SourceTypeOK, CamRecord
  <2>3. ready' \in Seq(BOOLEAN) /\ Len(ready') = Len(ready) + 1
    BY <1>1, <2>1, <2>2, AppendProperties
  <2>4. YuvUsed' <= YuvSlots
    BY <1>1, <1>2, <2>1, <2>3, YuvParts DEF HoldsYuv
  <2>5. QED
    BY <2>3, <2>4 DEF SourceFrames
<1>5. CASE UNCHANGED ready /\ (Filling' => Filling)
  BY <1>1, <1>2, <1>5, FramesKept DEF HoldsYuv, Filling
<1>6. QED
  BY <1>3, <1>4, <1>5 DEF SourceTypeOK, CamRecord, Filling, Camera, CameraCalls,
     CameraEnters, CameraGate, CameraAbandons, CameraChecks, CameraQueues, CameraLeaves

\* The encoder task moves a frame from the queue into its hands.
LEMMA FramesByEncoder ==
  ASSUME SourceTypeOK, Encoder
  PROVE  SourceFrames'
<1>1. YuvUsed <= YuvSlots /\ Len(ready) \in Nat /\ ready \in Seq(BOOLEAN) /\ YuvSlots \in Nat
  BY LengthOfReady, SourceAssumption DEF SourceTypeOK
<1>2. UNCHANGED cam
  BY Zenon DEF Encoder, AfterRelease, EncoderTakes, EncoderSleeps, EncoderWakes,
     EncoderSkipsStale, EncoderDrops, EncoderEncodes, EncoderDiscards, EncoderPublishes,
     EncoderReleases, EncoderEnds
<1> Filling' = Filling
  BY <1>2 DEF Filling
<1>3. CASE EncoderTakes
  <2>1. ready # <<>> /\ ready' = Tail(ready) /\ ~HoldsYuv
    BY <1>3 DEF EncoderTakes, HoldsYuv
  <2>2. ready' \in Seq(BOOLEAN) /\ Len(ready') = Len(ready) - 1 /\ Len(ready) # 0
    BY <1>1, <2>1, HeadTailProperties, EmptySeq
  <2>3. YuvUsed' <= YuvSlots
    BY <1>1, <1>2, <2>1, <2>2, YuvParts
  <2>4. QED
    BY <2>2, <2>3 DEF SourceFrames
<1>4. CASE EncoderEnds
  <2>1. ready' = <<>> /\ ready' \in Seq(BOOLEAN) /\ Len(ready') = 0 /\ ~HoldsYuv'
    BY <1>4, EmptySeq DEF EncoderEnds, SourceTypeOK, EncRecord, HoldsYuv
  <2>2. YuvUsed' <= YuvSlots
    BY <1>1, <1>2, <2>1, YuvParts
  <2>3. QED
    BY <2>1, <2>2 DEF SourceFrames
<1>5. CASE UNCHANGED ready /\ (HoldsYuv' => HoldsYuv)
  BY <1>1, <1>2, <1>5, FramesKept
<1>6. QED
  BY <1>3, <1>4, <1>5, Zenon DEF HoldsYuv, SourceTypeOK, EncRecord, Encoder, EncoderTakes,
     EncoderSleeps, EncoderWakes, EncoderSkipsStale, EncoderDrops, EncoderEncodes,
     EncoderDiscards, EncoderPublishes, EncoderReleases, EncoderEnds

\* Nobody else takes or gives a YUV slot.
LEMMA FramesByOthers ==
  ASSUME SourceTypeOK, Barrier \/ BarrierDeadline \/ Shutdown \/ Queueing \/ SessionOnSource
  PROVE  SourceFrames'
<1>1. ready \in Seq(BOOLEAN)
  BY DEF SourceTypeOK
<1>2. CASE NewGeneration
  BY <1>2, NewGenerationFrames, FramesKept DEF Filling
<1>3. CASE UNCHANGED <<ready, cam>> /\ (HoldsYuv' => HoldsYuv)
  BY <1>1, <1>3, FramesKept DEF Filling
<1>4. CASE Barrier \/ BarrierDeadline
  <2>1. NewGeneration \/ UNCHANGED <<ready, cam, enc>>
    BY <1>4 DEF Barrier, BarrierDeadline, RequestVideoStop, CheckBarrier, PassBarrier,
       StopSource
  <2>2. QED
    BY <1>2, <1>3, <2>1 DEF HoldsYuv
<1>5. CASE Shutdown
  <2>1. CASE BeginShutdown
    BY <1>2, <1>3, <2>1 DEF BeginShutdown, StopSource, HoldsYuv
  <2>2. CASE JoinTask \/ Loop
    BY <1>3, <2>2 DEF JoinTask, Loop, Reap, HoldsYuv, SourceTypeOK, EncRecord
  <2>3. QED
    BY <1>5, <2>1, <2>2 DEF Shutdown
<1>6. CASE Queueing
  BY <1>3, <1>6 DEF Queueing, QueueClosed, QueueOversize, QueueAwaitsKey, QueueAdmits,
     QueueDrops, QueueFills, QueuePublishes, TurnAway, CallbackDone, SourceTypeOK, EncRecord,
     HoldsYuv
<1>7. CASE SessionOnSource
  BY <1>2, <1>3, <1>7 DEF HoldsYuv, SessionOnSource, sourceVars, GivesBack, restOfSource,
     StartOk, StartWithoutCamera, EnterStop, Leave
<1>8. QED
  BY <1>4, <1>5, <1>6, <1>7

\* Every step keeps the types of the source.
LEMMA SourceTypeStep ==
  ASSUME SourceTypeOK, [Next]_vars
  PROVE  SourceTypeOK'
<1>1. SourceMoves \/ SessionOnSource
  BY StepOnSource
<1>2. SourceFlags'
  BY <1>1, FlagsTyped
<1>3. RecordsTyped'
  BY <1>1, RecordsByCameraAndEncoder, RecordsByBarrier, RecordsByShutdown, RecordsByQueueing,
     RecordsBySession DEF SourceMoves
<1>4. SourceFrames'
  BY <1>1, FramesByCamera, FramesByEncoder, FramesByOthers DEF SourceMoves
<1>5. QED
  BY <1>2, <1>3, <1>4 DEF SourceTypeOK, SourceFlags, RecordsTyped, SourceFrames

-----------------------------------------------------------------------------
(* The types of the session. *)

\* The place of the media lock's holder, and the direction it wants.
ControlRecord == [at : {"idle", "starting", "source", "started", "stop", "stopping", "final",
                        "store", "undo", "undoing"},
                  want : BOOLEAN]

\* The flags of the session and of the sender.
SessionFlags ==
    {running, terminate, sendOn, prepared, sourceStarted, sockets, senderOn,
     wakeSender, resync, paced, credit} \subseteq BOOLEAN

\* The places of the session's threads.
SessionPlaces ==
    /\ sender \in {"none", "wait", "take", "send", "pacing", "wire", "resync", "done"}
    /\ receiver \in {"none", "loop", "exit", "stopping", "finish", "done"}
    /\ direction \in {NoCaller, "control", "receiver"}
    /\ control \in ControlRecord
    /\ life \in [at : {"idle", "stopping", "sender", "receiver"},
                 joined : BOOLEAN]

\* The queue of access units and its two ends.
Ring ==
    /\ queue \in [Txs -> [state : {"free", "filling", "ready", "owned"},
                          slot : EncSlots \cup {NoSlot}]]
    /\ rd \in Txs /\ wr \in Txs

\* The updates of the media lock holder's record that put a direction aside.
LEMMA ControlUpdates ==
  ASSUME NEW r \in ControlRecord
  PROVE  /\ [r EXCEPT !.at = "started"] \in ControlRecord
         /\ [r EXCEPT !.at = "undo"] \in ControlRecord
         /\ [r EXCEPT !.at = "undoing"] \in ControlRecord
         /\ [r EXCEPT !.at = "store"] \in ControlRecord
         /\ [at |-> "idle", want |-> FALSE] \in ControlRecord
<1>1. FALSE \in BOOLEAN
  OBVIOUS
<1>2. QED
  BY <1>1, Zenon DEF ControlRecord

\* The session's half of TypeOK.
SessionTypes == SessionFlags /\ SessionPlaces /\ Ring

\* TypeOK is the source's half and the session's, before and after a step.
LEMMA TypeParts ==
  /\ TypeOK <=> SourceTypeOK /\ SessionTypes
  /\ TypeOK' <=> SourceTypeOK' /\ SessionTypes'
BY DEF TypeOK, SessionTypes, SessionFlags, SessionPlaces, ControlRecord, Ring

\* The ring is not empty, and its next place is one of it.
LEMMA NextSlot == 0 \in Txs /\ \A i \in Txs : NextTx(i) \in Txs
BY SessionAssumption DEF Txs, NextTx

\* A step that leaves the ring alone keeps its type.
LEMMA RingKept ==
  ASSUME Ring, UNCHANGED <<queue, rd, wr>>
  PROVE  Ring'
BY DEF Ring

\* So does every other.
LEMMA RingStep ==
  ASSUME SourceTypeOK, Ring, [Next]_vars
  PROVE  Ring'
<1>1. CASE SourceStep
  BY <1>1, RingKept DEF SourceStep, taskVars
<1>2. CASE QueueFills
  BY <1>2 DEF QueueFills, Ring, SourceTypeOK, EncRecord
<1>3. CASE QueuePublishes
  BY <1>3, NextSlot DEF QueuePublishes, Ring
<1>4. CASE Queueing /\ ~QueueFills /\ ~QueuePublishes
  BY <1>4, RingKept DEF Queueing, QueueClosed, QueueOversize, QueueAwaitsKey, QueueAdmits,
     QueueDrops, TurnAway, taskVars
<1>5. CASE SenderTakes
  BY <1>5 DEF SenderTakes, SenderGoes, Ring
<1>6. CASE FreeSlot
  BY <1>6, NextSlot DEF FreeSlot, SenderGoes, Ring, Free
<1>7. CASE Sender \/ AudioSent
  BY <1>5, <1>6, <1>7, RingKept DEF Sender, AudioSent, SenderWakes, SenderDrained,
     SenderDiscards, SenderBegins, SenderPaced, SenderSends, SenderResyncs, SenderGoes
<1>8. CASE StartSender
  BY <1>8, NextSlot DEF StartSender, ClearQueue, Free, Ring
<1>9. CASE StopJoinsSender
  BY <1>9 DEF StopJoinsSender, ClearQueue, Free, Ring
<1>10. CASE RequestStop \/ StartSession \/ StartFails \/ \E want
        \in BOOLEAN : DirectionBegins(want)
  BY <1>10, RingKept DEF RequestStop, StartSession, StartFails, DirectionBegins
<1>11. CASE Direction
  BY <1>11, RingKept DEF Direction, DirectionStartsSource, DirectionStarted, DirectionStops,
     DirectionStopped, DirectionUndone, DirectionFinal, DirectionStores, taskVars
<1>12. CASE Receiver
  BY <1>12, RingKept DEF Receiver, ReceiverTerminates, ReceiverBreaks, ReceiverQuiesces,
     ReceiverStopsSource, ReceiverFinishes, taskVars
<1>13. CASE StopBegins \/ StopStopsSource \/ StopJoinsReceiver
  BY <1>13, RingKept DEF StopBegins, StopStopsSource, StopJoinsReceiver, taskVars
<1>14. CASE UNCHANGED vars
  BY <1>14, RingKept DEF vars, taskVars
<1> QED
  BY <1>1, <1>2, <1>3, <1>4, <1>7, <1>8, <1>9, <1>10, <1>11, <1>12, <1>13, <1>14 DEF Next,
     Control, Stop

\* The session's flags under the steps of queue_access_unit_.
LEMMA FlagsByQueueing ==
  ASSUME SourceTypeOK, SessionTypes, Queueing
  PROVE  SessionFlags'
<1> USE DEF SessionFlags, SessionTypes, SenderAlive
<1>1. CASE QueueClosed
  BY <1>1 DEF QueueClosed, TurnAway, sessionVars, taskVars
<1>2. CASE QueueOversize
  BY <1>2 DEF QueueOversize, TurnAway, sessionVars, taskVars
<1>3. CASE QueueAwaitsKey
  BY <1>3 DEF QueueAwaitsKey, TurnAway, sessionVars, taskVars
<1>4. CASE QueueAdmits
  BY <1>4 DEF QueueAdmits, TurnAway, sessionVars, taskVars
<1>5. CASE QueueDrops
  BY <1>5 DEF QueueDrops, TurnAway, sessionVars, taskVars
<1>6. CASE QueueFills
  BY <1>6 DEF QueueFills, TurnAway, sessionVars, taskVars
<1>7. CASE QueuePublishes
  BY <1>7, Zenon DEF QueuePublishes, TurnAway, sessionVars, taskVars
<1> QED
  BY <1>1, <1>2, <1>3, <1>4, <1>5, <1>6, <1>7 DEF Queueing

\* The session's flags under the steps of the sender task.
LEMMA FlagsBySender ==
  ASSUME SourceTypeOK, SessionTypes, Sender \/ AudioSent
  PROVE  SessionFlags'
<1> USE DEF SessionFlags, SessionTypes, SenderAlive
<1>1. CASE SenderWakes
  BY <1>1 DEF SenderWakes, sessionVars, SenderGoes, sourceVars
<1>2. CASE SenderTakes
  BY <1>2 DEF SenderTakes, sessionVars, SenderGoes, sourceVars
<1>3. CASE SenderDrained
  BY <1>3 DEF SenderDrained, sessionVars, SenderGoes, sourceVars, NextRound
<1>4. CASE SenderDiscards
  BY <1>4 DEF SenderDiscards, sessionVars, SenderGoes, FreeSlot, Admitted
<1>5. CASE SenderBegins
  BY <1>5 DEF SenderBegins, sessionVars, SenderGoes, sourceVars, Admitted
<1>6. CASE SenderPaced
  BY <1>6 DEF SenderPaced, sessionVars, SenderGoes, FreeSlot, sourceVars, Open
<1>7. CASE SenderSends
  BY <1>7 DEF SenderSends, sessionVars, SenderGoes, FreeSlot
<1>8. CASE SenderResyncs
  BY <1>8 DEF SenderResyncs, sessionVars, SenderGoes, RequestKeyFrame, sourceVars, SourceFree,
     NextRound
<1>9. CASE AudioSent
  BY <1>9 DEF AudioSent, sessionVars, sourceVars, Open
<1> QED
  BY <1>1, <1>2, <1>3, <1>4, <1>5, <1>6, <1>7, <1>8, <1>9 DEF Sender

\* The session's flags when a session or a change of direction
\* begins, or a stop is requested.
LEMMA FlagsByStart ==
  ASSUME SourceTypeOK, SessionTypes, Beginning
  PROVE  SessionFlags'
<1> USE DEF SessionFlags, SessionTypes, SenderAlive
<1>1. CASE RequestStop
  BY <1>1, SessionAssumption DEF RequestStop, Gate, sourceVars
<1>2. CASE StartSession
  BY <1>2, SessionAssumption DEF StartSession, Ready, sourceVars, Reaped
<1>3. CASE StartSender
  BY <1>3, SessionAssumption DEF StartSender, ClearQueue
<1>4. CASE StartFails
  BY <1>4, SessionAssumption DEF StartFails, Gate, sourceVars
<1>5. CASE \E want \in BOOLEAN : DirectionBegins(want)
  BY <1>5, SessionAssumption DEF DirectionBegins, WakeSender, sourceVars
<1> QED
  BY <1>1, <1>2, <1>3, <1>4, <1>5 DEF Beginning

\* The session's flags under the steps of request_media_direction.
LEMMA FlagsByDirection ==
  ASSUME SourceTypeOK, SessionTypes, Direction
  PROVE  SessionFlags'
<1> USE DEF SessionFlags, SessionTypes, SenderAlive
<1>1. CASE DirectionStartsSource
  BY <1>1, SessionAssumption DEF DirectionStartsSource, sessionVars, taskVars, ControlGoes,
     LeaveDirection, Ended, StartOk, StartRefused, StartWithoutCamera, Ready, sourceVars,
     SourceFree
<1>2. CASE DirectionStarted
  BY <1>2, SessionAssumption DEF DirectionStarted, taskVars, ControlGoes, LeaveDirection,
     TakeBack, Ended, sourceVars
<1>3. CASE DirectionStops
  BY <1>3, SessionAssumption DEF DirectionStops, sessionVars, taskVars, ControlGoes,
     EnterStop, SourceFree
<1>4. CASE DirectionStopped
  BY <1>4, SessionAssumption DEF DirectionStopped, sessionVars, WakeSender, ControlGoes,
     Leave, Returned
<1>5. CASE DirectionUndone
  BY <1>5, SessionAssumption DEF DirectionUndone, sessionVars, taskVars, LeaveDirection,
     Leave, Returned
<1>6. CASE DirectionFinal
  BY <1>6, Zenon DEF DirectionFinal, taskVars, ControlGoes, LeaveDirection, TakeBack, Ended,
     sourceVars
<1>7. CASE DirectionStores
  <2>1. control.want \in BOOLEAN
    BY DEF SessionPlaces, ControlRecord
  <2>2. sendOn' \in BOOLEAN
    BY <1>7, <2>1, Zenon DEF DirectionStores
  <2>3. UNCHANGED <<running, terminate, prepared, sourceStarted, sockets, taskVars>>
    BY <1>7 DEF DirectionStores
  <2>4. QED
    BY <2>2, <2>3 DEF taskVars
<1> QED
  BY <1>1, <1>2, <1>3, <1>4, <1>5, <1>6, <1>7 DEF Direction

\* The session's flags under the steps of the receive worker.
LEMMA FlagsByReceiver ==
  ASSUME SourceTypeOK, SessionTypes, Receiver
  PROVE  SessionFlags'
<1> USE DEF SessionFlags, SessionTypes, SenderAlive
<1>1. CASE ReceiverTerminates
  BY <1>1 DEF ReceiverTerminates, sessionVars, taskVars, ReceiverGoes, sourceVars
<1>2. CASE ReceiverBreaks
  BY <1>2 DEF ReceiverBreaks, taskVars, sourceVars
<1>3. CASE ReceiverQuiesces
  BY <1>3 DEF ReceiverQuiesces, ReceiverGoes, sourceVars
<1>4. CASE ReceiverStopsSource
  BY <1>4 DEF ReceiverStopsSource, sessionVars, taskVars, ReceiverGoes, EnterStop, Leave,
     Returned, SourceFree
<1>5. CASE ReceiverFinishes
  BY <1>5 DEF ReceiverFinishes, taskVars, sourceVars
<1> QED
  BY <1>1, <1>2, <1>3, <1>4, <1>5 DEF Receiver

\* The session's flags under the steps of stop, on the lifecycle worker.
LEMMA FlagsByStop ==
  ASSUME SourceTypeOK, SessionTypes, Stop
  PROVE  SessionFlags'
<1> USE DEF SessionFlags, SessionTypes, SenderAlive
<1>1. CASE StopBegins
  BY <1>1, SessionAssumption DEF StopBegins, Gate, LifeGoes, sourceVars
<1>2. CASE StopStopsSource
  BY <1>2, SessionAssumption DEF StopStopsSource, sessionVars, taskVars, LifeGoes, EnterStop,
     Leave, Returned, SourceFree
<1>3. CASE StopJoinsSender
  BY <1>3, SessionAssumption DEF StopJoinsSender, sessionVars, ClearQueue, sourceVars
<1>4. CASE StopJoinsReceiver
  BY <1>4, SessionAssumption DEF StopJoinsReceiver, taskVars, ReceiverGoes, sourceVars
<1> QED
  BY <1>1, <1>2, <1>3, <1>4 DEF Stop

\* The places of the session's threads under the steps of queue_access_unit_.
LEMMA PlaceByQueueing ==
  ASSUME SourceTypeOK, SessionTypes, Queueing
  PROVE  SessionPlaces'
<1> USE DEF SessionPlaces, SessionTypes, ControlRecord
<1>1. CASE QueueClosed
  BY <1>1 DEF QueueClosed, TurnAway, sessionVars, taskVars
<1>2. CASE QueueOversize
  BY <1>2 DEF QueueOversize, TurnAway, sessionVars, taskVars
<1>3. CASE QueueAwaitsKey
  BY <1>3 DEF QueueAwaitsKey, TurnAway, sessionVars, taskVars
<1>4. CASE QueueAdmits
  BY <1>4 DEF QueueAdmits, TurnAway, sessionVars, taskVars
<1>5. CASE QueueDrops
  BY <1>5 DEF QueueDrops, TurnAway, sessionVars, taskVars
<1>6. CASE QueueFills
  BY <1>6 DEF QueueFills, TurnAway, sessionVars, taskVars
<1>7. CASE QueuePublishes
  BY <1>7 DEF QueuePublishes, TurnAway, sessionVars, taskVars
<1> QED
  BY <1>1, <1>2, <1>3, <1>4, <1>5, <1>6, <1>7 DEF Queueing

\* The places of the session's threads under the steps of the sender task.
LEMMA PlaceBySender ==
  ASSUME SourceTypeOK, SessionTypes, Sender \/ AudioSent
  PROVE  SessionPlaces'
<1> USE DEF SessionPlaces, SessionTypes, ControlRecord
<1>1. CASE SenderWakes
  BY <1>1 DEF SenderWakes, sessionVars, SenderGoes, sourceVars
<1>2. CASE SenderTakes
  BY <1>2 DEF SenderTakes, sessionVars, SenderGoes, sourceVars
<1>3. CASE SenderDrained
  BY <1>3 DEF SenderDrained, sessionVars, SenderGoes, sourceVars, NextRound
<1>4. CASE SenderDiscards
  BY <1>4 DEF SenderDiscards, sessionVars, SenderGoes, FreeSlot, Admitted
<1>5. CASE SenderBegins
  BY <1>5 DEF SenderBegins, sessionVars, SenderGoes, sourceVars, Admitted
<1>6. CASE SenderPaced
  BY <1>6 DEF SenderPaced, sessionVars, SenderGoes, FreeSlot, sourceVars, Open
<1>7. CASE SenderSends
  BY <1>7 DEF SenderSends, sessionVars, SenderGoes, FreeSlot
<1>8. CASE SenderResyncs
  BY <1>8 DEF SenderResyncs, sessionVars, SenderGoes, RequestKeyFrame, sourceVars, SourceFree,
     NextRound
<1>9. CASE AudioSent
  BY <1>9 DEF AudioSent, sessionVars, sourceVars, Open
<1> QED
  BY <1>1, <1>2, <1>3, <1>4, <1>5, <1>6, <1>7, <1>8, <1>9 DEF Sender

\* The places of the session's threads when a session or a change of direction
\* begins, or a stop is requested.
LEMMA PlaceByStart ==
  ASSUME SourceTypeOK, SessionTypes, Beginning
  PROVE  SessionPlaces'
<1> USE DEF SessionPlaces, SessionTypes, ControlRecord
<1>1. CASE RequestStop
  BY <1>1, SessionAssumption DEF RequestStop, Gate, sourceVars
<1>2. CASE StartSession
  BY <1>2, SessionAssumption DEF StartSession, Ready, sourceVars, Reaped
<1>3. CASE StartSender
  BY <1>3, SessionAssumption DEF StartSender, ClearQueue
<1>4. CASE StartFails
  BY <1>4, SessionAssumption DEF StartFails, Gate, sourceVars
<1>5. CASE \E want \in BOOLEAN : DirectionBegins(want)
  BY <1>5, SessionAssumption DEF DirectionBegins, WakeSender, sourceVars
<1> QED
  BY <1>1, <1>2, <1>3, <1>4, <1>5 DEF Beginning

\* The places of the session's threads under the steps of request_media_direction.
LEMMA PlaceByDirection ==
  ASSUME SourceTypeOK, SessionTypes, Direction
  PROVE  SessionPlaces'
<1> USE DEF SessionPlaces, SessionTypes, ControlRecord
<1>1. CASE DirectionStartsSource
  <2>1. \/ control' = [control EXCEPT !.at = "started"] /\ UNCHANGED direction
        \/ control' = [control EXCEPT !.at = "undoing"] /\ UNCHANGED direction
        \/ control' = [at |-> "idle", want |-> FALSE] /\ direction' = NoCaller
    BY <1>1 DEF DirectionStartsSource, ControlGoes, LeaveDirection
  <2>2. UNCHANGED <<sender, receiver, life>>
    BY <1>1 DEF DirectionStartsSource, taskVars
  <2>3. control \in ControlRecord
    OBVIOUS
  <2>4. control' \in ControlRecord
    BY <2>1, <2>3, ControlUpdates, Zenon
  <2>5. QED
    BY <2>1, <2>2, <2>4
<1>2. CASE DirectionStarted
  BY <1>2, SessionAssumption DEF DirectionStarted, taskVars, ControlGoes, LeaveDirection,
     TakeBack, Ended, sourceVars
<1>3. CASE DirectionStops
  BY <1>3, SessionAssumption DEF DirectionStops, sessionVars, taskVars, ControlGoes,
     EnterStop, SourceFree
<1>4. CASE DirectionStopped
  BY <1>4, SessionAssumption DEF DirectionStopped, sessionVars, WakeSender, ControlGoes,
     Leave, Returned
<1>5. CASE DirectionUndone
  BY <1>5, SessionAssumption DEF DirectionUndone, sessionVars, taskVars, LeaveDirection,
     Leave, Returned
<1>6. CASE DirectionFinal
  <2>1. \/ control' = [control EXCEPT !.at = "undo"] /\ UNCHANGED direction
        \/ control' = [control EXCEPT !.at = "store"] /\ UNCHANGED direction
        \/ control' = [at |-> "idle", want |-> FALSE] /\ direction' = NoCaller
    BY <1>6 DEF DirectionFinal, TakeBack, ControlGoes, LeaveDirection
  <2>2. UNCHANGED <<sender, receiver, life>>
    BY <1>6 DEF DirectionFinal, taskVars
  <2>3. control \in ControlRecord
    OBVIOUS
  <2>4. control' \in ControlRecord
    BY <2>1, <2>3, ControlUpdates, Zenon
  <2>5. QED
    BY <2>1, <2>2, <2>4
<1>7. CASE DirectionStores
  BY <1>7, SessionAssumption DEF DirectionStores, taskVars, LeaveDirection, sourceVars
<1> QED
  BY <1>1, <1>2, <1>3, <1>4, <1>5, <1>6, <1>7 DEF Direction

\* The places of the session's threads under the steps of the receive worker.
LEMMA PlaceByReceiver ==
  ASSUME SourceTypeOK, SessionTypes, Receiver
  PROVE  SessionPlaces'
<1> USE DEF SessionPlaces, SessionTypes, ControlRecord
<1>1. CASE ReceiverTerminates
  BY <1>1 DEF ReceiverTerminates, sessionVars, taskVars, ReceiverGoes, sourceVars
<1>2. CASE ReceiverBreaks
  BY <1>2 DEF ReceiverBreaks, taskVars, sourceVars
<1>3. CASE ReceiverQuiesces
  BY <1>3 DEF ReceiverQuiesces, ReceiverGoes, sourceVars
<1>4. CASE ReceiverStopsSource
  BY <1>4 DEF ReceiverStopsSource, sessionVars, taskVars, ReceiverGoes, EnterStop, Leave,
     Returned, SourceFree
<1>5. CASE ReceiverFinishes
  BY <1>5 DEF ReceiverFinishes, taskVars, sourceVars
<1> QED
  BY <1>1, <1>2, <1>3, <1>4, <1>5 DEF Receiver

\* The places of the session's threads under the steps of stop, on the lifecycle worker.
LEMMA PlaceByStop ==
  ASSUME SourceTypeOK, SessionTypes, Stop
  PROVE  SessionPlaces'
<1> USE DEF SessionPlaces, SessionTypes, ControlRecord
<1>1. CASE StopBegins
  BY <1>1, SessionAssumption DEF StopBegins, Gate, LifeGoes, sourceVars
<1>2. CASE StopStopsSource
  BY <1>2, SessionAssumption DEF StopStopsSource, sessionVars, taskVars, LifeGoes, EnterStop,
     Leave, Returned, SourceFree
<1>3. CASE StopJoinsSender
  BY <1>3, SessionAssumption DEF StopJoinsSender, sessionVars, ClearQueue, sourceVars
<1>4. CASE StopJoinsReceiver
  BY <1>4, SessionAssumption DEF StopJoinsReceiver, taskVars, ReceiverGoes, sourceVars
<1> QED
  BY <1>1, <1>2, <1>3, <1>4 DEF Stop

\* Every step keeps the session's half.
LEMMA SessionTypesStep ==
  ASSUME TypeOK, [Next]_vars
  PROVE  SessionTypes'
<1>1. SourceTypeOK /\ SessionTypes
  BY TypeParts
<1>2. Ring'
  BY <1>1, RingStep DEF SessionTypes
<1>3. CASE SourceStep \/ UNCHANGED vars
  <2>1. UNCHANGED <<sessionVars, taskVars, receiver, direction, control, life>>
    BY <1>3 DEF SourceStep, vars
  <2>2. QED
    BY <1>1, <1>2, <2>1 DEF SessionTypes, SessionFlags, SessionPlaces, sessionVars, taskVars
<1>4. CASE Queueing
  BY <1>1, <1>2, <1>4, FlagsByQueueing, PlaceByQueueing DEF SessionTypes
<1>5. CASE Sender \/ AudioSent
  BY <1>1, <1>2, <1>5, FlagsBySender, PlaceBySender DEF SessionTypes
<1>6. CASE Beginning
  BY <1>1, <1>2, <1>6, FlagsByStart, PlaceByStart DEF SessionTypes
<1>7. CASE Direction
  BY <1>1, <1>2, <1>7, FlagsByDirection, PlaceByDirection DEF SessionTypes
<1>8. CASE Receiver
  BY <1>1, <1>2, <1>8, FlagsByReceiver, PlaceByReceiver DEF SessionTypes
<1>9. CASE Stop
  BY <1>1, <1>2, <1>9, FlagsByStop, PlaceByStop DEF SessionTypes
<1>10. QED
  BY <1>3, <1>4, <1>5, <1>6, <1>7, <1>8, <1>9 DEF Next, Control, Beginning

\* Every step keeps TypeOK.
LEMMA TypeStep ==
  ASSUME TypeOK, [Next]_vars
  PROVE  TypeOK'
BY TypeParts, SourceTypeStep, SessionTypesStep

-----------------------------------------------------------------------------
(* What a stop and a shutdown leave behind. *)

\* No encoded slot is out.
NoneLent == \A e \in EncSlots : ~encoded[e]

\* tx_slots_idle_ says that nobody uses a slot, before and after a step.
LEMMA IdleIsEmpty ==
  /\ SourceTypeOK => (Idle <=> cam.at \in {"out", "calling"} /\ Empty /\ NoneLent)
  /\ SourceTypeOK' => (Idle' <=> cam'.at \in {"out", "calling"} /\ Empty' /\ NoneLent')
<1>1. ASSUME SourceTypeOK PROVE Idle <=> cam.at \in {"out", "calling"} /\ Empty /\ NoneLent
  BY <1>1, YuvUnused DEF Idle, NoneLent, Empty
<1>2. ASSUME SourceTypeOK' PROVE Idle' <=> cam'.at \in {"out", "calling"} /\ Empty' /\ NoneLent'
  BY <1>2, YuvUnused DEF Idle, NoneLent, Empty
<1>3. QED
  BY <1>1, <1>2

\* FreedIsUnused without counting.
FreedEmpty == down.at = "freed" => enc.at = "joined" /\ Empty /\ NoneLent

\* It is the same as FreedIsUnused.
LEMMA FreedIsEmpty ==
  /\ SourceTypeOK => (FreedIsUnused <=> FreedEmpty)
  /\ SourceTypeOK' => (FreedIsUnused' <=> FreedEmpty')
<1>1. ASSUME SourceTypeOK PROVE FreedIsUnused <=> FreedEmpty
  BY <1>1, YuvUnused DEF FreedIsUnused, FreedEmpty, NoneLent, Empty
<1>2. ASSUME SourceTypeOK' PROVE FreedIsUnused' <=> FreedEmpty'
  BY <1>2, YuvUnused DEF FreedIsUnused, FreedEmpty, NoneLent, Empty
<1>3. QED
  BY <1>1, <1>2

\* A stop or a shutdown has closed the source, and freed buffers are unused.
Closed == SourceCloses /\ FreedEmpty

\* A closed source under the steps of the camera's thread.
LEMMA ClosedByCamera ==
  ASSUME SourceTypeOK, SourceTypeOK', Closed, Camera
  PROVE  Closed'
<1> USE DEF SourceTypeOK, CamRecord, EncRecord, CallRecord, DownRecord, Closed, SourceCloses,
   SourceFree, NoCaller, Callers, FreedEmpty, ShuttingDown, Empty,
   HoldsYuv, Filling, NoneLent
<1>1. CASE CameraCalls
  BY <1>1 DEF CameraCalls
<1>2. CASE CameraEnters
  BY <1>2 DEF CameraEnters
<1>3. CASE CameraGate
  BY <1>3 DEF CameraGate
<1>4. CASE CameraAbandons
  BY <1>4 DEF CameraAbandons
<1>5. CASE CameraChecks
  BY <1>5 DEF CameraChecks
<1>6. CASE CameraQueues
  BY <1>6 DEF CameraQueues, EncoderAlive
<1>7. CASE CameraLeaves
  BY <1>7 DEF CameraLeaves, AfterRelease
<1> QED
  BY <1>1, <1>2, <1>3, <1>4, <1>5, <1>6, <1>7 DEF Camera

\* A closed source under the steps of the encoder task.
LEMMA ClosedByEncoder ==
  ASSUME SourceTypeOK, SourceTypeOK', Closed, Encoder
  PROVE  Closed'
<1> USE DEF SourceTypeOK, CamRecord, EncRecord, CallRecord, DownRecord, Closed, SourceCloses,
   SourceFree, NoCaller, Callers, FreedEmpty, ShuttingDown, Empty,
   HoldsYuv, Filling, NoneLent
<1>1. CASE EncoderTakes
  BY <1>1 DEF EncoderTakes, TaskRunning
<1>2. CASE EncoderSleeps
  BY <1>2 DEF EncoderSleeps, TaskRunning
<1>3. CASE EncoderWakes
  BY <1>3 DEF EncoderWakes
<1>4. CASE EncoderSkipsStale
  BY <1>4 DEF EncoderSkipsStale
<1>5. CASE EncoderDrops
  BY <1>5 DEF EncoderDrops
<1>6. CASE EncoderEncodes
  BY <1>6 DEF EncoderEncodes
<1>7. CASE EncoderDiscards
  BY <1>7 DEF EncoderDiscards
<1>8. CASE EncoderPublishes
  BY <1>8 DEF EncoderPublishes
<1>9. CASE EncoderReleases
  BY <1>9 DEF EncoderReleases, AfterRelease
<1>10. CASE EncoderEnds
  BY <1>10 DEF EncoderEnds, TaskRunning
<1> QED
  BY <1>1, <1>2, <1>3, <1>4, <1>5, <1>6, <1>7, <1>8, <1>9, <1>10 DEF Encoder

\* A closed source under the steps of a stop that waits.
LEMMA ClosedByBarrier ==
  ASSUME SourceTypeOK, SourceTypeOK', Closed, Barrier \/ BarrierDeadline
  PROVE  Closed'
<1> USE DEF SourceTypeOK, CamRecord, EncRecord, CallRecord, DownRecord, Closed, SourceCloses,
   SourceFree, NoCaller, Callers, FreedEmpty, ShuttingDown, Empty,
   HoldsYuv, Filling, NoneLent
<1>1. CASE RequestVideoStop
  BY <1>1 DEF RequestVideoStop, StopSource, NewGeneration, ControlFree, InControl
<1>2. CASE CheckBarrier
  BY <1>2 DEF CheckBarrier
<1>3. CASE PassBarrier
  BY <1>3 DEF PassBarrier, MissBarrier
<1>4. CASE BarrierDeadline
  BY <1>4 DEF BarrierDeadline, MissBarrier
<1> QED
  BY <1>1, <1>2, <1>3, <1>4 DEF Barrier

\* A closed source under the steps of the main loop's shutdown.
LEMMA ClosedByShutdown ==
  ASSUME SourceTypeOK, SourceTypeOK', Closed, Shutdown
  PROVE  Closed'
<1> USE DEF SourceTypeOK, CamRecord, EncRecord, CallRecord, DownRecord, Closed, SourceCloses,
   SourceFree, NoCaller, Callers, FreedEmpty, ShuttingDown, Empty,
   HoldsYuv, Filling, NoneLent
<1>1. CASE BeginShutdown
  BY <1>1, IdleIsEmpty DEF BeginShutdown, StopSource, NewGeneration, ControlFree, InControl
<1>2. CASE JoinTask
  BY <1>2, IdleIsEmpty DEF JoinTask, ControlFree, InControl, Reap, FreeIfQuiet
<1>3. CASE Loop
  BY <1>3, IdleIsEmpty DEF Loop, ControlFree, InControl, Reap, FreeIfQuiet
<1> QED
  BY <1>1, <1>2, <1>3 DEF Shutdown

\* A closed source under the steps of queue_access_unit_.
LEMMA ClosedByQueueing ==
  ASSUME SourceTypeOK, SourceTypeOK', Closed, Queueing
  PROVE  Closed'
<1> USE DEF SourceTypeOK, CamRecord, EncRecord, CallRecord, DownRecord, Closed, SourceCloses,
   SourceFree, NoCaller, Callers, FreedEmpty, ShuttingDown, Empty,
   HoldsYuv, Filling, NoneLent
<1>1. CASE QueueClosed
  BY <1>1 DEF QueueClosed, AfterRelease, TurnAway, CallbackDone, ReturnSlot
<1>2. CASE QueueOversize
  BY <1>2 DEF QueueOversize, AfterRelease, TurnAway, CallbackDone, ReturnSlot
<1>3. CASE QueueAwaitsKey
  BY <1>3 DEF QueueAwaitsKey, AfterRelease, TurnAway, CallbackDone, ReturnSlot
<1>4. CASE QueueAdmits
  BY <1>4 DEF QueueAdmits
<1>5. CASE QueueDrops
  BY <1>5 DEF QueueDrops, AfterRelease, TurnAway, CallbackDone, ReturnSlot
<1>6. CASE QueueFills
  BY <1>6 DEF QueueFills
<1>7. CASE QueuePublishes
  BY <1>7 DEF QueuePublishes, CallbackDone
<1> QED
  BY <1>1, <1>2, <1>3, <1>4, <1>5, <1>6, <1>7 DEF Queueing

\* A closed source under the steps of the session.
LEMMA ClosedBySession ==
  ASSUME SourceTypeOK, SourceTypeOK', Closed, SessionOnSource
  PROVE  Closed'
<1> USE DEF SourceTypeOK, CamRecord, EncRecord, CallRecord, DownRecord, Closed, SourceCloses,
   SourceFree, NoCaller, Callers, FreedEmpty, ShuttingDown, Empty,
   HoldsYuv, Filling, NoneLent
<1>1. CASE UNCHANGED sourceVars
  BY <1>1 DEF sourceVars
<1>2. CASE GivesBack
  BY <1>2 DEF GivesBack, restOfSource, AfterRelease
<1>3. CASE StartOk
  BY <1>3 DEF StartOk, NewGeneration, Ready
<1>4. CASE StartWithoutCamera("control")
  BY <1>4 DEF StartWithoutCamera, NewGeneration, Ready
<1>5. CASE \E by \in Callers : EnterStop(by)
  BY <1>5 DEF EnterStop
<1>6. CASE call.at = "done" /\ Leave
  BY <1>6 DEF Leave, NoCall
<1> QED
  BY <1>1, <1>2, <1>3, <1>4, <1>5, <1>6 DEF SessionOnSource

\* Every step keeps it.
LEMMA ClosedStep ==
  ASSUME SourceTypeOK, SourceTypeOK', Closed, [Next]_vars
  PROVE  Closed'
BY StepOnSource, ClosedByCamera, ClosedByEncoder, ClosedByBarrier, ClosedByShutdown,
   ClosedByQueueing, ClosedBySession DEF SourceMoves

-----------------------------------------------------------------------------
(* The signals of the source: the idle barrier and the main loop's wake-up. *)

\* The barrier is signalled, and a shutdown that waits is woken.
SourceSignals == BarrierIsSignalled /\ ShutdownIsWoken

\* The source's signals under the steps of the camera's thread.
LEMMA SignalsByCamera ==
  ASSUME SourceTypeOK, SourceTypeOK', SourceCloses, SourceCloses', SourceSignals, Camera
  PROVE  SourceSignals'
<1> USE DEF SourceTypeOK, CamRecord, EncRecord, CallRecord, DownRecord, SourceSignals,
   BarrierIsSignalled, ShutdownIsWoken, SourceCloses, ShuttingDown, Empty,
   HoldsYuv, Filling, NoneLent
<1>1. CASE CameraCalls
  BY <1>1, IdleIsEmpty DEF CameraCalls
<1>2. CASE CameraEnters
  BY <1>2, IdleIsEmpty DEF CameraEnters
<1>3. CASE CameraGate
  BY <1>3, IdleIsEmpty DEF CameraGate
<1>4. CASE CameraAbandons
  BY <1>4, IdleIsEmpty DEF CameraAbandons
<1>5. CASE CameraChecks
  BY <1>5, IdleIsEmpty DEF CameraChecks
<1>6. CASE CameraQueues
  BY <1>6, IdleIsEmpty DEF CameraQueues, EncoderAlive
<1>7. CASE CameraLeaves
  BY <1>7, IdleIsEmpty DEF CameraLeaves, AfterRelease
<1> QED
  BY <1>1, <1>2, <1>3, <1>4, <1>5, <1>6, <1>7 DEF Camera

\* The source's signals under the steps of the encoder task.
LEMMA SignalsByEncoder ==
  ASSUME SourceTypeOK, SourceTypeOK', SourceCloses, SourceCloses', SourceSignals, Encoder
  PROVE  SourceSignals'
<1> USE DEF SourceTypeOK, CamRecord, EncRecord, CallRecord, DownRecord, SourceSignals,
   BarrierIsSignalled, ShutdownIsWoken, SourceCloses, ShuttingDown, Empty,
   HoldsYuv, Filling, NoneLent
<1>1. CASE EncoderTakes
  BY <1>1, IdleIsEmpty DEF EncoderTakes, TaskRunning
<1>2. CASE EncoderSleeps
  BY <1>2, IdleIsEmpty DEF EncoderSleeps, TaskRunning
<1>3. CASE EncoderWakes
  BY <1>3, IdleIsEmpty DEF EncoderWakes
<1>4. CASE EncoderSkipsStale
  BY <1>4, IdleIsEmpty DEF EncoderSkipsStale
<1>5. CASE EncoderDrops
  BY <1>5, IdleIsEmpty DEF EncoderDrops
<1>6. CASE EncoderEncodes
  BY <1>6, IdleIsEmpty DEF EncoderEncodes
<1>7. CASE EncoderDiscards
  BY <1>7, IdleIsEmpty DEF EncoderDiscards
<1>8. CASE EncoderPublishes
  BY <1>8, IdleIsEmpty DEF EncoderPublishes
<1>9. CASE EncoderReleases
  BY <1>9, IdleIsEmpty DEF EncoderReleases, AfterRelease
<1>10. CASE EncoderEnds
  BY <1>10, IdleIsEmpty DEF EncoderEnds, TaskRunning
<1> QED
  BY <1>1, <1>2, <1>3, <1>4, <1>5, <1>6, <1>7, <1>8, <1>9, <1>10 DEF Encoder

\* The source's signals under the steps of a stop that waits.
LEMMA SignalsByBarrier ==
  ASSUME SourceTypeOK, SourceTypeOK', SourceCloses, SourceCloses', SourceSignals, Barrier
          \/ BarrierDeadline
  PROVE  SourceSignals'
<1> USE DEF SourceTypeOK, CamRecord, EncRecord, CallRecord, DownRecord, SourceSignals,
   BarrierIsSignalled, ShutdownIsWoken, SourceCloses, ShuttingDown, Empty,
   HoldsYuv, Filling, NoneLent
<1>1. CASE RequestVideoStop
  BY <1>1, IdleIsEmpty DEF RequestVideoStop, StopSource, NewGeneration, ControlFree, InControl
<1>2. CASE CheckBarrier
  BY <1>2, IdleIsEmpty DEF CheckBarrier
<1>3. CASE PassBarrier
  BY <1>3, IdleIsEmpty DEF PassBarrier, MissBarrier
<1>4. CASE BarrierDeadline
  BY <1>4, IdleIsEmpty DEF BarrierDeadline, MissBarrier
<1> QED
  BY <1>1, <1>2, <1>3, <1>4 DEF Barrier

\* The source's signals under the steps of the main loop's shutdown.
LEMMA SignalsByShutdown ==
  ASSUME SourceTypeOK, SourceTypeOK', SourceCloses, SourceCloses', SourceSignals, Shutdown
  PROVE  SourceSignals'
<1> USE DEF SourceTypeOK, CamRecord, EncRecord, CallRecord, DownRecord, SourceSignals,
   BarrierIsSignalled, ShutdownIsWoken, SourceCloses, ShuttingDown, Empty,
   HoldsYuv, Filling, NoneLent
<1>1. CASE BeginShutdown
  BY <1>1, IdleIsEmpty DEF BeginShutdown, StopSource, NewGeneration, ControlFree, InControl
<1>2. CASE JoinTask
  BY <1>2, IdleIsEmpty DEF JoinTask, ControlFree, InControl, Reap, FreeIfQuiet
<1>3. CASE Loop
  BY <1>3, IdleIsEmpty DEF Loop, ControlFree, InControl, Reap, FreeIfQuiet
<1> QED
  BY <1>1, <1>2, <1>3 DEF Shutdown

\* The source's signals under the steps of queue_access_unit_.
LEMMA SignalsByQueueing ==
  ASSUME SourceTypeOK, SourceTypeOK', SourceCloses, SourceCloses', SourceSignals, Queueing
  PROVE  SourceSignals'
<1> USE DEF SourceTypeOK, CamRecord, EncRecord, CallRecord, DownRecord, SourceSignals,
   BarrierIsSignalled, ShutdownIsWoken, SourceCloses, ShuttingDown, Empty,
   HoldsYuv, Filling, NoneLent
<1>1. CASE QueueClosed
  BY <1>1, IdleIsEmpty DEF QueueClosed, AfterRelease, TurnAway, CallbackDone, ReturnSlot
<1>2. CASE QueueOversize
  BY <1>2, IdleIsEmpty DEF QueueOversize, AfterRelease, TurnAway, CallbackDone, ReturnSlot
<1>3. CASE QueueAwaitsKey
  BY <1>3, IdleIsEmpty DEF QueueAwaitsKey, AfterRelease, TurnAway, CallbackDone, ReturnSlot
<1>4. CASE QueueAdmits
  BY <1>4, IdleIsEmpty DEF QueueAdmits
<1>5. CASE QueueDrops
  BY <1>5, IdleIsEmpty DEF QueueDrops, AfterRelease, TurnAway, CallbackDone, ReturnSlot
<1>6. CASE QueueFills
  BY <1>6, IdleIsEmpty DEF QueueFills
<1>7. CASE QueuePublishes
  BY <1>7, IdleIsEmpty DEF QueuePublishes, CallbackDone
<1> QED
  BY <1>1, <1>2, <1>3, <1>4, <1>5, <1>6, <1>7 DEF Queueing

\* The source's signals under the steps of the session.
LEMMA SignalsBySession ==
  ASSUME SourceTypeOK, SourceTypeOK', SourceCloses, SourceCloses', SourceSignals,
         SessionOnSource
  PROVE  SourceSignals'
<1> USE IdleIsEmpty DEF SourceTypeOK, CamRecord, EncRecord, CallRecord, DownRecord,
   SourceSignals, BarrierIsSignalled, ShutdownIsWoken, SourceCloses, ShuttingDown, Empty,
   HoldsYuv, Filling, NoneLent
<1>1. CASE UNCHANGED sourceVars
  BY <1>1 DEF sourceVars
<1>2. CASE GivesBack
  BY <1>2 DEF GivesBack, restOfSource, AfterRelease
<1>3. CASE StartOk
  BY <1>3 DEF StartOk, NewGeneration, Ready
<1>4. CASE StartWithoutCamera("control")
  BY <1>4 DEF StartWithoutCamera, NewGeneration, Ready
<1>5. CASE \E by \in Callers : EnterStop(by)
  BY <1>5 DEF EnterStop
<1>6. CASE call.at = "done" /\ Leave
  BY <1>6 DEF Leave, NoCall
<1> QED
  BY <1>1, <1>2, <1>3, <1>4, <1>5, <1>6 DEF SessionOnSource

\* Every step keeps it: a release that empties the source completes both.
LEMMA SignalsStep ==
  ASSUME SourceTypeOK, SourceTypeOK', SourceCloses, SourceCloses', SourceSignals, [Next]_vars
  PROVE  SourceSignals'
BY StepOnSource, SignalsByCamera, SignalsByEncoder, SignalsByBarrier, SignalsByShutdown,
   SignalsByQueueing, SignalsBySession DEF SourceMoves

-----------------------------------------------------------------------------
(* Who will stop an active source. *)

\* Who runs, who excludes whom, and who will stop an active source.
SessionShape == SessionRuns /\ DirectionHeld /\ SourceHasStopper

\* The source's threads and the callback leave the session alone, and no one but the
\* session opens the source.
LEMMA OtherOnSession ==
  ASSUME SourceStep \/ Queueing
  PROVE  /\ UNCHANGED <<sessionVars, receiver, direction, control, life>>
         /\ active' \in {active, FALSE}
<1>1. CASE SourceStep /\ Camera
  BY <1>1 DEF SourceStep, Camera, CameraCalls, CameraEnters, CameraGate, CameraAbandons,
     CameraChecks, CameraQueues, CameraLeaves, sessionVars, taskVars
<1>2. CASE SourceStep /\ Encoder
  BY <1>2, Zenon DEF SourceStep, Encoder, EncoderTakes, EncoderSleeps, EncoderWakes,
     EncoderSkipsStale, EncoderDrops, EncoderEncodes, EncoderDiscards, EncoderPublishes,
     EncoderReleases, EncoderEnds, sessionVars, taskVars
<1>3. CASE SourceStep /\ (Barrier \/ BarrierDeadline \/ Shutdown)
  BY <1>3 DEF SourceStep, Barrier, BarrierDeadline, RequestVideoStop, CheckBarrier, PassBarrier,
     StopSource, Shutdown, BeginShutdown, JoinTask, Loop
<1>4. CASE Queueing
  BY <1>4, Zenon DEF Queueing, QueueClosed, QueueOversize, QueueAwaitsKey, QueueAdmits,
     QueueDrops,
     QueueFills, QueuePublishes, TurnAway, sessionVars, taskVars
<1>5. SourceStep => Camera \/ Encoder \/ Barrier \/ BarrierDeadline \/ Shutdown
  BY DEF SourceStep, OfSource
<1>6. QED
  BY <1>1, <1>2, <1>3, <1>4, <1>5, Zenon

\* A step that leaves the session's places alone and opens no source keeps the shape.
LEMMA ShapeKept ==
  ASSUME SessionShape, active' \in {active, FALSE},
         UNCHANGED <<running, terminate, sourceStarted, receiver, direction, control, life>>
  PROVE  SessionShape'
<1>1. SessionRuns' /\ DirectionHeld'
  BY DEF SessionShape, SessionRuns, DirectionHeld
<1>2. active' => active
  BY FalseIsBoolean
<1>3. SourceHasStopper'
  BY <1>2 DEF SessionShape, SourceHasStopper
<1>4. QED
  BY <1>1, <1>3 DEF SessionShape

\* The sender and the audio sender are such steps.
LEMMA ShapeBySender ==
  ASSUME SourceTypeOK, SessionShape, Sender \/ AudioSent
  PROVE  SessionShape'
<1>1. UNCHANGED <<running, terminate, sourceStarted, receiver, direction, control, life>>
  BY DEF Sender, AudioSent, SenderWakes, SenderTakes, SenderDrained, SenderDiscards,
     SenderBegins, SenderPaced, SenderSends, SenderResyncs, SenderGoes, FreeSlot, sessionVars
<1>2. active' = active
  BY SenderOnSource DEF AudioSent, sourceVars, GivesBack, restOfSource
<1>3. QED
  BY <1>1, <1>2, ShapeKept

\* The shape of the session when a session or a change of direction
\* begins, or a stop is requested.
LEMMA ShapeByStart ==
  ASSUME TypeOK, SourceCloses, SessionShape, Beginning
  PROVE  SessionShape'
<1> USE DEF SessionShape, SessionRuns, DirectionHeld, SourceHasStopper, SourceCloses, TypeOK
<1>1. CASE RequestStop
  BY <1>1 DEF RequestStop, Gate, sourceVars
<1>2. CASE StartSession
  BY <1>2 DEF StartSession, Ready, sourceVars, Reaped
<1>3. CASE StartSender
  BY <1>3 DEF StartSender, ClearQueue
<1>4. CASE StartFails
  BY <1>4 DEF StartFails, Gate, sourceVars
<1>5. CASE \E want \in BOOLEAN : DirectionBegins(want)
  BY <1>5 DEF DirectionBegins, WakeSender, sourceVars
<1> QED
  BY <1>1, <1>2, <1>3, <1>4, <1>5 DEF Beginning

\* The shape of the session under the steps of request_media_direction.
LEMMA ShapeByDirection ==
  ASSUME TypeOK, SourceCloses, SessionShape, Direction
  PROVE  SessionShape'
<1> USE DEF SessionShape, SessionRuns, DirectionHeld, SourceHasStopper, SourceCloses, TypeOK
<1>1. CASE DirectionStartsSource
  BY <1>1 DEF DirectionStartsSource, sessionVars, taskVars, ControlGoes, LeaveDirection,
     Ended, StartOk, StartRefused, StartWithoutCamera, Ready, sourceVars, SourceFree
<1>2. CASE DirectionStarted
  BY <1>2 DEF DirectionStarted, taskVars, ControlGoes, LeaveDirection, TakeBack, Ended,
     sourceVars
<1>3. CASE DirectionStops
  BY <1>3 DEF DirectionStops, sessionVars, taskVars, ControlGoes, EnterStop, SourceFree
<1>4. CASE DirectionStopped
  BY <1>4 DEF DirectionStopped, sessionVars, WakeSender, ControlGoes, Leave, Returned
<1>5. CASE DirectionUndone
  BY <1>5 DEF DirectionUndone, sessionVars, taskVars, LeaveDirection, Leave, Returned
<1>6. CASE DirectionFinal
  BY <1>6 DEF DirectionFinal, taskVars, ControlGoes, LeaveDirection, TakeBack, Ended, sourceVars
<1>7. CASE DirectionStores
  BY <1>7 DEF DirectionStores, taskVars, LeaveDirection, sourceVars
<1> QED
  BY <1>1, <1>2, <1>3, <1>4, <1>5, <1>6, <1>7 DEF Direction

\* The shape of the session under the steps of the receive worker.
LEMMA ShapeByReceiver ==
  ASSUME TypeOK, SourceCloses, SessionShape, Receiver
  PROVE  SessionShape'
<1> USE DEF SessionShape, SessionRuns, DirectionHeld, SourceHasStopper, SourceCloses, TypeOK
<1>1. CASE ReceiverTerminates
  BY <1>1, FalseIsBoolean DEF ReceiverTerminates, sessionVars, taskVars, ReceiverGoes,
     sourceVars
<1>2. CASE ReceiverBreaks
  BY <1>2, FalseIsBoolean DEF ReceiverBreaks, taskVars, sourceVars
<1>3. CASE ReceiverQuiesces
  <2>1. sourceStarted \in BOOLEAN /\ ~sourceStarted'
    BY <1>3, FalseIsBoolean DEF ReceiverQuiesces
  <2>2. /\ receiver = "exit" /\ direction = NoCaller /\ direction' = "receiver"
        /\ receiver' = IF sourceStarted THEN "stopping" ELSE "finish"
        /\ UNCHANGED <<running, terminate, active, control, life>>
    BY <1>3 DEF ReceiverQuiesces, ReceiverGoes, sourceVars
  <2>3. control.at \in {"idle", "starting"} /\ ~running
    BY <2>2 DEF NoCaller
  <2>4. QED
    BY <2>1, <2>2, <2>3
<1>4. CASE ReceiverStopsSource
  BY <1>4, FalseIsBoolean DEF ReceiverStopsSource, sessionVars, taskVars, ReceiverGoes,
     EnterStop, Leave, Returned, SourceFree
<1>5. CASE ReceiverFinishes
  BY <1>5, FalseIsBoolean DEF ReceiverFinishes, taskVars, sourceVars
<1> QED
  BY <1>1, <1>2, <1>3, <1>4, <1>5 DEF Receiver

\* The shape of the session under the steps of stop, on the lifecycle worker.
LEMMA ShapeByStop ==
  ASSUME TypeOK, SourceCloses, SessionShape, Stop
  PROVE  SessionShape'
<1> USE DEF SessionShape, SessionRuns, DirectionHeld, SourceHasStopper, SourceCloses, TypeOK
<1>1. CASE StopBegins
  BY <1>1 DEF StopBegins, Gate, LifeGoes, sourceVars
<1>2. CASE StopStopsSource
  BY <1>2 DEF StopStopsSource, sessionVars, taskVars, LifeGoes, EnterStop, Leave, Returned,
     SourceFree
<1>3. CASE StopJoinsSender
  BY <1>3 DEF StopJoinsSender, sessionVars, ClearQueue, sourceVars
<1>4. CASE StopJoinsReceiver
  BY <1>4 DEF StopJoinsReceiver, taskVars, ReceiverGoes, sourceVars
<1> QED
  BY <1>1, <1>2, <1>3, <1>4 DEF Stop

\* When the session is over, nobody is left who would stop the source: it is closed.
LEMMA ShapeGivesCameraOff ==
  ASSUME SourceCloses, SessionShape
  PROVE  CameraOff
BY DEF CameraOff, SessionOver, SourceCloses, SessionShape, SourceHasStopper

\* Every step keeps the shape.
LEMMA ShapeStep ==
  ASSUME TypeOK, SourceCloses, SessionShape, [Next]_vars
  PROVE  SessionShape'
<1>1. CASE SourceStep \/ Queueing
  BY <1>1, OtherOnSession, ShapeKept, Zenon DEF sessionVars
<1>2. CASE UNCHANGED vars
  BY <1>2, ShapeKept DEF vars, sessionVars, sourceVars
<1>3. CASE Sender \/ AudioSent
  BY <1>3, ShapeBySender DEF TypeOK
<1>4. CASE Beginning \/ Direction \/ Receiver \/ Stop
  BY <1>4, ShapeByStart, ShapeByDirection, ShapeByReceiver, ShapeByStop
<1>5. QED
  BY <1>1, <1>2, <1>3, <1>4 DEF Next, Control, Beginning

-----------------------------------------------------------------------------
(* The signals of the sender. *)

\* The sender is woken by a stop, and waits for audio only where that is built in.
SenderShape == StopWakesSender /\ PacingIsBuilt

\* A step that leaves the sender, its flag and its signals alone keeps it.
LEMMA SenderKept ==
  ASSUME SenderShape, UNCHANGED <<senderOn, sender, terminate, wakeSender, credit>>
  PROVE  SenderShape'
BY DEF SenderShape, StopWakesSender, PacingIsBuilt

\* The sender's signals under the steps of queue_access_unit_.
LEMMA SenderByQueueing ==
  ASSUME TypeOK, SessionRuns, SenderShape, Queueing
  PROVE  SenderShape'
<1> USE DEF SenderShape, StopWakesSender, PacingIsBuilt, SessionRuns, TypeOK, SenderAlive
<1>1. CASE QueueClosed
  BY <1>1 DEF QueueClosed, TurnAway, sessionVars, taskVars
<1>2. CASE QueueOversize
  BY <1>2 DEF QueueOversize, TurnAway, sessionVars, taskVars
<1>3. CASE QueueAwaitsKey
  BY <1>3 DEF QueueAwaitsKey, TurnAway, sessionVars, taskVars
<1>4. CASE QueueAdmits
  BY <1>4 DEF QueueAdmits, TurnAway, sessionVars, taskVars
<1>5. CASE QueueDrops
  BY <1>5 DEF QueueDrops, TurnAway, sessionVars, taskVars
<1>6. CASE QueueFills
  BY <1>6 DEF QueueFills, TurnAway, sessionVars, taskVars
<1>7. CASE QueuePublishes
  BY <1>7 DEF QueuePublishes, TurnAway, sessionVars, taskVars
<1> QED
  BY <1>1, <1>2, <1>3, <1>4, <1>5, <1>6, <1>7 DEF Queueing

\* The sender's signals under the steps of the sender task.
LEMMA SenderBySender ==
  ASSUME TypeOK, SessionRuns, SenderShape, Sender \/ AudioSent
  PROVE  SenderShape'
<1> USE DEF SenderShape, StopWakesSender, PacingIsBuilt, SessionRuns, TypeOK, SenderAlive
<1>1. CASE SenderWakes
  BY <1>1 DEF SenderWakes, sessionVars, SenderGoes, sourceVars
<1>2. CASE SenderTakes
  BY <1>2 DEF SenderTakes, sessionVars, SenderGoes, sourceVars
<1>3. CASE SenderDrained
  BY <1>3 DEF SenderDrained, sessionVars, SenderGoes, sourceVars, NextRound
<1>4. CASE SenderDiscards
  BY <1>4 DEF SenderDiscards, sessionVars, SenderGoes, FreeSlot, Admitted
<1>5. CASE SenderBegins
  BY <1>5 DEF SenderBegins, sessionVars, SenderGoes, sourceVars, Admitted
<1>6. CASE SenderPaced
  BY <1>6 DEF SenderPaced, sessionVars, SenderGoes, FreeSlot, sourceVars, Open
<1>7. CASE SenderSends
  BY <1>7 DEF SenderSends, sessionVars, SenderGoes, FreeSlot
<1>8. CASE SenderResyncs
  BY <1>8 DEF SenderResyncs, sessionVars, SenderGoes, RequestKeyFrame, sourceVars, SourceFree,
     NextRound
<1>9. CASE AudioSent
  BY <1>9 DEF AudioSent, sessionVars, sourceVars, Open
<1> QED
  BY <1>1, <1>2, <1>3, <1>4, <1>5, <1>6, <1>7, <1>8, <1>9 DEF Sender

\* The sender's signals when a session or a change of direction
\* begins, or a stop is requested.
LEMMA SenderByStart ==
  ASSUME TypeOK, SessionRuns, SenderShape, Beginning
  PROVE  SenderShape'
<1> USE DEF SenderShape, StopWakesSender, PacingIsBuilt, SessionRuns, TypeOK, SenderAlive
<1>1. CASE RequestStop
  BY <1>1 DEF RequestStop, Gate, sourceVars
<1>2. CASE StartSession
  BY <1>2 DEF StartSession, Ready, sourceVars, Reaped
<1>3. CASE StartSender
  BY <1>3 DEF StartSender, ClearQueue
<1>4. CASE StartFails
  BY <1>4 DEF StartFails, Gate, sourceVars
<1>5. CASE \E want \in BOOLEAN : DirectionBegins(want)
  BY <1>5 DEF DirectionBegins, WakeSender, sourceVars
<1> QED
  BY <1>1, <1>2, <1>3, <1>4, <1>5 DEF Beginning

\* The sender's signals under the steps of request_media_direction.
LEMMA SenderByDirection ==
  ASSUME TypeOK, SessionRuns, SenderShape, Direction
  PROVE  SenderShape'
<1> USE DEF SenderShape, StopWakesSender, PacingIsBuilt, SessionRuns, TypeOK, SenderAlive
<1>1. CASE DirectionStartsSource
  BY <1>1 DEF DirectionStartsSource, sessionVars, taskVars, ControlGoes, LeaveDirection,
     Ended, StartOk, StartRefused, StartWithoutCamera, Ready, sourceVars, SourceFree
<1>2. CASE DirectionStarted
  BY <1>2 DEF DirectionStarted, taskVars, ControlGoes, LeaveDirection, TakeBack, Ended,
     sourceVars
<1>3. CASE DirectionStops
  BY <1>3 DEF DirectionStops, sessionVars, taskVars, ControlGoes, EnterStop, SourceFree
<1>4. CASE DirectionStopped
  BY <1>4 DEF DirectionStopped, sessionVars, WakeSender, ControlGoes, Leave, Returned
<1>5. CASE DirectionUndone
  BY <1>5 DEF DirectionUndone, sessionVars, taskVars, LeaveDirection, Leave, Returned
<1>6. CASE DirectionFinal
  BY <1>6 DEF DirectionFinal, taskVars, ControlGoes, LeaveDirection, TakeBack, Ended, sourceVars
<1>7. CASE DirectionStores
  BY <1>7 DEF DirectionStores, taskVars, LeaveDirection, sourceVars
<1> QED
  BY <1>1, <1>2, <1>3, <1>4, <1>5, <1>6, <1>7 DEF Direction

\* The sender's signals under the steps of the receive worker.
LEMMA SenderByReceiver ==
  ASSUME TypeOK, SessionRuns, SenderShape, Receiver
  PROVE  SenderShape'
<1> USE DEF SenderShape, StopWakesSender, PacingIsBuilt, SessionRuns, TypeOK, SenderAlive
<1>1. CASE ReceiverTerminates
  BY <1>1 DEF ReceiverTerminates, sessionVars, taskVars, ReceiverGoes, sourceVars
<1>2. CASE ReceiverBreaks
  BY <1>2 DEF ReceiverBreaks, taskVars, sourceVars
<1>3. CASE ReceiverQuiesces
  BY <1>3 DEF ReceiverQuiesces, ReceiverGoes, sourceVars
<1>4. CASE ReceiverStopsSource
  BY <1>4 DEF ReceiverStopsSource, sessionVars, taskVars, ReceiverGoes, EnterStop, Leave,
     Returned, SourceFree
<1>5. CASE ReceiverFinishes
  BY <1>5 DEF ReceiverFinishes, taskVars, sourceVars
<1> QED
  BY <1>1, <1>2, <1>3, <1>4, <1>5 DEF Receiver

\* The sender's signals under the steps of stop, on the lifecycle worker.
LEMMA SenderByStop ==
  ASSUME TypeOK, SessionRuns, SenderShape, Stop
  PROVE  SenderShape'
<1> USE DEF SenderShape, StopWakesSender, PacingIsBuilt, SessionRuns, TypeOK, SenderAlive
<1>1. CASE StopBegins
  BY <1>1 DEF StopBegins, Gate, LifeGoes, sourceVars
<1>2. CASE StopStopsSource
  BY <1>2 DEF StopStopsSource, sessionVars, taskVars, LifeGoes, EnterStop, Leave, Returned,
     SourceFree
<1>3. CASE StopJoinsSender
  BY <1>3 DEF StopJoinsSender, sessionVars, ClearQueue, sourceVars
<1>4. CASE StopJoinsReceiver
  BY <1>4 DEF StopJoinsReceiver, taskVars, ReceiverGoes, sourceVars
<1> QED
  BY <1>1, <1>2, <1>3, <1>4 DEF Stop

\* Every step keeps it.
LEMMA SenderStep ==
  ASSUME TypeOK, SessionRuns, SenderShape, [Next]_vars
  PROVE  SenderShape'
<1>1. CASE SourceStep \/ UNCHANGED vars
  BY <1>1, SenderKept DEF SourceStep, vars, sessionVars, taskVars
<1>2. CASE Queueing \/ Sender \/ AudioSent
  BY <1>2, SenderByQueueing, SenderBySender
<1>3. CASE Beginning \/ Direction \/ Receiver \/ Stop
  BY <1>3, SenderByStart, SenderByDirection, SenderByReceiver, SenderByStop
<1>4. QED
  BY <1>1, <1>2, <1>3 DEF Next, Control, Beginning

-----------------------------------------------------------------------------
(* The encoded slots. *)

\* Every encoded slot that is out has one holder.
Places == SlotsNamed /\ OneHolder

\* What the ownership of encoded slots reads.
SamePlaces ==
    /\ UNCHANGED <<queue, encoded>>
    /\ enc'.slot = enc.slot
    /\ EncoderNames' = EncoderNames /\ EncoderHolds' = EncoderHolds

\* Such a step keeps it.
LEMMA KeptPlaces ==
  ASSUME Places, SamePlaces
  PROVE  Places'
BY DEF Places, SamePlaces, SlotsNamed, OneHolder

\* Another place and generation leave the encoder's slot alone.
LEMMA EncFields ==
  ASSUME NEW r \in EncRecord, NEW x, NEW c
  PROVE  LET v == [r EXCEPT !.at = x, !.current = c] IN v.at = x /\ v.slot = r.slot
BY DEF EncRecord

\* Every step keeps it: the encoder takes a slot that is not lent, hands it to a free
\* place of the queue, and each slot that is given back is taken out of its place.
LEMMA PlacesStep ==
  ASSUME TypeOK, Places, [Next]_vars
  PROVE  Places'
<1> USE DEF EncoderNames, EncoderHolds, SamePlaces
<1>a. /\ enc \in [at : {"look", "sleep", "check", "publish", "gate", "store", "fill",
                      "release", "ended", "joined"},
                current : BOOLEAN, slot : EncSlots \cup {NoSlot}]
      /\ encoded \in [EncSlots -> BOOLEAN]
      /\ queue \in [Txs -> [state : {"free", "filling", "ready", "owned"},
                          slot : EncSlots \cup {NoSlot}]]
      /\ rd \in Txs /\ wr \in Txs /\ NoSlot \notin EncSlots
  BY SourceAssumption DEF TypeOK, SourceTypeOK, EncRecord
<1>1. CASE SourceStep /\ Camera
  <2>1. SamePlaces
    BY <1>1 DEF SourceStep, sessionVars, taskVars, Camera, CameraCalls, CameraEnters,
       CameraGate, CameraAbandons, CameraChecks, CameraQueues, CameraLeaves, AfterRelease
  <2> QED BY <2>1, KeptPlaces
<1>2. CASE SourceStep /\ (Barrier \/ BarrierDeadline)
  <2>1. SamePlaces
    BY <1>2, <1>a DEF SourceStep, sessionVars, taskVars, Barrier, BarrierDeadline,
       RequestVideoStop, CheckBarrier, PassBarrier, StopSource, NewGeneration, ControlFree,
       InControl
  <2> QED BY <2>1, KeptPlaces
<1>3. CASE SourceStep /\ Shutdown
  <2>1. ASSUME BeginShutdown PROVE SamePlaces
    BY <1>3, <2>1, <1>a DEF SourceStep, sessionVars, taskVars, BeginShutdown, StopSource,
       NewGeneration
  <2>2. ASSUME JoinTask \/ Loop PROVE SamePlaces
    <3>1. UNCHANGED <<queue, encoded>> /\ Reap
      BY <1>3, <2>2 DEF SourceStep, taskVars, JoinTask, Loop
    <3>2. enc'.slot = enc.slot /\ EncoderNames' = EncoderNames /\ EncoderHolds' = EncoderHolds
      BY <1>a, <3>1 DEF Reap
    <3>3. QED
      BY <3>1, <3>2
  <2>3. SamePlaces
    BY <1>3, <2>1, <2>2 DEF Shutdown
  <2> QED BY <2>3, KeptPlaces
<1>4. CASE SourceStep /\ (EncoderPublishes \/ EncoderTakes \/ EncoderSleeps \/ EncoderWakes
        \/ EncoderSkipsStale \/ EncoderDrops \/ EncoderReleases \/ EncoderEnds)
  <2>1. UNCHANGED <<queue, encoded>>
    BY <1>4, Zenon DEF SourceStep, taskVars, EncoderPublishes, EncoderTakes, EncoderSleeps,
       EncoderWakes, EncoderSkipsStale, EncoderDrops, EncoderReleases, EncoderEnds
  <2>2. enc'.slot = enc.slot /\ EncoderNames' = EncoderNames /\ EncoderHolds' = EncoderHolds
    <3>1. CASE EncoderPublishes \/ EncoderSkipsStale \/ EncoderDrops
      BY <1>a, <3>1 DEF EncoderPublishes, EncoderSkipsStale, EncoderDrops
    <3>2. CASE EncoderTakes \/ EncoderReleases
      <4>1. PICK x, c : /\ enc' = [enc EXCEPT !.at = x, !.current = c]
                         /\ enc.at \in {"look", "release"} /\ x \in {"check", "look"}
        BY <3>2, Zenon DEF EncoderTakes, EncoderReleases
      <4>2. enc'.at = x /\ enc'.slot = enc.slot
        BY <1>a, <4>1, EncFields DEF EncRecord
      <4>3. QED
        BY <4>1, <4>2
    <3>3. CASE EncoderSleeps \/ EncoderWakes \/ EncoderEnds
      BY <1>a, <3>3 DEF EncoderSleeps, EncoderWakes, EncoderEnds
    <3>4. QED
      BY <1>4, <3>1, <3>2, <3>3
  <2>3. QED
    BY <2>1, <2>2, KeptPlaces
<1>5. CASE SourceStep /\ EncoderEncodes
    BY <1>5, <1>a DEF SourceStep, sessionVars, taskVars, EncoderEncodes, FreeEncoded, Places,
       SlotsNamed, OneHolder
<1>6. CASE SourceStep /\ EncoderDiscards
    BY <1>6, <1>a DEF SourceStep, sessionVars, taskVars, EncoderDiscards, Places, SlotsNamed,
       OneHolder
<1>7. CASE TurnAway /\ enc.at \in {"gate", "store"}
  BY <1>7, <1>a DEF TurnAway, CallbackDone, ReturnSlot, Places, SlotsNamed, OneHolder
<1>8. CASE QueueAdmits
  BY <1>8, <1>a DEF QueueAdmits, taskVars, Places, SlotsNamed, OneHolder
<1>9. CASE QueueFills
  BY <1>9, <1>a DEF QueueFills, Places, SlotsNamed, OneHolder
<1>10. CASE QueuePublishes
  BY <1>10, <1>a DEF QueuePublishes, CallbackDone, Places, SlotsNamed, OneHolder
<1>11. CASE FreeSlot
  BY <1>11, <1>a DEF FreeSlot, ReturnSlot, Free, SenderGoes, Places, SlotsNamed, OneHolder
<1>12. CASE SenderTakes
  BY <1>12, <1>a DEF SenderTakes, sourceVars, Places, SlotsNamed, OneHolder
<1>13. CASE ClearQueue
  BY <1>13, <1>a DEF ClearQueue, Free, Places, SlotsNamed, OneHolder
<1>14. CASE UNCHANGED <<queue, encoded>> /\ UNCHANGED enc
  BY <1>14, KeptPlaces
<1>15. CASE UNCHANGED <<queue, encoded>> /\ NewGeneration
  <2>1. SamePlaces
    BY <1>15, <1>a DEF NewGeneration
  <2>2. QED
    BY <2>1, KeptPlaces
<1>16. CASE SourceStep
  BY <1>1, <1>2, <1>3, <1>4, <1>5, <1>6, <1>14, <1>16 DEF SourceStep, OfSource, Encoder
<1>17. CASE Queueing
  BY <1>7, <1>8, <1>9, <1>10, <1>17 DEF Queueing, QueueClosed, QueueOversize, QueueAwaitsKey,
     QueueDrops
<1>18. CASE Sender \/ AudioSent
  BY <1>11, <1>12, <1>14, <1>18 DEF Sender, AudioSent, SenderWakes, SenderDrained,
     SenderDiscards, SenderBegins, SenderPaced, SenderSends, SenderResyncs, RequestKeyFrame,
     sourceVars
<1>19. CASE RequestStop \/ StartSession \/ StartSender \/ StartFails \/ \E want
        \in BOOLEAN : DirectionBegins(want)
  BY <1>13, <1>14, <1>19 DEF RequestStop, StartSession, StartSender, StartFails,
     DirectionBegins, sourceVars
<1>20. CASE Direction
  BY <1>14, <1>15, <1>20 DEF Direction, DirectionStartsSource, DirectionStarted,
     DirectionStops, DirectionStopped, DirectionUndone, DirectionFinal, DirectionStores,
     taskVars, sourceVars, StartOk, StartRefused, StartWithoutCamera, EnterStop, Leave
<1>21. CASE Receiver
  BY <1>14, <1>21 DEF Receiver, ReceiverTerminates, ReceiverBreaks, ReceiverQuiesces,
     ReceiverStopsSource, ReceiverFinishes, taskVars, sourceVars, EnterStop, Leave
<1>22. CASE Stop
  BY <1>13, <1>14, <1>22 DEF Stop, StopBegins, StopStopsSource, StopJoinsSender,
     StopJoinsReceiver, taskVars, sourceVars, EnterStop, Leave
<1>23. CASE UNCHANGED vars
  BY <1>14, <1>23 DEF vars, taskVars, sourceVars
<1> QED
  BY <1>16, <1>17, <1>18, <1>19, <1>20, <1>21, <1>22, <1>23 DEF Next, Control

\* Counted, that is LentOnce.
LEMMA PlacesAreCounted ==
  ASSUME TypeOK, Places
  PROVE  LentOnce
<1> SUFFICES ASSUME NEW e \in EncSlots
             PROVE  Holders(e) = Count(encoded[e])
  BY DEF LentOnce
<1> DEFINE named == {i \in Txs : queue[i].slot = e}
           holds == enc.slot = e /\ enc.at \in {"publish", "gate", "store"}
<1>1. NoSlot \notin EncSlots /\ e # NoSlot
  BY SourceAssumption
<1>2. CASE \E i \in Txs : queue[i].slot = e
  <2>1. PICK i \in Txs : queue[i].slot = e
    BY <1>2
  <2>2. named = {i}
    BY <1>1, <2>1 DEF Places, OneHolder
  <2>3. Cardinality(named) = 1
    BY <2>2, FS_Singleton
  <2>4. ~holds /\ encoded[e]
    BY <2>1 DEF Places, OneHolder, EncoderHolds
  <2>5. Count(holds) = 0 /\ Count(encoded[e]) = 1
    BY <2>4 DEF Count
  <2> HIDE DEF named, holds
  <2>6. Cardinality(named) + Count(holds) = Count(encoded[e])
    BY <2>3, <2>5
  <2>7. QED
    BY <2>6 DEF Holders, named, holds
<1>3. CASE ~ \E i \in Txs : queue[i].slot = e
  <2>1. named = {}
    BY <1>3
  <2>2. Cardinality(named) = 0
    BY <2>1, FS_EmptySet
  <2>3. encoded[e] <=> holds
    BY <1>3 DEF Places, OneHolder, EncoderHolds
  <2>4. Count(holds) \in 0..1 /\ Count(encoded[e]) = Count(holds)
    BY <2>3 DEF Count
  <2> HIDE DEF named, holds
  <2>5. Cardinality(named) + Count(holds) = Count(encoded[e])
    BY <2>2, <2>4
  <2>6. QED
    BY <2>5 DEF Holders, named, holds
<1>4. QED
  BY <1>2, <1>3

-----------------------------------------------------------------------------
(* The invariant, and what follows from it. *)

\* The invariant by the groups in which it is proved, before and after a step.
LEMMA InvParts ==
  /\ SessionInv <=> /\ TypeOK /\ Places /\ FreedIsUnused /\ SourceCloses /\ SourceSignals
                    /\ SessionShape /\ SenderShape
  /\ SessionInv' <=> /\ TypeOK' /\ Places' /\ FreedIsUnused' /\ SourceCloses' /\ SourceSignals'
                     /\ SessionShape' /\ SenderShape'
BY DEF SessionInv, Places, SourceSignals, SessionShape, SenderShape, WakeUpsArrive

\* It holds of a source that has been set up, without a session.
LEMMA InvInit == Init => SessionInv
<1> SUFFICES ASSUME Init
             PROVE  SessionInv
  OBVIOUS
<1> USE DEF Init, SourceInit, NoCall
<1>1. enc.slot = NoSlot /\ NoSlot \notin EncSlots
  BY SourceAssumption
<1>2. ready = <<>> /\ Empty /\ NoneLent
  BY DEF Empty, HoldsYuv, Filling, NoneLent
<1>3. SourceFlags
  BY DEF SourceFlags
<1>4. RecordsTyped
  <2>1. FALSE \in BOOLEAN
    OBVIOUS
  <2>2. cam \in CamRecord
    BY <2>1, Zenon DEF CamRecord
  <2>3. enc \in EncRecord
    BY <2>1, Zenon DEF EncRecord
  <2>4. down \in DownRecord
    BY <2>1, Zenon DEF DownRecord
  <2>5. QED
    BY <2>2, <2>3, <2>4, CallUpdates DEF RecordsTyped, CallRecord, NoCaller, Callers
<1>5. SourceFrames
  <2>1. ready \in Seq(BOOLEAN) /\ Len(ready) = 0
    BY EmptySeq
  <2>2. YuvUsed <= YuvSlots
    BY <1>2, <2>1, YuvParts, SourceAssumption DEF Empty
  <2>3. QED
    BY <2>1, <2>2 DEF SourceFrames
<1>6. SourceTypeOK
  BY <1>3, <1>4, <1>5 DEF SourceTypeOK, SourceFlags, RecordsTyped, SourceFrames
<1>7. SessionTypes
  <2>1. SessionFlags
    BY DEF SessionFlags
  <2>2. control \in ControlRecord
    <3>1. FALSE \in BOOLEAN
      OBVIOUS
    <3>2. QED
      BY <3>1, Zenon DEF ControlRecord
  <2>3. life \in [at : {"idle", "stopping", "sender", "receiver"}, joined : BOOLEAN]
    OBVIOUS
  <2>4. SessionPlaces
    BY <2>2, <2>3 DEF SessionPlaces, NoCaller
  <2>5. Ring
    BY NextSlot DEF Ring, Free
  <2>6. QED
    BY <2>1, <2>4, <2>5 DEF SessionTypes
<1>8. Places
  BY <1>1 DEF Places, SlotsNamed, OneHolder, EncoderNames, EncoderHolds, Free
<1>9. FreedIsUnused /\ SourceCloses
  BY DEF FreedIsUnused, SourceCloses, ShuttingDown
<1>10. SourceSignals /\ SessionShape /\ SenderShape
  BY DEF SourceSignals, BarrierIsSignalled, ShutdownIsWoken, SessionShape, SessionRuns,
     DirectionHeld, SourceHasStopper, SenderShape, StopWakesSender, PacingIsBuilt
<1>11. QED
  BY <1>6, <1>7, <1>8, <1>9, <1>10, TypeParts, InvParts

\* Every step of the system keeps it.
LEMMA InvStep == SessionInv /\ [Next]_vars => SessionInv'
<1> SUFFICES ASSUME SessionInv, [Next]_vars
             PROVE  SessionInv'
  OBVIOUS
<1>1. /\ TypeOK /\ Places /\ FreedIsUnused /\ SourceCloses /\ SourceSignals
      /\ SessionShape /\ SenderShape
  BY InvParts
<1>2. TypeOK' /\ SourceTypeOK /\ SourceTypeOK'
  BY <1>1, TypeStep, TypeParts
<1>3. Places'
  BY <1>1, PlacesStep
<1>4. FreedIsUnused' /\ SourceCloses'
  BY <1>1, <1>2, ClosedStep, FreedIsEmpty DEF Closed
<1>5. SourceSignals'
  BY <1>1, <1>2, <1>4, SignalsStep
<1>6. SessionShape'
  BY <1>1, ShapeStep
<1>7. SenderShape'
  BY <1>1, SenderStep DEF SessionShape
<1>8. QED
  BY <1>2, <1>3, <1>4, <1>5, <1>6, <1>7, InvParts

\* The inductive invariant holds of every behaviour, for every number of slots and
\* places, with and without pacing and deadlines.
THEOREM SessionInvariant == Spec => []SessionInv
BY InvInit, InvStep, PTL DEF Spec

\* An encoded slot that is out has one owner, no slot is lost or given back twice
\* (release_encoded_slot_, free_access_unit_, stop_sender_task_), and on_shutdown frees
\* the buffers only when nobody can touch them.
THEOREM SlotsHaveOwners == Spec => []SlotsAreOwned
<1>1. SessionInv => SlotsAreOwned
  BY InvParts, PlacesAreCounted DEF SlotsAreOwned
<1>2. QED
  BY <1>1, SessionInvariant, PTL

\* A session that is over has left the camera off, whichever of request_media_direction,
\* the receive worker and stop took the source to stop it.
THEOREM CameraIsOff == Spec => []CameraOff
<1>1. SessionInv => CameraOff
  BY InvParts, ShapeGivesCameraOff
<1>2. QED
  BY <1>1, SessionInvariant, PTL

\* A stop wakes the sender, the idle barrier is signalled by the last owner, and the
\* main loop is woken to free the buffers.
THEOREM WakeUpsAreNotLost == Spec => []WakeUpsArrive
<1>1. SessionInv => WakeUpsArrive
  BY DEF SessionInv
<1>2. QED
  BY <1>1, SessionInvariant, PTL

=============================================================================
