------------------------ MODULE MediaLifecycle_proofs ------------------------
(***************************************************************************)
(* Proofs about MediaLifecycle.  The first part holds whether or not        *)
(* select() can fail; the second part, and the refinement of MediaPath,     *)
(* need SelectMayFail = FALSE, as TLC's counterexamples show.               *)
(***************************************************************************)
EXTENDS MediaLifecycle, TLAPS

\* A step the SMT encoding of Boolean variables needs spelled out.
LEMMA FalseIsBoolean == \A x : x = FALSE => x \in BOOLEAN
  BY Zenon

\* The same for two Boolean values that are both false.
LEMMA FalseTwice == \A x, y : (x \in BOOLEAN /\ ~x /\ y = FALSE) => y = x
  BY Zenon

\* request_audio_path_stop_locked_ assigns values of the right types.
LEMMA RequestStopTypes ==
  ASSUME TypeOK, RequestStop
  PROVE  /\ phase' \in Phases /\ reports' \in {0, 1, 2}
         /\ rtpRunning' \in BOOLEAN /\ quiesced' \in BOOLEAN
         /\ cleanupDone' \in BOOLEAN /\ wake' \in BOOLEAN /\ notified' \in BOOLEAN
<1>1. /\ phase' \in Phases /\ reports' \in {0, 1, 2}
      /\ rtpRunning' \in BOOLEAN /\ quiesced' \in BOOLEAN /\ cleanupDone' \in BOOLEAN
  BY FalseIsBoolean, SMT DEF TypeOK, RequestStop, Phases
<1>2. wake' \in BOOLEAN /\ notified' \in BOOLEAN
  <2>1. CASE WakeWorker(rtpRunning)
    BY <2>1, SMT DEF TypeOK, WakeWorker
  <2>2. CASE UNCHANGED <<wake, notified>>
    BY <2>2, SMT DEF TypeOK
  <2>3. QED
    BY <2>1, <2>2, Zenon DEF RequestStop
<1>3. QED
  BY <1>1, <1>2

\* After request_audio_path_stop_locked_ no session is prepared or active, no
\* traffic flows, and whichever way the worker sleeps it has been woken.
LEMMA RequestStopEffect ==
  ASSUME TypeOK, MediaOwnsSocket, RequestStop
  PROVE  /\ phase \in {"PREPARED", "ACTIVE"} => phase' = "CLEANING"
         /\ phase \notin {"PREPARED", "ACTIVE"} => phase' = phase
         /\ ~rtpRunning'
         /\ (wake \/ rtpRunning) => wake'
         /\ (notified \/ phase = "PREPARED") => notified'
<1>1. phase \in {"PREPARED", "ACTIVE"} => phase' = "CLEANING"
  BY SMT DEF TypeOK, RequestStop
<1>2. phase \notin {"PREPARED", "ACTIVE"} => phase' = phase
  BY SMT DEF TypeOK, MediaOwnsSocket, RequestStop
<1>3. ~rtpRunning'
  BY SMT DEF TypeOK, MediaOwnsSocket, RequestStop
<1>4. (wake \/ rtpRunning) => wake'
  BY SMT DEF TypeOK, MediaOwnsSocket, RequestStop, WakeWorker
<1>5. (notified \/ phase = "PREPARED") => notified'
  BY SMT DEF TypeOK, MediaOwnsSocket, RequestStop, WakeWorker
<1>6. QED
  BY <1>1, <1>2, <1>3, <1>4, <1>5

\* Every step keeps the types.
LEMMA TypeStep == TypeOK /\ [Next]_vars => TypeOK'
<1> SUFFICES ASSUME TypeOK, [Next]_vars PROVE TypeOK'
  OBVIOUS
<1> USE DEF TypeOK, Phases, WorkerSteps, StopSteps
<1>1. CASE Prepare
  BY <1>1, FalseIsBoolean, SMT
  DEF Prepare, CanPrepare, Accepting, Bind, workerVars, stopVars
<1>2. CASE PrepareFails
  BY <1>2, FalseIsBoolean, SMT
  DEF PrepareFails, CanPrepare, Accepting, workerVars, stopVars
<1>3. CASE Commit
  BY <1>3, FalseIsBoolean, SMT
  DEF Commit, Accepting, Activate, workerVars, stopVars
<1>4. CASE Start
  BY <1>4, FalseIsBoolean, SMT
  DEF Start, CanPrepare, Accepting, Bind, Activate, workerVars, stopVars
<1>5. CASE Stop
  BY <1>5, RequestStopTypes, SMT DEF Stop, workerVars, stopVars
<1>6. CASE Unpark
  BY <1>6, FalseIsBoolean, SMT DEF Unpark, stopVars
<1>7. CASE CheckLoop
  BY <1>7, FalseIsBoolean, SMT DEF CheckLoop, mediaVars, stopVars
<1>8. CASE ReceiveWake
  BY <1>8, FalseIsBoolean, SMT DEF ReceiveWake, stopVars
<1>9. CASE ReceivePacket
  BY <1>9, FalseIsBoolean, SMT DEF ReceivePacket, mediaVars, stopVars
<1>10. CASE SelectFails
  BY <1>10, FalseIsBoolean, SMT DEF SelectFails, mediaVars, stopVars
<1>11. CASE LeaveLoop
  BY <1>11, FalseIsBoolean, SMT DEF LeaveLoop, stopVars
<1>12. CASE GateFailure
  BY <1>12, FalseIsBoolean, SMT DEF GateFailure, stopVars
<1>13. CASE AskCleanup
  BY <1>13, FalseIsBoolean, SMT DEF AskCleanup, mediaVars, stopVars
<1>14. CASE CloseSocket
  BY <1>14, FalseIsBoolean, SMT DEF CloseSocket, stopVars
<1>15. CASE Quiesce
  BY <1>15, FalseIsBoolean, SMT DEF Quiesce, stopVars
<1>16. CASE ReportFailure
  <2>1. CASE RequestStop
    BY <1>16, <2>1, RequestStopTypes, SMT DEF ReportFailure, stopVars
  <2>2. CASE UNCHANGED <<phase, rtpRunning, quiesced, cleanupDone, wake, notified, reports>>
    BY <1>16, <2>2, SMT DEF ReportFailure, stopVars
  <2>3. QED
    BY <1>16, <2>1, <2>2 DEF ReportFailure
<1>17. CASE EndPass
  BY <1>17, FalseIsBoolean, SMT DEF EndPass, mediaVars, stopVars
<1>18. CASE BeginStop
  BY <1>18, FalseIsBoolean, SMT DEF BeginStop, mediaVars, workerVars
<1>19. CASE JoinSipTask
  BY <1>19, FalseIsBoolean, SMT DEF JoinSipTask, mediaVars, workerVars
<1>20. CASE StopMedia
  BY <1>20, RequestStopTypes, SMT DEF StopMedia, workerVars
<1>21. CASE CheckQuiesced
  BY <1>21, FalseIsBoolean, SMT DEF CheckQuiesced, mediaVars, workerVars
<1>22. CASE AwaitCleanup
  BY <1>22, FalseIsBoolean, SMT DEF AwaitCleanup, workerVars
<1>23. CASE SealMedia
  BY <1>23, FalseIsBoolean, SMT DEF SealMedia, workerVars
<1>24. CASE TerminateWorker
  BY <1>24, FalseIsBoolean, SMT DEF TerminateWorker, workerVars
<1>25. CASE ReapWorker
  BY <1>25, FalseIsBoolean, SMT DEF ReapWorker, mediaVars, workerVars
<1>26. CASE UNCHANGED vars
  BY <1>26, FalseIsBoolean, SMT DEF vars
<1>27. QED
  BY <1>1, <1>2, <1>3, <1>4, <1>5, <1>6, <1>7, <1>8, <1>9, <1>10, <1>11,
     <1>12, <1>13, <1>14, <1>15, <1>16, <1>17, <1>18, <1>19, <1>20, <1>21,
     <1>22, <1>23, <1>24, <1>25, <1>26
  DEF Next, Caller, Worker, Shutdown

\* MediaInv holds when start() has returned.
LEMMA MediaInvInit == Init => MediaInv
<1>1. Init => TypeOK
  BY FalseIsBoolean, SMT DEF Init, TypeOK, Phases, WorkerSteps, StopSteps
<1>2. QED
  BY <1>1, SMT DEF Init, MediaInv, MediaOwnsSocket, NoLostWakeup

\* Every step keeps MediaInv, once the types are settled.
LEMMA MediaInvStep == MediaInv /\ [Next]_vars => MediaInv'
<1> SUFFICES ASSUME MediaInv, [Next]_vars PROVE MediaInv'
  OBVIOUS
<1> TypeOK /\ TypeOK' /\ MediaOwnsSocket
  BY TypeStep DEF MediaInv
<1> USE DEF MediaInv, MediaOwnsSocket, NoLostWakeup
<1>1. CASE Prepare
  BY <1>1, SMT DEF Prepare, CanPrepare, Accepting, Bind, workerVars, stopVars
<1>2. CASE PrepareFails
  BY <1>2, SMT DEF PrepareFails, CanPrepare, Accepting, workerVars, stopVars
<1>3. CASE Commit
  BY <1>3, SMT DEF Commit, Accepting, Activate, workerVars, stopVars
<1>4. CASE Start
  BY <1>4, SMT
  DEF Start, CanPrepare, Accepting, Bind, Activate, workerVars, stopVars
<1>5. CASE Stop
  BY <1>5, RequestStopEffect, SMT DEF Stop, workerVars, stopVars
<1>6. CASE Unpark
  BY <1>6, SMT DEF Unpark, stopVars
<1>7. CASE CheckLoop
  BY <1>7, SMT DEF CheckLoop, mediaVars, stopVars
<1>8. CASE ReceiveWake
  BY <1>8, SMT DEF ReceiveWake, stopVars
<1>9. CASE ReceivePacket
  BY <1>9, SMT DEF ReceivePacket, mediaVars, stopVars
<1>10. CASE SelectFails
  BY <1>10, SMT DEF SelectFails, mediaVars, stopVars
<1>11. CASE LeaveLoop
  BY <1>11, SMT DEF LeaveLoop, stopVars
<1>12. CASE GateFailure
  BY <1>12, SMT DEF GateFailure, stopVars
<1>13. CASE AskCleanup
  BY <1>13, SMT DEF AskCleanup, mediaVars, stopVars
<1>14. CASE CloseSocket
  BY <1>14, SMT DEF CloseSocket, stopVars
<1>15. CASE Quiesce
  BY <1>15, SMT DEF Quiesce, stopVars
<1>16. CASE ReportFailure
  <2>1. CASE RequestStop
    BY <1>16, <2>1, RequestStopEffect, SMT DEF ReportFailure, stopVars
  <2>2. CASE UNCHANGED <<phase, rtpRunning, quiesced, cleanupDone, wake, notified, reports>>
    BY <1>16, <2>2, SMT DEF ReportFailure, stopVars
  <2>3. QED
    BY <1>16, <2>1, <2>2 DEF ReportFailure
<1>17. CASE EndPass
  BY <1>17, SMT DEF EndPass, mediaVars, stopVars
<1>18. CASE BeginStop
  BY <1>18, SMT DEF BeginStop, mediaVars, workerVars
<1>19. CASE JoinSipTask
  BY <1>19, SMT DEF JoinSipTask, mediaVars, workerVars
<1>20. CASE StopMedia
  BY <1>20, RequestStopEffect, SMT DEF StopMedia, workerVars
<1>21. CASE CheckQuiesced
  BY <1>21, SMT DEF CheckQuiesced, mediaVars, workerVars
<1>22. CASE AwaitCleanup
  BY <1>22, SMT DEF AwaitCleanup, workerVars
<1>23. CASE SealMedia
  BY <1>23, SMT DEF SealMedia, workerVars
<1>24. CASE TerminateWorker
  BY <1>24, SMT DEF TerminateWorker, workerVars
<1>25. CASE ReapWorker
  BY <1>25, SMT DEF ReapWorker, mediaVars, workerVars
<1>26. CASE UNCHANGED vars
  BY <1>26, SMT DEF vars
<1>27. QED
  BY <1>1, <1>2, <1>3, <1>4, <1>5, <1>6, <1>7, <1>8, <1>9, <1>10, <1>11,
     <1>12, <1>13, <1>14, <1>15, <1>16, <1>17, <1>18, <1>19, <1>20, <1>21,
     <1>22, <1>23, <1>24, <1>25, <1>26
  DEF Next, Caller, Worker, Shutdown

\* Both parts of the induction, as one temporal fact.
LEMMA MediaInvariant == Spec => []MediaInv
  BY MediaInvInit, MediaInvStep, PTL DEF Spec

\* The variables of the media path always have their types.
THEOREM MediaTypes == Spec => []TypeOK
<1>1. MediaInv => TypeOK
  BY DEF MediaInv
<1>2. QED
  BY <1>1, MediaInvariant, PTL

\* A prepared or active session owns its socket and traffic flows in an active
\* session only, even when the worker fails on its own.
THEOREM SessionsOwnTheirSocket == Spec => []MediaOwnsSocket
<1>1. MediaInv => MediaOwnsSocket
  BY DEF MediaInv
<1>2. QED
  BY <1>1, MediaInvariant, PTL

\* The worker never sleeps while a session is active or being cleaned.
THEOREM WorkerIsWoken == Spec => []NoLostWakeup
<1>1. MediaInv => NoLostWakeup
  BY DEF MediaInv
<1>2. QED
  BY <1>1, MediaInvariant, PTL

-----------------------------------------------------------------------------
(* A path whose worker never fails. *)

\* A stop that has something to clean starts one cleanup and leaves the worker
\* exactly one wake-up.
LEMMA RequestStopClean ==
  ASSUME TypeOK, MediaOwnsSocket, RequestStop
  PROVE  /\ phase \in {"PREPARED", "ACTIVE"}
              => ~quiesced' /\ ~cleanupDone' /\ reports' = 0
         /\ phase \notin {"PREPARED", "ACTIVE"}
              => UNCHANGED <<quiesced, cleanupDone, notified, reports>>
         /\ phase = "ACTIVE" /\ rtpRunning => notified' = notified
<1>1. phase \in {"PREPARED", "ACTIVE"} => ~quiesced' /\ ~cleanupDone' /\ reports' = 0
  BY SMT DEF TypeOK, RequestStop
<1>2. phase \notin {"PREPARED", "ACTIVE"}
         => UNCHANGED <<quiesced, cleanupDone, notified, reports>>
  BY SMT DEF TypeOK, MediaOwnsSocket, RequestStop
<1>3. phase = "ACTIVE" /\ rtpRunning => notified' = notified
  BY SMT DEF TypeOK, MediaOwnsSocket, RequestStop, WakeWorker
<1>4. QED
  BY <1>1, <1>2, <1>3

\* CleanPassInv holds when start() has returned.
LEMMA CleanPassInit == Init => CleanPassInv
  BY MediaInvInit, SMT
  DEF Init, CleanPassInv, IdleReleasesPort, SingleCompletion,
      RunningIsNotQuiesced, StopIsClean

\* Every step of a path whose select() cannot fail keeps CleanPassInv.
LEMMA CleanPassStep ==
  ASSUME SelectMayFail = FALSE
  PROVE  CleanPassInv /\ [Next]_vars => CleanPassInv'
<1> SUFFICES ASSUME CleanPassInv, [Next]_vars PROVE CleanPassInv'
  OBVIOUS
<1> MediaInv /\ MediaInv' /\ TypeOK /\ TypeOK' /\ MediaOwnsSocket /\ MediaOwnsSocket'
  BY MediaInvStep DEF CleanPassInv, MediaInv
<1> DEFINE Rest ==
      /\ phase = "ACTIVE" => rtpRunning \/ worker = "gate"
      /\ stopping <=> shutdown # "up"
      /\ shutdown \notin {"up", "join", "media"} => phase \notin {"PREPARED", "ACTIVE"}
      /\ worker = "select" => phase \notin {"IDLE", "PREPARED"}
      /\ worker = "clean" => phase \in {"CLEANING", "SHUTTING_DOWN"}
<1> Rest /\ Rest'
  BY DEF MediaInv
<1> USE DEF TypeOK, Phases, WorkerSteps, StopSteps, CleanPassInv, MediaOwnsSocket,
            IdleReleasesPort, SingleCompletion, RunningIsNotQuiesced, StopIsClean
<1>1. CASE Prepare
  BY <1>1, SMT DEF Prepare, CanPrepare, Accepting, Bind, workerVars, stopVars
<1>2. CASE PrepareFails
  BY <1>2, SMT DEF PrepareFails, CanPrepare, Accepting, workerVars, stopVars
<1>3. CASE Commit
  BY <1>3, SMT DEF Commit, Accepting, Activate, workerVars, stopVars
<1>4. CASE Start
  BY <1>4, SMT
  DEF Start, CanPrepare, Accepting, Bind, Activate, workerVars, stopVars
<1>5. CASE Stop
  BY <1>5, RequestStopEffect, RequestStopClean, SMT
  DEF Stop, workerVars, stopVars
<1>6. CASE Unpark
  BY <1>6, SMT DEF Unpark, stopVars
<1>7. CASE CheckLoop
  BY <1>7, SMT DEF CheckLoop, mediaVars, stopVars
<1>8. CASE ReceiveWake
  BY <1>8, SMT DEF ReceiveWake, stopVars
<1>9. CASE ReceivePacket
  BY <1>9, SMT DEF ReceivePacket, mediaVars, stopVars
<1>10. CASE SelectFails
  BY <1>10, SMT DEF SelectFails, mediaVars, stopVars
<1>11. CASE LeaveLoop
  BY <1>11, SMT DEF LeaveLoop, stopVars
<1>12. CASE GateFailure
  BY <1>12, SMT DEF GateFailure, stopVars
<1>13. CASE AskCleanup
  BY <1>13, SMT DEF AskCleanup, mediaVars, stopVars
<1>14. CASE CloseSocket
  BY <1>14, SMT DEF CloseSocket, stopVars
<1>15. CASE Quiesce
  BY <1>15, SMT DEF Quiesce, stopVars
<1>16. CASE ReportFailure
  BY <1>16, SMT DEF ReportFailure
<1>17. CASE EndPass
  BY <1>17, SMT DEF EndPass, mediaVars, stopVars
<1>18. CASE BeginStop
  BY <1>18, SMT DEF BeginStop, mediaVars, workerVars
<1>19. CASE JoinSipTask
  BY <1>19, SMT DEF JoinSipTask, mediaVars, workerVars
<1>20. CASE StopMedia
  BY <1>20, RequestStopEffect, RequestStopClean, SMT DEF StopMedia, workerVars
<1>21. CASE CheckQuiesced
  BY <1>21, SMT DEF CheckQuiesced, mediaVars, workerVars
<1>22. CASE AwaitCleanup
  BY <1>22, SMT DEF AwaitCleanup, workerVars
<1>23. CASE SealMedia
  BY <1>23, SMT DEF SealMedia, workerVars
<1>24. CASE TerminateWorker
  BY <1>24, SMT DEF TerminateWorker, workerVars
<1>25. CASE ReapWorker
  BY <1>25, SMT DEF ReapWorker, mediaVars, workerVars
<1>26. CASE UNCHANGED vars
  BY <1>26, SMT DEF vars
<1>27. QED
  BY <1>1, <1>2, <1>3, <1>4, <1>5, <1>6, <1>7, <1>8, <1>9, <1>10, <1>11,
     <1>12, <1>13, <1>14, <1>15, <1>16, <1>17, <1>18, <1>19, <1>20, <1>21,
     <1>22, <1>23, <1>24, <1>25, <1>26
  DEF Next, Caller, Worker, Shutdown

\* The induction for a path whose select() cannot fail.
LEMMA CleanPass == ASSUME SelectMayFail = FALSE PROVE Spec => []CleanPassInv
<1>1. CleanPassInv /\ [Next]_vars => CleanPassInv'
  BY CleanPassStep
<1>2. QED
  BY <1>1, CleanPassInit, PTL DEF Spec

\* A path that reports itself idle gave the RTP port back.
THEOREM IdlePathIsFree ==
  ASSUME SelectMayFail = FALSE PROVE Spec => []IdleReleasesPort
<1>1. CleanPassInv => IdleReleasesPort
  BY DEF CleanPassInv
<1>2. QED
  BY <1>1, CleanPass, PTL

\* One cleanup, one completion.
THEOREM OneCompletionPerCleanup ==
  ASSUME SelectMayFail = FALSE PROVE Spec => []SingleCompletion
<1>1. CleanPassInv => SingleCompletion
  BY DEF CleanPassInv
<1>2. QED
  BY <1>1, CleanPass, PTL

\* stop() leaves neither a task nor a descriptor behind.
THEOREM StopLeavesNothing ==
  ASSUME SelectMayFail = FALSE PROVE Spec => []StopIsClean
<1>1. CleanPassInv => StopIsClean
  BY DEF CleanPassInv
<1>2. QED
  BY <1>1, CleanPass, PTL

-----------------------------------------------------------------------------
(* The refinement of MediaPath. *)

\* A step of the detailed path is a step of the abstract one or leaves its
\* variables alone.
LEMMA PathStep ==
  CleanPassInv /\ [Next]_vars => [Path!Next]_<<phase, socket, rtpRunning>>
<1> SUFFICES ASSUME CleanPassInv, [Next]_vars
             PROVE  [Path!Next]_<<phase, socket, rtpRunning>>
  OBVIOUS
<1> MediaInv /\ TypeOK /\ MediaOwnsSocket
  BY DEF CleanPassInv, MediaInv
<1> USE DEF TypeOK, Phases, MediaInv, CleanPassInv, MediaOwnsSocket, IdleReleasesPort,
            Path!Next, Path!Acquire, Path!Open, Path!Release, Path!Unbind,
            Path!Recycle, Path!Seal
<1>1. CASE Prepare
  BY <1>1, SMT DEF Prepare, CanPrepare, Accepting, Bind, workerVars, stopVars
<1>2. CASE PrepareFails
  <2>1. socket \in BOOLEAN /\ ~socket /\ socket' = FALSE
    BY <1>2, SMT DEF PrepareFails, CanPrepare
  <2>2. socket' = socket
    BY <2>1, FalseTwice, Zenon
  <2>3. QED
    BY <1>2, <2>2, Zenon DEF PrepareFails
<1>3. CASE Commit
  BY <1>3, SMT DEF Commit, Accepting, Activate, workerVars, stopVars
<1>4. CASE Start
  BY <1>4, SMT
  DEF Start, CanPrepare, Accepting, Bind, Activate, workerVars, stopVars
<1>5. CASE Stop
  BY <1>5, RequestStopEffect, SMT DEF Stop, workerVars, stopVars
<1>6. CASE Unpark
  BY <1>6, SMT DEF Unpark, stopVars
<1>7. CASE CheckLoop
  BY <1>7, SMT DEF CheckLoop, mediaVars, stopVars
<1>8. CASE ReceiveWake
  BY <1>8, SMT DEF ReceiveWake, stopVars
<1>9. CASE ReceivePacket
  BY <1>9, SMT DEF ReceivePacket, mediaVars, stopVars
<1>10. CASE SelectFails
  BY <1>10, SMT DEF SelectFails, mediaVars, stopVars
<1>11. CASE LeaveLoop
  <2>1. rtpRunning \in BOOLEAN /\ ~rtpRunning /\ rtpRunning' = FALSE
    BY <1>11, SMT DEF LeaveLoop
  <2>2. rtpRunning' = rtpRunning
    BY <2>1, FalseTwice, Zenon
  <2>3. QED
    BY <1>11, <2>2, Zenon DEF LeaveLoop
<1>12. CASE GateFailure
  BY <1>12, SMT DEF GateFailure, stopVars
<1>13. CASE AskCleanup
  BY <1>13, SMT DEF AskCleanup, mediaVars, stopVars
<1>14. CASE CloseSocket
  <2>1. CASE phase = "CLEANING"
    BY <1>14, <2>1, Zenon DEF CloseSocket
  <2>2. CASE phase # "CLEANING"
    <3>1. socket \in BOOLEAN /\ ~socket /\ socket' = FALSE
      BY <1>14, <2>2, SMT DEF CloseSocket
    <3>2. socket' = socket
      BY <3>1, FalseTwice, Zenon
    <3>3. QED
      BY <1>14, <3>2, Zenon DEF CloseSocket
  <2>3. QED
    BY <2>1, <2>2
<1>15. CASE Quiesce
  BY <1>15, SMT DEF Quiesce, stopVars
<1>16. CASE ReportFailure
  BY <1>16, RequestStopEffect, SMT DEF ReportFailure, stopVars
<1>17. CASE EndPass
  BY <1>17, SMT DEF EndPass, mediaVars, stopVars
<1>18. CASE BeginStop
  BY <1>18, SMT DEF BeginStop, mediaVars, workerVars
<1>19. CASE JoinSipTask
  BY <1>19, SMT DEF JoinSipTask, mediaVars, workerVars
<1>20. CASE StopMedia
  <2>1. CASE phase \in {"PREPARED", "ACTIVE"}
    BY <1>20, <2>1, SMT DEF StopMedia, RequestStop
  <2>2. CASE phase \notin {"PREPARED", "ACTIVE"}
    <3>1. UNCHANGED <<phase, rtpRunning>>
      BY <1>20, <2>2, SMT DEF StopMedia, RequestStop
    <3>2. QED
      BY <1>20, <3>1, Zenon DEF StopMedia
  <2>3. QED
    BY <2>1, <2>2
<1>21. CASE CheckQuiesced
  BY <1>21, SMT DEF CheckQuiesced, mediaVars, workerVars
<1>22. CASE AwaitCleanup
  BY <1>22, SMT DEF AwaitCleanup, workerVars
<1>23. CASE SealMedia
  BY <1>23, SMT DEF SealMedia, workerVars
<1>24. CASE TerminateWorker
  BY <1>24, SMT DEF TerminateWorker, workerVars
<1>25. CASE ReapWorker
  BY <1>25, SMT DEF ReapWorker, mediaVars, workerVars
<1>26. CASE UNCHANGED vars
  BY <1>26 DEF vars
<1>27. QED
  BY <1>1, <1>2, <1>3, <1>4, <1>5, <1>6, <1>7, <1>8, <1>9, <1>10, <1>11,
     <1>12, <1>13, <1>14, <1>15, <1>16, <1>17, <1>18, <1>19, <1>20, <1>21,
     <1>22, <1>23, <1>24, <1>25, <1>26
  DEF Next, Caller, Worker, Shutdown

\* A path whose select() cannot fail implements the abstract path.
THEOREM MediaPathRefinement ==
  ASSUME SelectMayFail = FALSE PROVE Spec => PathSpec
<1>1. Init => Path!Init
  BY DEF Init, Path!Init
<1>2. CleanPassInv /\ [Next]_vars => [Path!Next]_<<phase, socket, rtpRunning>>
  BY PathStep
<1>3. QED
  BY <1>1, <1>2, CleanPass, PTL DEF Spec, PathSpec, Path!Spec, Path!pathVars

=============================================================================
