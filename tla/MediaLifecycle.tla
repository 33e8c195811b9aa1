--------------------------- MODULE MediaLifecycle ---------------------------
(***************************************************************************)
(* The audio media path of SipTransport: the lifecycle phase that callers   *)
(* of the main loop and of the SIP task drive under media_lifecycle_mutex_, *)
(* and the persistent RTP worker that owns the cleanup.                     *)
(*                                                                         *)
(* A region that holds media_lifecycle_mutex_ is one action.  The worker    *)
(* reads rtp_running_ and takes its notification outside that mutex, so     *)
(* each of its steps between two lock regions is an action of its own.      *)
(* This is the audio-only build (USE_ESPHOME_VOIP_STACK_VIDEO not defined), *)
(* from a successful start() to the one stop() of the destructor.           *)
(***************************************************************************)

CONSTANT
    SelectMayFail   \* whether select() on the RTP socket can return an error

ASSUME SelectAssumption == SelectMayFail \in BOOLEAN

VARIABLES
    phase,          \* media_lifecycle_phase_
    rtpRunning,     \* rtp_running_
    quiesced,       \* rtp_task_quiesced_
    socket,         \* rtp_socket_ holds an open descriptor
    leaked,         \* a descriptor bound to the RTP port that nothing names
    wake,           \* the RTP socket is readable because of wake_rtp_task_
    notified,       \* the worker's FreeRTOS task notification is pending
    cleanupDone,    \* binary semaphore rtp_cleanup_done_
    taskDone,       \* binary semaphore rtp_task_done_
    terminate,      \* rtp_task_terminate_
    stopping,       \* transport_stopping_ (running_ is its negation here)
    worker,         \* where the RTP worker is
    failed,         \* the worker's local worker_failed
    shutdown,       \* where SipTransport::stop() is
    reports         \* quiesced completions since a cleanup was last requested,
                    \* counted up to 2

vars == <<phase, rtpRunning, quiesced, socket, leaked, wake, notified,
          cleanupDone, taskDone, terminate, stopping, worker, failed,
          shutdown, reports>>

Phases == {"IDLE", "PREPARED", "ACTIVE", "CLEANING", "SHUTTING_DOWN"}

WorkerSteps == {"park", "loop", "select", "exit", "gate", "ask", "clean",
                "quiesce", "report", "again", "done"}

StopSteps == {"up", "join", "media", "wait", "take", "seal", "kill", "reap",
              "stopped"}

TypeOK ==
    /\ phase \in Phases
    /\ worker \in WorkerSteps
    /\ shutdown \in StopSteps
    /\ rtpRunning \in BOOLEAN /\ quiesced \in BOOLEAN /\ socket \in BOOLEAN
    /\ leaked \in BOOLEAN /\ wake \in BOOLEAN /\ notified \in BOOLEAN
    /\ cleanupDone \in BOOLEAN /\ taskDone \in BOOLEAN
    /\ terminate \in BOOLEAN /\ stopping \in BOOLEAN /\ failed \in BOOLEAN
    /\ reports \in {0, 1, 2}

\* start() has returned: the worker waits for its first notification.
Init ==
    /\ phase = "IDLE"
    /\ rtpRunning = FALSE
    /\ quiesced = TRUE
    /\ socket = FALSE
    /\ leaked = FALSE
    /\ wake = FALSE
    /\ notified = FALSE
    /\ cleanupDone = FALSE
    /\ taskDone = FALSE
    /\ terminate = FALSE
    /\ stopping = FALSE
    /\ worker = "park"
    /\ failed = FALSE
    /\ shutdown = "up"
    /\ reports = 1

-----------------------------------------------------------------------------
(* The callers' side: prepare, commit, start and stop. *)

\* What no caller writes.
workerVars == <<worker, failed>>
stopVars == <<shutdown, stopping, terminate, taskDone>>

\* The condition shared by every entry point that opens media.
Accepting == shutdown \in {"up", "join"} /\ ~stopping

\* The worker can take a session: it was not told to terminate and it is
\* parked or about to park.
WorkerAvailable == ~terminate /\ quiesced

\* prepare_media_path_locked_ reaches the bind.
CanPrepare == Accepting /\ phase = "IDLE" /\ WorkerAvailable

\* bind_udp_ overwrites rtp_socket_ before it binds, and the port is free only
\* when no descriptor still holds it.
Bind ==
    /\ ~socket /\ ~leaked
    /\ socket' = TRUE
    /\ wake' = FALSE
    /\ cleanupDone' = FALSE
    /\ UNCHANGED leaked

Activate ==
    /\ quiesced' = FALSE
    /\ rtpRunning' = TRUE
    /\ phase' = "ACTIVE"
    /\ notified' = TRUE

\* prepare_media_path.
Prepare ==
    /\ CanPrepare
    /\ Bind
    /\ phase' = "PREPARED"
    /\ UNCHANGED <<rtpRunning, quiesced, notified, reports, workerVars, stopVars>>

\* bind_udp_ fails: the port is taken, or the stack has no descriptor left.
\* A descriptor left behind by an earlier session becomes unreachable.
PrepareFails ==
    /\ CanPrepare
    /\ leaked' = (leaked \/ socket)
    /\ socket' = FALSE
    /\ wake' = FALSE
    /\ UNCHANGED <<phase, rtpRunning, quiesced, notified, cleanupDone, reports,
                   workerVars, stopVars>>

\* commit_media_path.
Commit ==
    /\ Accepting
    /\ phase = "PREPARED"
    /\ WorkerAvailable
    /\ socket
    /\ Activate
    /\ UNCHANGED <<socket, leaked, wake, cleanupDone, reports, workerVars, stopVars>>

\* start_audio_path: prepare and commit under one lock.
Start ==
    /\ CanPrepare
    /\ Bind
    /\ Activate
    /\ UNCHANGED <<reports, workerVars, stopVars>>

\* Variant: the notification is given in either case.
WakeBothWays(running) ==
    /\ wake' = (wake \/ (running /\ socket))
    /\ notified' = TRUE

\* Variant: only the socket is used.
WakeSocketOnly(running) ==
    /\ wake' = (wake \/ socket)
    /\ UNCHANGED notified

\* How a stopping caller wakes the worker.  In a running session the worker
\* sleeps in select() and is woken through its socket; otherwise it is parked
\* and is woken by a task notification.
WakeWorker(running) ==
    /\ wake' = (wake \/ (running /\ socket))
    /\ notified' = (notified \/ ~(running /\ socket))

\* request_audio_path_stop_locked_.
RequestStop ==
    \/ /\ \/ phase \in {"CLEANING", "SHUTTING_DOWN"}
          \/ phase = "IDLE" /\ ~rtpRunning
       /\ UNCHANGED <<phase, rtpRunning, quiesced, cleanupDone, wake, notified, reports>>
    \/ /\ phase \in {"PREPARED", "ACTIVE"} \/ (phase = "IDLE" /\ rtpRunning)
       /\ rtpRunning' = FALSE
       /\ phase' = "CLEANING"
       /\ cleanupDone' = FALSE
       /\ quiesced' = FALSE
       /\ WakeWorker(rtpRunning)
       /\ reports' = 0

\* stop_audio_path from the main loop, or reset_dialog_ from either task.  The
\* SIP task can still do it while stop() waits for it to end.
Stop ==
    /\ shutdown \in {"up", "join"}
    /\ phase \in {"PREPARED", "ACTIVE"}
    /\ RequestStop
    /\ UNCHANGED <<socket, leaked, workerVars, stopVars>>

Caller == Prepare \/ PrepareFails \/ Commit \/ Start \/ Stop

-----------------------------------------------------------------------------
(* The RTP worker, rtp_task_. *)

\* What the worker shares with the callers.
mediaVars == <<phase, rtpRunning, quiesced, socket, leaked, wake, notified,
               cleanupDone, reports>>

\* ulTaskNotifyTake(pdTRUE, ...) clears the whole count.
Unpark ==
    /\ worker = "park"
    /\ notified
    /\ notified' = FALSE
    /\ worker' = "loop"
    /\ UNCHANGED <<phase, rtpRunning, quiesced, socket, leaked, wake,
                   cleanupDone, failed, reports, stopVars>>

CheckLoop ==
    /\ worker = "loop"
    /\ worker' = IF ~terminate /\ rtpRunning /\ socket THEN "select" ELSE "exit"
    /\ UNCHANGED <<mediaVars, failed, stopVars>>

\* The wake byte is received and discarded; so is the readiness a shutdown()
\* of the socket leaves.
ReceiveWake ==
    /\ worker = "select"
    /\ wake
    /\ wake' = FALSE
    /\ worker' = "loop"
    /\ UNCHANGED <<phase, rtpRunning, quiesced, socket, leaked, notified,
                   cleanupDone, failed, reports, stopVars>>

\* A media packet, delivered or dropped.
ReceivePacket ==
    /\ worker = "select"
    /\ worker' = "loop"
    /\ UNCHANGED <<mediaVars, failed, stopVars>>

\* select() returns an error other than EINTR.
SelectFails ==
    /\ SelectMayFail
    /\ worker = "select"
    /\ worker' = "exit"
    /\ UNCHANGED <<mediaVars, failed, stopVars>>

\* rtp_running_.exchange(false): still true means the worker left by itself.
LeaveLoop ==
    /\ worker = "exit"
    /\ failed' = rtpRunning
    /\ rtpRunning' = FALSE
    /\ worker' = IF rtpRunning THEN "gate" ELSE "ask"
    /\ UNCHANGED <<phase, quiesced, socket, leaked, wake, notified,
                   cleanupDone, reports, stopVars>>

\* Variant: the failure leaves the phase alone.
UngatedFailure ==
    /\ worker = "gate"
    /\ worker' = "ask"
    /\ UNCHANGED <<mediaVars, failed, stopVars>>

GateFailure ==
    /\ worker = "gate"
    /\ phase' = IF phase = "ACTIVE" THEN "CLEANING" ELSE phase
    /\ reports' = IF phase = "ACTIVE" THEN 0 ELSE reports
    /\ worker' = "ask"
    /\ UNCHANGED <<rtpRunning, quiesced, socket, leaked, wake, notified,
                   cleanupDone, failed, stopVars>>

\* Variant: only a failed worker cleans.
AskAfterFailureOnly ==
    /\ worker = "ask"
    /\ worker' = IF failed THEN "clean" ELSE "quiesce"
    /\ UNCHANGED <<mediaVars, failed, stopVars>>

\* Variant: the worker cleans whatever the phase.
NeverAsk ==
    /\ worker = "ask"
    /\ worker' = "clean"
    /\ UNCHANGED <<mediaVars, failed, stopVars>>

AskCleanup ==
    /\ worker = "ask"
    /\ worker' = IF phase = "CLEANING" THEN "clean" ELSE "quiesce"
    /\ UNCHANGED <<mediaVars, failed, stopVars>>

\* finish_audio_path_stop_, outside media_lifecycle_mutex_.
CloseSocket ==
    /\ worker = "clean"
    /\ socket' = FALSE
    /\ wake' = FALSE
    /\ worker' = "quiesce"
    /\ UNCHANGED <<phase, rtpRunning, quiesced, leaked, notified, cleanupDone,
                   failed, reports, stopVars>>

\* Variant: rtp_cleanup_done_ is not given.
QuiesceWithoutSignal ==
    /\ worker = "quiesce"
    /\ phase' = IF phase = "CLEANING" THEN "IDLE" ELSE phase
    /\ quiesced' = TRUE
    /\ reports' = IF reports = 0 THEN 1 ELSE 2
    /\ worker' = IF failed THEN "report" ELSE "again"
    /\ UNCHANGED <<rtpRunning, socket, leaked, wake, notified, cleanupDone,
                   failed, stopVars>>

\* The last lock region of a pass, which also runs emit_media_quiesced_.
Quiesce ==
    /\ worker = "quiesce"
    /\ phase' = IF phase = "CLEANING" THEN "IDLE" ELSE phase
    /\ quiesced' = TRUE
    /\ cleanupDone' = TRUE
    /\ reports' = IF reports = 0 THEN 1 ELSE 2
    /\ worker' = IF failed THEN "report" ELSE "again"
    /\ UNCHANGED <<rtpRunning, socket, leaked, wake, notified, failed, stopVars>>

\* A failed worker ends the dialog that exists when it gets here, if one does.
\* send_bye_unlocked_ and reset_dialog_ both stop the audio path.
ReportFailure ==
    /\ worker = "report"
    /\ \/ RequestStop
       \/ UNCHANGED <<phase, rtpRunning, quiesced, cleanupDone, wake, notified, reports>>
    /\ worker' = "again"
    /\ UNCHANGED <<socket, leaked, failed, stopVars>>

EndPass ==
    /\ worker = "again"
    /\ worker' = IF terminate THEN "done" ELSE "park"
    /\ taskDone' = (taskDone \/ terminate)
    /\ UNCHANGED <<mediaVars, failed, shutdown, stopping, terminate>>

Worker == \/ Unpark \/ CheckLoop \/ ReceiveWake \/ LeaveLoop \/ GateFailure
          \/ AskCleanup \/ CloseSocket \/ Quiesce \/ ReportFailure \/ EndPass

-----------------------------------------------------------------------------
(* SipTransport::stop(), called once by the destructor of the transport. *)

\* The exchange of running_ and the wake-up of the SIP task.
BeginStop ==
    /\ shutdown = "up"
    /\ stopping' = TRUE
    /\ shutdown' = "join"
    /\ UNCHANGED <<mediaVars, workerVars, terminate, taskDone>>

\* The SIP task has ended; from here only the worker is left.
JoinSipTask ==
    /\ shutdown = "join"
    /\ shutdown' = "media"
    /\ UNCHANGED <<mediaVars, workerVars, stopping, terminate, taskDone>>

StopMedia ==
    /\ shutdown = "media"
    /\ RequestStop
    /\ shutdown' = "wait"
    /\ UNCHANGED <<socket, leaked, workerVars, taskDone, terminate, stopping>>

\* Variant: stop() does not look at the flag.
SkipQuiescedCheck ==
    /\ shutdown = "wait"
    /\ shutdown' = "seal"
    /\ UNCHANGED <<mediaVars, workerVars, stopping, terminate, taskDone>>

\* The quiesced flag is read once; only then does stop() sleep.
CheckQuiesced ==
    /\ shutdown = "wait"
    /\ shutdown' = IF quiesced THEN "seal" ELSE "take"
    /\ UNCHANGED <<mediaVars, workerVars, stopping, terminate, taskDone>>

AwaitCleanup ==
    /\ shutdown = "take"
    /\ cleanupDone
    /\ cleanupDone' = FALSE
    /\ shutdown' = "seal"
    /\ UNCHANGED <<phase, rtpRunning, quiesced, socket, leaked, wake, notified,
                   reports, workerVars, stopping, terminate, taskDone>>

SealMedia ==
    /\ shutdown = "seal"
    /\ phase' = "SHUTTING_DOWN"
    /\ shutdown' = "kill"
    /\ UNCHANGED <<rtpRunning, quiesced, socket, leaked, wake, notified,
                   cleanupDone, reports, workerVars, stopping, terminate, taskDone>>

TerminateWorker ==
    /\ shutdown = "kill"
    /\ taskDone' = FALSE
    /\ terminate' = TRUE
    /\ notified' = TRUE
    /\ shutdown' = "reap"
    /\ UNCHANGED <<phase, rtpRunning, quiesced, socket, leaked, wake,
                   cleanupDone, reports, workerVars, stopping>>

ReapWorker ==
    /\ shutdown = "reap"
    /\ taskDone
    /\ taskDone' = FALSE
    /\ shutdown' = "stopped"
    /\ UNCHANGED <<mediaVars, workerVars, stopping, terminate>>

\* Everything stop() does once it was called.
Shutdown == \/ JoinSipTask \/ StopMedia \/ CheckQuiesced \/ AwaitCleanup
            \/ SealMedia \/ TerminateWorker \/ ReapWorker

Next == Caller \/ Worker \/ ReceivePacket \/ SelectFails \/ BeginStop \/ Shutdown

Spec == Init /\ [][Next]_vars

\* The scheduler runs the worker and the caller of stop() whenever they are
\* ready.  Nothing obliges a call, a packet, a failure or a shutdown to happen.
Fairness == WF_vars(Worker) /\ WF_vars(Shutdown)

FairSpec == Spec /\ Fairness

-----------------------------------------------------------------------------
(* What the media path promises. *)

\* Media is allowed through only in an active session, and a session that is
\* prepared or active owns an open RTP socket: nothing the worker still does for
\* an earlier session takes the socket of a later one away.
MediaOwnsSocket ==
    /\ rtpRunning => phase = "ACTIVE"
    /\ phase \in {"PREPARED", "ACTIVE"} => socket

\* The worker never sleeps on work: it does not park without a notification
\* while a session is active or being cleaned, and it does not sleep in select()
\* unwoken after the session was stopped ("must not leave the transport claiming
\* an active media worker that has actually parked").
NoLostWakeup ==
    /\ (worker = "park" /\ ~notified) => phase \notin {"ACTIVE", "CLEANING"}
    /\ (worker = "select" /\ ~wake) => rtpRunning

\* A path that reports itself idle gave the RTP port back: the next call can
\* bind it.
IdleReleasesPort == phase = "IDLE" => ~socket /\ ~leaked

\* One cleanup produces one quiesced completion; the call state machine takes
\* each completion for the end of the session it is cleaning.  (The pass on which
\* a terminated worker leaves is not counted.)
SingleCompletion == terminate \/ reports # 2

\* A running session is never taken for a parked worker, the condition under
\* which a new session is prepared.
RunningIsNotQuiesced == rtpRunning => ~quiesced

\* When stop() returns the worker is gone, so that the destructor leaves no task
\* that can still reach the transport, and no descriptor is left open.
StopIsClean == shutdown = "stopped" => worker = "done" /\ ~socket /\ ~leaked

\* The inductive invariant behind MediaOwnsSocket and NoLostWakeup, whether or
\* not select() can fail: what the phase can be at each step of the worker and
\* of stop(), and which steps still have a notification ahead of them.
MediaInv ==
    /\ TypeOK
    /\ MediaOwnsSocket
    /\ NoLostWakeup
    /\ phase = "ACTIVE" => rtpRunning \/ worker = "gate"
    /\ worker = "gate" => ~rtpRunning /\ phase \notin {"IDLE", "PREPARED"}
    /\ worker = "clean" => phase \in {"CLEANING", "SHUTTING_DOWN"}
    /\ worker = "select" => phase \notin {"IDLE", "PREPARED"}
    /\ (worker \in {"ask", "clean", "quiesce"} /\ phase = "ACTIVE") => notified
    /\ (worker \in {"report", "again"} /\ phase \in {"ACTIVE", "CLEANING"}) => notified
    /\ stopping <=> shutdown # "up"
    /\ shutdown \notin {"up", "join", "media"} => phase \notin {"PREPARED", "ACTIVE"}

\* The inductive invariant of a path whose worker never fails: the worker is
\* either parked and free, or bound to exactly one session, with exactly one
\* notification for it.
CleanPassInv ==
    /\ MediaInv
    /\ IdleReleasesPort /\ SingleCompletion /\ RunningIsNotQuiesced /\ StopIsClean
    /\ ~failed /\ worker \notin {"gate", "report"} /\ ~leaked
    /\ quiesced => phase \notin {"ACTIVE", "CLEANING"}
    /\ ~quiesced => phase \in {"ACTIVE", "CLEANING"} /\ ~terminate
    /\ (quiesced /\ ~terminate) => worker \in {"again", "park"} /\ ~notified
    /\ ~quiesced => (notified <=> worker \in {"again", "park"})
    /\ (worker \in {"exit", "ask", "clean", "quiesce"} /\ ~terminate)
           => phase = "CLEANING" /\ ~rtpRunning
    /\ (worker = "quiesce" \/ phase = "SHUTTING_DOWN") => ~socket
    /\ cleanupDone => quiesced /\ phase # "PREPARED"
    /\ phase = "CLEANING" => reports = 0
    /\ shutdown \in {"seal", "kill"} => quiesced
    /\ terminate <=> shutdown \in {"reap", "stopped"}
    /\ phase = "SHUTTING_DOWN" <=> shutdown \in {"kill", "reap", "stopped"}
    /\ (taskDone \/ worker = "done" \/ shutdown = "stopped") => worker = "done" /\ terminate

\* The detailed path implements the abstract one.
Path == INSTANCE MediaPath WITH bound <- socket, live <- rtpRunning

PathSpec == Path!Spec

\* A cleanup that was requested ends.
CleaningEnds == phase = "CLEANING" ~> phase # "CLEANING"

\* stop() returns.
StopReturns == shutdown = "join" ~> shutdown = "stopped"

=============================================================================
