------------------------------ MODULE MediaPath ------------------------------
(***************************************************************************)
(* What the media path of SipTransport promises to the call state machine, *)
(* without saying which task does the work.  A session owns the RTP port    *)
(* from the moment it is prepared; once committed it carries traffic; when  *)
(* it is released the traffic stops at once and the port is given back      *)
(* before the path reports itself idle again.  Shutting down is final.      *)
(*                                                                         *)
(* MediaLifecycle is the detailed specification that is shown to implement  *)
(* this one; SipDialog uses the same phases.                                *)
(***************************************************************************)

VARIABLES
    phase,      \* media_lifecycle_phase_
    bound,      \* the RTP port is bound by this path
    live        \* RTP traffic is allowed through

pathVars == <<phase, bound, live>>

\* MediaLifecyclePhase
Phases == {"IDLE", "PREPARED", "ACTIVE", "CLEANING", "SHUTTING_DOWN"}

TypeOK ==
    /\ phase \in Phases
    /\ bound \in BOOLEAN
    /\ live \in BOOLEAN

Init ==
    /\ phase = "IDLE"
    /\ bound = FALSE
    /\ live = FALSE

\* A session takes the port but carries nothing yet.
Acquire ==
    /\ phase = "IDLE"
    /\ ~bound
    /\ phase' = "PREPARED"
    /\ bound' = TRUE
    /\ UNCHANGED live

\* The session starts to carry traffic, straight from idle when preparing and
\* committing are one call.
Open ==
    /\ phase \in {"IDLE", "PREPARED"}
    /\ (phase = "IDLE") => ~bound
    /\ phase' = "ACTIVE"
    /\ bound' = TRUE
    /\ live' = TRUE

\* Traffic stops for good in this session.  The port is still held.
Release ==
    /\ phase \in {"PREPARED", "ACTIVE"}
    /\ phase' = "CLEANING"
    /\ live' = FALSE
    /\ UNCHANGED bound

Unbind ==
    /\ phase = "CLEANING"
    /\ bound' = FALSE
    /\ UNCHANGED <<phase, live>>

\* Idle is reported only after the port was given back.
Recycle ==
    /\ phase = "CLEANING"
    /\ ~bound
    /\ phase' = "IDLE"
    /\ UNCHANGED <<bound, live>>

Seal ==
    /\ phase = "IDLE"
    /\ ~bound
    /\ phase' = "SHUTTING_DOWN"
    /\ UNCHANGED <<bound, live>>

Next == Acquire \/ Open \/ Release \/ Unbind \/ Recycle \/ Seal

Spec == Init /\ [][Next]_pathVars

=============================================================================
