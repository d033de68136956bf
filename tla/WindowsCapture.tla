---------------------------- MODULE WindowsCapture ----------------------------
(***************************************************************************)
(* The activation machinery of class WindowsCapture, platforms/windows.py. *)
(* set_active is called by the event loop and by the hook thread; cursor   *)
(* and key calls to Windows happen on the hook thread only, which a single *)
(* posted message asks to apply the newest request.  The policy's          *)
(* reentrant lock covers set_active and _apply_state, but while            *)
(* _apply_state is in a native call Windows may dispatch a hook callback   *)
(* on the same thread, which passes the lock.                              *)
(*                                                                         *)
(* Of the policy (module CapturePolicy) only `active' is kept here.        *)
(***************************************************************************)
EXTENDS Integers

VARIABLES
    active,     \* policy.active: local input is suppressed
    requested,  \* requested_active
    posted,     \* state_pending: a message is on its way to the hook thread
    changed,    \* state_version has changed since _apply_state began
    anchored,   \* origin is set: the cursor is away from the user's place
    unposted    \* history: a pause whose message Windows refused

captureVars == <<active, requested, posted, changed, anchored, unposted>>

CaptureInit ==
    /\ active = FALSE /\ requested = FALSE /\ posted = FALSE /\ changed = FALSE
    /\ anchored = FALSE /\ unposted = FALSE

CaptureType ==
    {active, requested, posted, changed, anchored, unposted} \subseteq BOOLEAN

Deactivate_Silently ==
    /\ active' = FALSE /\ requested' = FALSE /\ changed' = TRUE
    /\ UNCHANGED <<posted, anchored, unposted>>

\* set_active(False): the policy pauses at once, the cursor follows.
Deactivate ==
    /\ active' = FALSE /\ requested' = FALSE /\ changed' = TRUE
    /\ \/ posted' = TRUE /\ UNCHANGED unposted
       \/ ~posted /\ UNCHANGED posted /\ unposted' = TRUE
    /\ UNCHANGED anchored

\* set_active(True).
RequestActivation ==
    /\ requested' = TRUE /\ changed' = TRUE /\ posted' = TRUE
    /\ UNCHANGED <<active, anchored, unposted>>

\* The message is refused: the request is withdrawn, and the call raises.
RequestRefused ==
    /\ ~posted
    /\ requested' = FALSE /\ changed' = TRUE /\ active' = FALSE
    /\ unposted' = TRUE
    /\ UNCHANGED <<posted, anchored>>

\* _apply_state up to the first native call, with nothing left to do after it ...
ApplyPause ==
    /\ posted /\ ~requested
    /\ posted' = FALSE /\ changed' = FALSE /\ unposted' = FALSE
    /\ active' = FALSE /\ anchored' = FALSE
    /\ UNCHANGED requested

ApplyNothing ==
    /\ posted /\ requested /\ active
    /\ posted' = FALSE /\ changed' = FALSE
    /\ UNCHANGED <<active, requested, anchored, unposted>>

\* ... or with an activation to carry out.
BeginActivation ==
    /\ posted /\ requested /\ ~active
    /\ posted' = FALSE /\ changed' = FALSE /\ anchored' = TRUE /\ unposted' = FALSE
    /\ UNCHANGED <<active, requested>>

EndActivation_Unchecked ==
    /\ active' = TRUE
    /\ UNCHANGED <<requested, posted, changed, anchored, unposted>>

\* A callback may have cancelled it meanwhile.
EndActivation ==
    /\ active' = (requested /\ ~changed)
    /\ anchored' = (requested /\ ~changed)
    /\ UNCHANGED <<requested, posted, changed, unposted>>

\* A native call fails, before or after the cursor is moved.
ActivationRaises ==
    /\ anchored' \in BOOLEAN
    /\ UNCHANGED <<active, requested, posted, changed, unposted>>
===============================================================================
