------------------------------ MODULE Controller ------------------------------
(***************************************************************************)
(* The controller of remoteinput/controller.py.  Its fields epoch,         *)
(* pending_epoch and queue are shared without a lock by the event loop     *)
(* (reader, sender, monitor and scheduled callbacks, one at a time) and    *)
(* the hook thread of the capture (hotkeys, input, watchdog), so that the  *)
(* lines of stop_control and of the handling of "activated" interleave.    *)
(*                                                                         *)
(* The relay is two FIFO channels per connection.  The target is what      *)
(* ControlSession promises and no more; TargetEngine implements it.  Time  *)
(* is abstract: a deadline may pass, a lease be stale and the hook be      *)
(* unhealthy at any moment.  An input event is its epoch; what a full      *)
(* queue does is in InputQueue.                                            *)
(***************************************************************************)
EXTENDS WindowsCapture, Sequences, SequencesExt, FiniteSets

CONSTANTS
    MaxEpoch,     \* bound: activations
    MaxHotkeys,   \* bound: hotkeys pressed
    MaxWire,      \* bound: messages under way to the target
    MaxQueue      \* bound: inputs queued

ASSUME ControllerAssumption ==
    MaxEpoch \in Nat /\ MaxHotkeys \in Nat /\ MaxWire \in Nat /\ MaxQueue \in Nat \ {0}

VARIABLES
    connected, lease,       \* a connection, and a challenge was received on it
    epoch, pendingEpoch,
    queue,                  \* of module InputQueue, only the epochs
    callbacks,              \* functions scheduled with call_soon_threadsafe
    loop, hook,             \* control of the two threads
    loaded,                 \* the loop's copy of pendingEpoch
    locked,                 \* the hook thread is in a callback, under the lock
    nested,                 \* ... that interrupted _apply_state
    \* --- the relay and the target ---
    toTarget, toController,
    targetEpoch, targetOffers, targetNewest,
    \* --- history ---
    epochs,                 \* activations attempted
    hotkeys                 \* hotkeys pressed

shared == <<epoch, pendingEpoch, queue>>
target == <<targetEpoch, targetOffers, targetNewest>>
network == <<toTarget, toController, target>>
history == <<epochs, hotkeys>>
threads == <<loop, hook, loaded, locked, nested>>
\* The target, as far as its controller may rely on it.
Target == INSTANCE ControlSession
          WITH Epochs <- 1 .. MaxEpoch, session <- targetEpoch, offered <- targetOffers,
               newest <- targetNewest

vars == <<captureVars, connected, lease, shared, callbacks, threads, network, history>>

Message(type, e) == [type |-> type, epoch |-> e]

Init ==
    /\ CaptureInit
    /\ connected = FALSE /\ lease = FALSE
    /\ epoch = 0 /\ pendingEpoch = 0 /\ queue = <<>> /\ callbacks = <<>>
    /\ loop = "run" /\ hook = "idle" /\ loaded = 0 /\ locked = FALSE /\ nested = FALSE
    /\ toTarget = <<>> /\ toController = <<>> /\ Target!Init
    /\ epochs = 0 /\ hotkeys = 0

-------------------------------------------------------------------------------
\* stop_control, line by line, on either thread.  `at' and `next' are the values
\* of the thread's control variable; a thread without the lock waits for it.

StopCapture == Deactivate /\ UNCHANGED <<shared, callbacks>>

StopEpoch == epoch' = 0 /\ UNCHANGED <<captureVars, pendingEpoch, queue, callbacks>>

StopPending == pendingEpoch' = 0 /\ UNCHANGED <<captureVars, epoch, queue, callbacks>>

StopQueue == queue' = <<>> /\ UNCHANGED <<captureVars, epoch, pendingEpoch, callbacks>>

StopSchedule_Nothing ==
    UNCHANGED <<captureVars, shared, callbacks>>

StopSchedule ==
    /\ callbacks' = Append(callbacks, "reset")
    /\ UNCHANGED <<captureVars, shared>>

StopLine(at, next) ==
    \/ at = "stop_capture" /\ next = "stop_epoch" /\ StopCapture
    \/ at = "stop_epoch" /\ next = "stop_pending" /\ StopEpoch
    \/ at = "stop_pending" /\ next = "stop_queue" /\ StopPending
    \/ at = "stop_queue" /\ next = "stop_schedule" /\ StopQueue
    \/ at = "stop_schedule" /\ next = "done" /\ StopSchedule

\* Where a thread is when its stop has ended.
Back(next, home) == IF next = "done" THEN home ELSE next

-------------------------------------------------------------------------------
\* The hook thread.

Interruptible == hook \in {"idle", "apply"} /\ (hook = "apply" => locked)

EnterCallback == locked' = TRUE /\ nested' = (hook = "apply")

KeepLoop == UNCHANGED <<connected, lease, loop, loaded, network>>

\* Ctrl+Alt+F9; the two fields are read one after the other.
HotkeyToggle ==
    /\ Interruptible /\ hotkeys < MaxHotkeys
    /\ EnterCallback
    /\ hook' = IF epoch # 0 THEN "stop_capture" ELSE "toggle"
    /\ hotkeys' = hotkeys + 1
    /\ UNCHANGED <<captureVars, shared, callbacks, epochs>> /\ KeepLoop

ReadPending ==
    /\ hook = "toggle"
    /\ IF pendingEpoch # 0
       THEN hook' = "stop_capture" /\ UNCHANGED <<callbacks, locked>>
       ELSE /\ callbacks' = Append(callbacks, "activate")
            /\ hook' = IF nested THEN "apply" ELSE "idle"
            /\ locked' = nested
    /\ UNCHANGED <<captureVars, shared, nested, history>> /\ KeepLoop

\* Ctrl+Alt+F10.
HotkeyStop ==
    /\ Interruptible /\ hotkeys < MaxHotkeys
    /\ EnterCallback
    /\ hook' = "stop_capture"
    /\ hotkeys' = hotkeys + 1
    /\ UNCHANGED <<captureVars, shared, callbacks, epochs>> /\ KeepLoop

HasRoom_OffByOne == Len(queue) <= MaxQueue
HasRoom == Len(queue) < MaxQueue

\* enqueue: the policy is active, so _apply_state is not under way.
CaptureInput ==
    /\ hook = "idle" /\ active
    /\ \/ /\ ~connected \/ epoch = 0
          /\ UNCHANGED <<queue, locked, nested, hook>>
       \/ /\ connected /\ epoch # 0 /\ HasRoom
          /\ queue' = Append(queue, epoch)
          /\ UNCHANGED <<locked, nested, hook>>
       \/ /\ connected /\ epoch # 0
          /\ queue' = <<>>
          /\ EnterCallback
          /\ hook' = "stop_capture"
    /\ UNCHANGED <<captureVars, epoch, pendingEpoch, callbacks, history>> /\ KeepLoop

\* The network loop has been silent, or a handler raised: a pause and a stop
\* without the lock.
Watchdog ==
    /\ hook = "idle" /\ active
    /\ hook' = "stop_capture"
    /\ locked' = FALSE /\ nested' = FALSE
    /\ UNCHANGED <<captureVars, shared, callbacks, history>> /\ KeepLoop

HookStops ==
    /\ \E next \in {"stop_epoch", "stop_pending", "stop_queue", "stop_schedule", "done"} :
        /\ StopLine(hook, next)
        /\ hook' = Back(next, IF nested THEN "apply" ELSE "idle")
        /\ locked' = IF next = "done" THEN nested ELSE locked
    /\ UNCHANGED <<nested, history>> /\ KeepLoop

Apply ==
    /\ hook = "idle"
    /\ \/ (ApplyPause \/ ApplyNothing) /\ UNCHANGED <<hook, locked>>
       \/ BeginActivation /\ hook' = "apply" /\ locked' = TRUE
    /\ UNCHANGED <<shared, callbacks, nested, history>> /\ KeepLoop

EndApply ==
    /\ hook = "apply"
    /\ \/ EndActivation /\ hook' = "idle"
       \/ ActivationRaises /\ hook' = "stop_capture"
    /\ locked' = FALSE /\ nested' = FALSE
    /\ UNCHANGED <<shared, callbacks, history>> /\ KeepLoop

Hook ==
    \/ HotkeyToggle \/ ReadPending \/ HotkeyStop \/ CaptureInput \/ Watchdog
    \/ HookStops \/ Apply \/ EndApply

-------------------------------------------------------------------------------
\* The event loop: one callback or task step at a time.

KeepHook == UNCHANGED <<hook, locked, nested, hotkeys>>

Send(type, e) == toTarget' = Append(toTarget, Message(type, e))

\* Bound: what does not answer something is sent while the channel has room.
Room == Len(toTarget) < MaxWire

PausedBy(e) == IF e # 0 THEN <<Message("paused", e)>> ELSE <<>>

\* The activations on their way to the target.
Underway == {m.epoch : m \in {n \in ToSet(toTarget) : n.type = "ACTIVATE"}}

\* activate; the lease may be stale.
Activate ==
    /\ \/ /\ epoch = 0 /\ pendingEpoch = 0 /\ connected /\ lease /\ epochs < MaxEpoch
          /\ epochs' = epochs + 1
          /\ pendingEpoch' = epochs + 1
          /\ queue' = <<>>
          /\ Send("ACTIVATE", epochs + 1)
       \/ UNCHANGED <<epochs, pendingEpoch, queue, toTarget>>
    /\ UNCHANGED epoch

SendReset ==
    /\ IF connected THEN Send("RESET", 0) ELSE UNCHANGED toTarget
    /\ UNCHANGED <<shared, epochs>>

RunCallback ==
    /\ loop = "run" /\ callbacks # <<>>
    /\ callbacks' = Tail(callbacks)
    /\ IF Head(callbacks) = "activate" THEN Activate ELSE SendReset
    /\ UNCHANGED <<captureVars, connected, lease, loop, loaded, toController, target>>
    /\ KeepHook

Receive(type) ==
    /\ loop = "run" /\ connected
    /\ toController # <<>> /\ Head(toController).type = type
    /\ toController' = Tail(toController)
    /\ UNCHANGED target

\* The heartbeat names the epoch or the pending one; an unhealthy hook sends none.
ReceiveChallenge ==
    /\ Receive("challenge")
    /\ lease' = TRUE
    /\ \/ Room /\ Send("HEARTBEAT", IF epoch # 0 THEN epoch ELSE pendingEpoch)
       \/ UNCHANGED toTarget
    /\ UNCHANGED <<captureVars, connected, shared, callbacks, loop, loaded, epochs>>
    /\ KeepHook

ReceiveActivated_Unchecked ==
    /\ Receive("activated")
    /\ loop' = "load"
    /\ UNCHANGED toTarget
    /\ UNCHANGED <<captureVars, connected, lease, shared, callbacks, loaded, epochs>>
    /\ KeepHook

ReceiveActivated ==
    /\ Receive("activated")
    /\ IF pendingEpoch # 0 /\ Head(toController).epoch = pendingEpoch
       THEN loop' = "load" /\ UNCHANGED toTarget
       ELSE Send("RESET", 0) /\ UNCHANGED loop
    /\ UNCHANGED <<captureVars, connected, lease, shared, callbacks, loaded, epochs>>
    /\ KeepHook

\* self.epoch, self.pending_epoch = self.pending_epoch, 0
TakeEpoch ==
    /\ \/ loop = "load" /\ loop' = "take" /\ loaded' = pendingEpoch
          /\ UNCHANGED <<epoch, pendingEpoch>>
       \/ loop = "take" /\ loop' = "taken" /\ epoch' = loaded
          /\ UNCHANGED <<loaded, pendingEpoch>>
       \/ loop = "taken" /\ loop' = "capture" /\ pendingEpoch' = 0 /\ loaded' = 0
          /\ UNCHANGED epoch
    /\ UNCHANGED <<captureVars, connected, lease, queue, callbacks, network, epochs>>
    /\ KeepHook

\* self.capture.set_active(True), which raises when the message is refused.
ActivateCapture ==
    /\ loop = "capture" /\ ~locked
    /\ \/ RequestActivation /\ loop' = "run"
       \/ RequestRefused /\ loop' = "closing"
    /\ UNCHANGED <<connected, lease, shared, callbacks, loaded, network, epochs>>
    /\ KeepHook

ReceivePaused ==
    /\ Receive("paused")
    /\ loop' = IF Head(toController).epoch \in {epoch, pendingEpoch}
               THEN "stop_capture" ELSE "run"
    /\ UNCHANGED <<captureVars, connected, lease, shared, callbacks, loaded, toTarget,
                   epochs>>
    /\ KeepHook

\* One turn of the sender's inner loop.
SendInput ==
    /\ loop = "run" /\ connected /\ Room /\ queue # <<>>
    /\ queue' = Tail(queue)
    /\ IF epoch # 0 /\ Head(queue) = epoch THEN Send("INPUT", epoch) ELSE UNCHANGED toTarget
    /\ UNCHANGED <<captureVars, connected, lease, epoch, pendingEpoch, callbacks, loop,
                   loaded, toController, target, epochs>>
    /\ KeepHook

\* The monitor finds a silent target, an unhealthy hook or a late activation; the
\* sender finds an overdue input.
StopControl ==
    /\ loop = "run" /\ connected
    /\ epoch # 0 \/ pendingEpoch # 0 \/ queue # <<>>
    /\ loop' = "stop_capture"
    /\ UNCHANGED <<captureVars, connected, lease, shared, callbacks, loaded, network,
                   epochs>>
    /\ KeepHook

LoopStops ==
    /\ loop = "stop_capture" => ~locked
    /\ \E next \in {"stop_epoch", "stop_pending", "stop_queue", "stop_schedule", "done"} :
        StopLine(loop, next) /\ loop' = Back(next, "run")
    /\ UNCHANGED <<connected, lease, loaded, network, epochs>>
    /\ KeepHook

\* The relay announces the controller to the target, which resets.
Connect ==
    /\ loop = "run" /\ ~connected
    /\ connected' = TRUE
    /\ toController' = toController \o PausedBy(targetEpoch)
    /\ Target!Recede /\ targetEpoch' = 0
    /\ UNCHANGED <<captureVars, lease, shared, callbacks, loop, loaded, toTarget, epochs>>
    /\ KeepHook

\* The connection ends, by itself or because a task raised: the finally clause of
\* run.  The target learns it from the relay and resets; an activation it had popped
\* may still begin, and its last notice may reach the next connection.
Disconnect ==
    /\ connected /\ loop \in {"run", "closing"} /\ ~locked
    /\ Deactivate
    /\ connected' = FALSE /\ lease' = FALSE
    /\ epoch' = 0 /\ pendingEpoch' = 0 /\ queue' = <<>>
    /\ loop' = "run"
    /\ toTarget' = <<>>
    /\ toController' \in {<<>>, PausedBy(targetEpoch)}
    /\ targetEpoch' = 0
    /\ \/ targetOffers' = {}
       \/ \E e \in targetOffers \cup Underway : targetOffers' = {e}
    /\ UNCHANGED <<targetNewest, callbacks, loaded, epochs>>
    /\ KeepHook

Loop ==
    \/ RunCallback \/ ReceiveChallenge \/ ReceiveActivated \/ ReceivePaused
    \/ TakeEpoch \/ ActivateCapture \/ SendInput \/ StopControl \/ LoopStops
    \/ Connect \/ Disconnect

-------------------------------------------------------------------------------
\* The target and the relay.

\* While nobody is connected the relay drops what the target says.
Tell(messages) ==
    toController' = IF connected THEN toController \o messages ELSE toController

KeepController ==
    UNCHANGED <<captureVars, connected, lease, shared, callbacks, threads, history>>

\* An activation waits; a reset ends the session and drops offers, not always all.
TargetReceives ==
    /\ connected /\ toTarget # <<>>
    /\ toTarget' = Tail(toTarget)
    /\ LET m == Head(toTarget)
       IN  CASE m.type = "ACTIVATE" -> Target!Offer(m.epoch) /\ UNCHANGED toController
             [] m.type = "RESET" ->
                  Target!Recede /\ targetEpoch' = 0 /\ Tell(PausedBy(targetEpoch))
             [] OTHER -> UNCHANGED <<target, toController>>
    /\ KeepController

\* An offer begins a session, or is declined with a notice that a refusal gives in
\* the old session and a stale lease after its end, or is ignored.
TargetDecides ==
    /\ \E e \in targetOffers :
        \/ /\ Target!Begin(e)
           /\ Tell(Append(PausedBy(targetEpoch), Message("activated", e)))
        \/ /\ Target!Recede /\ targetOffers' = targetOffers \ {e}
           /\ Tell((IF targetEpoch' = 0 THEN PausedBy(targetEpoch) ELSE <<>>)
                    \o <<Message("paused", e)>>)
        \/ /\ Target!Recede /\ targetOffers' = targetOffers \ {e}
           /\ UNCHANGED <<targetEpoch, toController>>
    /\ UNCHANGED toTarget /\ KeepController

TargetSpeaks ==
    /\ connected /\ Len(toController) < MaxWire
    /\ Tell(<<Message("challenge", 0)>>)
    /\ UNCHANGED <<target, toTarget>> /\ KeepController

\* A deadline, an overload or a lost permission.
TargetPauses ==
    /\ targetEpoch # 0 /\ Len(toController) < MaxWire
    /\ Target!Recede /\ targetEpoch' = 0
    /\ Tell(PausedBy(targetEpoch))
    /\ UNCHANGED toTarget /\ KeepController

Next ==
    \/ Hook \/ Loop
    \/ TargetReceives \/ TargetDecides \/ TargetSpeaks \/ TargetPauses

Spec == Init /\ [][Next]_vars

-------------------------------------------------------------------------------

Stops == {"stop_capture", "stop_epoch", "stop_pending", "stop_queue", "stop_schedule"}

\* The type invariant.
TypeOK ==
    /\ CaptureType
    /\ connected \in BOOLEAN /\ lease \in BOOLEAN
    /\ {epoch, pendingEpoch, loaded, targetEpoch, targetNewest, epochs} \cup targetOffers
           \subseteq 0 .. MaxEpoch
    /\ Len(queue) <= MaxQueue
    /\ \A i \in DOMAIN callbacks : callbacks[i] \in {"activate", "reset"}
    /\ loop \in {"run", "load", "take", "taken", "capture", "closing"} \cup Stops
    /\ hook \in {"idle", "toggle", "apply"} \cup Stops
    /\ locked \in BOOLEAN /\ nested \in BOOLEAN

\* "A pause disables suppression immediately and supersedes a queued activation"
\* (DESIGN): input is suppressed only on the newest request of set_active, also when
\* the pause came while _apply_state was in a native call.
SuppressesOnRequest == active => requested

\* Whenever input is back with the user but the cursor is not, the message that
\* restores it is under way, unless Windows refused it.
CursorFollows ==
    anchored /\ ~active /\ hook \notin Stops /\ hook # "apply" /\ ~nested
        => posted \/ unposted

\* The target never controls for nobody: whatever the order of hotkeys, messages and
\* timeouts, either the controller has or awaits that epoch, or what ends it is on its
\* way.
NoOrphanControl ==
    targetEpoch # 0 /\ connected =>
        \/ targetEpoch \in {epoch, pendingEpoch, loaded}
        \/ Contains(toController, Message("activated", targetEpoch))
        \/ Contains(toTarget, Message("RESET", 0))
        \/ Contains(callbacks, "reset")
        \/ hook \in Stops \/ loop \in Stops

\* The controller never controls nothing: while it has an epoch the target is in it,
\* or the notice that ends it is on its way.
NoDeadControl ==
    epoch # 0 /\ targetEpoch # epoch =>
        \/ Contains(toController, Message("paused", epoch))
        \/ hook \in Stops \/ loop \in Stops

\* "The Windows controller suppresses ordinary local input only while active" (DESIGN):
\* the capture is never active without an epoch, in which every input is dropped and
\* no timeout of the monitor applies.
SuppressesOnlyWhileControlling == active => epoch # 0
===============================================================================
