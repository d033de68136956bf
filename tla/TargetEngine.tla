----------------------------- MODULE TargetEngine -----------------------------
(***************************************************************************)
(* The target's input engine: class TargetEngine of remoteinput/safety.py. *)
(*                                                                         *)
(* Two threads share it.  The network thread (the asyncio loop of          *)
(* target.py) delivers frames, connection changes, peer changes and the    *)
(* resets of a password change.  The worker thread (_run) alternates tick  *)
(* and process_one.  One lock guards the state, but process_one pops its   *)
(* event BEFORE it takes the lock, and receive resets AFTER put has left   *)
(* the queue's lock: `popped' and `overloaded' hold what a thread carries  *)
(* across those gaps.  The operating system is external: the set `down' of *)
(* inputs it holds pressed, and calls that may fail while `faulty'.        *)
(***************************************************************************)
EXTENDS InputQueue, NetworkTiming, FiniteSets

CONSTANTS
    Keys, Buttons,  \* what can be held; the code tracks the two alike
    Supported,      \* the keys for which injector.supports_key is true
    NoItem,         \* the argument of a frame that holds nothing
    Ops,            \* the operations the peers send, besides RESET
    AckEvery,       \* an input of every AckEvery-th seq is acknowledged (32)
    Retention,      \* ticks a lease is kept: MAX + INTERVAL + QUEUE_AGE + 1 s
    MayFail,        \* whether calls to the operating system can fail at all
    MaxClock,       \* bound: last tick of the clock
    MaxNonce,       \* bound: challenges issued
    MaxEpoch,       \* bound: activations attempted by controllers
    MaxSeq          \* bound: sequence number of a frame

Inputs == Keys \cup Buttons

ASSUME EngineAssumption ==
    /\ Supported \subseteq Keys
    /\ NoItem \notin Inputs
    /\ Ops \subseteq {"ACTIVATE", "HEARTBEAT", "PROBE", "KEY", "BUTTON",
                      "MOVE", "SCROLL"}
    /\ AckEvery \in Nat \ {0}
    /\ MayFail \in BOOLEAN
    /\ Retention \in Nat
    /\ Retention > TimeoutMax + ChallengeInterval + MaxQueueAge
    /\ MaxClock \in Nat /\ MaxNonce \in Nat /\ MaxEpoch \in Nat /\ MaxSeq \in Nat

VARIABLES
    clock,           \* time.monotonic
    \* --- guarded by the engine's lock ---
    connected, leases, lastChallenge, lastHeartbeat, lastEchoIssued, network,
    epoch, lastEpoch, seq,
    holds,           \* keys and buttons together
    blocked,
    \* --- the queue has a lock of its own ---
    queue,
    \* --- control of the two threads ---
    pc,              \* the worker: "tick", "pop", "apply", "fail" or "stopped"
    popped,          \* the event the worker took from the queue
    overloaded,      \* the network thread is between a failed put and its reset
    lifecycle,       \* of stop(): "running", "joining" or "stopped"
    \* --- the operating system and the peers ---
    down, faulty,
    nonces,          \* challenges issued: they are numbered, nonce 0 never is
    epochs,          \* epochs for which a peer has sent ACTIVATE
    \* --- history, for the properties ---
    told,            \* the epoch the emitted messages announce, 0 for none
    proof,           \* issue time of the challenge that last renewed control
    renewed,         \* challenges whose heartbeat renewed the current epoch
    crossed          \* a reset happened since the worker popped its event

timing == <<leases, lastChallenge, nonces>>
route == <<lastEchoIssued, network>>
os == <<holds, down, blocked>>
control == <<epoch, lastEpoch, seq, lastHeartbeat, proof, renewed>>
vars == <<clock, connected, timing, route, control, os, faulty, queue, pc, popped,
          overloaded, lifecycle, epochs, told, crossed>>

-------------------------------------------------------------------------------

Never == -1 - ChallengeInterval  \* -1e9: before any challenge
NotIssued == -1                  \* the nonce is not in the table of leases
Nonces == 0 .. MaxNonce
NoEvent == [op |-> "NONE", epoch |-> 0, seq |-> 0, lease |-> 0,
            item |-> NoItem, down |-> FALSE, move |-> 0]

Input(op) == CASE op = "KEY" -> Keys [] op = "BUTTON" -> Buttons [] OTHER -> {NoItem}

\* The frames a peer can send, of any age and in any order: an ACTIVATE names a
\* fresh random epoch, any other frame one that was activated (a measuring frame
\* names 0 while its controller is paused), and a lease is a challenge that was
\* issued on this or an earlier connection.  A controller numbers all its frames;
\* here they are numbered from its ACTIVATE, whose number is 0.
Frames ==
    {f \in [op : Ops, epoch : 0 .. epochs + 1, seq : 0 .. MaxSeq, lease : 1 .. nonces,
            item : Inputs \cup {NoItem}, down : BOOLEAN, move : {0, 1}] :
        /\ f.item \in Input(f.op)
        /\ f.down => f.op \in {"KEY", "BUTTON"}
        /\ f.move = 1 <=> f.op = "MOVE"
        /\ f.epoch = epochs + 1 <=> f.op = "ACTIVATE"
        /\ f.op = "ACTIVATE" => f.epoch <= MaxEpoch
        /\ f.seq = 0 <=> f.op = "ACTIVATE" \/ f.epoch = 0
        /\ f.epoch = 0 => f.op \in {"HEARTBEAT", "PROBE"}}

Message(type, value) == [type |-> type, value |-> value]
Silence == Message("none", 0)

\* What the controller knows after one more message.
Hearing(view, message) ==
    IF message.type = "activated" THEN message.value
    ELSE IF message.type = "paused" /\ message.value = view THEN 0
    ELSE view

\* A step emits at most two messages, in this order.
Emit(first, second) == told' = Hearing(Hearing(told, first), second)

PausedNow == IF epoch # 0 THEN Message("paused", epoch) ELSE Silence

-------------------------------------------------------------------------------

\* The sets of inputs whose release may fail, of those to release.
Failing(inputs) == IF faulty THEN SUBSET inputs ELSE {{}}

ReleaseAll_QueueKept(failed) ==
    /\ UNCHANGED queue
    /\ holds' = failed
    /\ down' = down \ (holds \ failed)
    /\ blocked' = (blocked \/ failed # {})

ReleaseAll_NotBlocked(failed) ==
    /\ queue' = EmptyQueue
    /\ holds' = failed
    /\ down' = down \ (holds \ failed)
    /\ UNCHANGED blocked

\* reset() without the change of epoch: a release that fails keeps its input in
\* the table for the next tick and blocks further input for good.
ReleaseAll(failed) ==
    /\ queue' = EmptyQueue
    /\ holds' = failed
    /\ down' = down \ (holds \ failed)
    /\ blocked' = (blocked \/ failed # {})

Reset_EpochKept(failed) ==
    /\ ReleaseAll(failed)
    /\ renewed' = {}
    /\ UNCHANGED <<epoch, lastEpoch, lastHeartbeat, proof>>

Reset(failed) ==
    /\ ReleaseAll(failed)
    /\ epoch' = 0
    /\ renewed' = {}
    /\ UNCHANGED <<lastEpoch, lastHeartbeat, proof>>

-------------------------------------------------------------------------------
\* The network thread.  It runs while not overloaded; frames and peer changes
\* reach it while connected.

NetworkReset_Silent(failed) ==
    /\ Reset(failed)
    /\ Emit(Silence, Silence)
    /\ crossed' = (pc = "apply")
    /\ UNCHANGED <<clock, seq, faulty, pc, popped, epochs>>

NetworkReset(failed) ==
    /\ Reset(failed)
    /\ Emit(Silence, PausedNow)
    /\ crossed' = (pc = "apply")
    /\ UNCHANGED <<clock, seq, faulty, pc, popped, epochs>>

\* A RESET frame; Target.rotate makes the same call before it changes the password.
ReceiveReset ==
    /\ connected /\ ~overloaded
    /\ \E failed \in Failing(holds) : NetworkReset(failed)
    /\ UNCHANGED <<connected, timing, route, overloaded, lifecycle>>

ReceiveFrame ==
    /\ connected /\ ~overloaded
    /\ \E f \in Frames :
        /\ queue' = Put(queue, f, clock)
        /\ epochs' = IF f.op = "ACTIVATE" THEN f.epoch ELSE epochs
    /\ overloaded' = queue'.failed
    /\ Emit(Silence, Silence)
    /\ UNCHANGED <<clock, connected, timing, route, control, os, faulty, pc, popped,
                   lifecycle, crossed>>

OverloadReset ==
    /\ overloaded
    /\ \E failed \in Failing(holds) : NetworkReset(failed)
    /\ overloaded' = FALSE
    /\ UNCHANGED <<connected, timing, route, lifecycle>>

SetConnected(value) ==
    /\ ~overloaded /\ lifecycle = "running"
    /\ value => ~connected
    /\ connected' = value
    /\ leases' = [n \in Nonces |-> NotIssued]
    /\ lastChallenge' = Never
    /\ lastEchoIssued' = Never
    /\ network' = FreshNetwork
    /\ \E failed \in Failing(holds) : NetworkReset(failed)
    /\ UNCHANGED <<nonces, overloaded, lifecycle>>

PeerChanged ==
    /\ connected /\ ~overloaded
    /\ \E failed \in Failing(holds) : NetworkReset(failed)
    /\ network' = FreshNetwork
    /\ lastEchoIssued' = Never
    /\ lastChallenge' = Never
    /\ UNCHANGED <<connected, leases, nonces, overloaded, lifecycle>>

\* stop() is called after the connection's set_connected(False).
Stop ==
    /\ ~connected /\ ~overloaded /\ lifecycle = "running"
    /\ lifecycle' = "joining"
    /\ Emit(Silence, Silence)
    /\ UNCHANGED <<clock, connected, timing, route, control, os, faulty, queue, pc,
                   popped, overloaded, epochs, crossed>>

\* The reset that ends stop(): the join before it has a timeout, so the worker
\* may still be running.
StopReset ==
    /\ lifecycle = "joining"
    /\ \E failed \in Failing(holds) : NetworkReset(failed)
    /\ lifecycle' = "stopped"
    /\ UNCHANGED <<connected, timing, route, overloaded>>

-------------------------------------------------------------------------------
\* The worker thread: tick, then process_one, until the stop event.

HeartbeatExpired_Retention == epoch # 0 /\ clock - lastHeartbeat >= Retention
HeartbeatExpired == epoch # 0 /\ clock - lastHeartbeat >= Timeout(network)

Pruned == [n \in Nonces |->
            IF leases[n] # NotIssued /\ clock - leases[n] < Retention
            THEN leases[n] ELSE NotIssued]

\* Bound: no challenge after MaxNonce of them.
ChallengeDue ==
    /\ connected /\ clock - lastChallenge >= ChallengeInterval
    /\ nonces < MaxNonce

ChallengeNow == IF ChallengeDue THEN Message("challenge", nonces + 1) ELSE Silence

IssueChallenge ==
    /\ leases' = IF ChallengeDue THEN [Pruned EXCEPT ![nonces + 1] = clock] ELSE Pruned
    /\ lastChallenge' = IF ChallengeDue THEN clock ELSE lastChallenge
    /\ nonces' = IF ChallengeDue THEN nonces + 1 ELSE nonces

\* The controller went silent, or the injection permission was lost.  The holds
\* that the first reset leaves are retried at once by the last lines of tick.
TickPauses ==
    /\ epoch # 0
    /\ \E permitted \in BOOLEAN : HeartbeatExpired \/ ~permitted
    /\ \E failed \in Failing(holds) : \E rest \in Failing(failed) :
        /\ queue' = EmptyQueue
        /\ holds' = rest
        /\ down' = down \ (holds \ rest)
        /\ blocked' = (blocked \/ failed # {})
    /\ epoch' = 0
    /\ renewed' = {}
    /\ UNCHANGED <<lastEpoch, lastHeartbeat, proof>>
    /\ Emit(ChallengeNow, PausedNow)

TickRetries_UnlessBlocked ==
    /\ epoch = 0 /\ holds # {} /\ ~blocked
    /\ \E failed \in Failing(holds) : Reset(failed)
    /\ Emit(ChallengeNow, Silence)

TickRetries ==
    /\ epoch = 0 /\ holds # {}
    /\ \E failed \in Failing(holds) : Reset(failed)
    /\ Emit(ChallengeNow, Silence)

TickIdles ==
    /\ epoch # 0 => ~HeartbeatExpired
    /\ epoch = 0 => holds = {}
    /\ UNCHANGED <<os, queue, epoch, lastEpoch, lastHeartbeat, proof, renewed>>
    /\ Emit(ChallengeNow, Silence)

Tick ==
    /\ pc = "tick" /\ lifecycle = "running"
    /\ IssueChallenge
    /\ TickPauses \/ TickRetries \/ TickIdles
    /\ pc' = "pop"
    /\ UNCHANGED <<clock, connected, route, seq, faulty, popped, overloaded, lifecycle,
                   epochs, crossed>>

\* The finally clause of _run.
Exit ==
    /\ pc = "tick" /\ lifecycle # "running"
    /\ \E failed \in Failing(holds) : Reset(failed)
    /\ Emit(Silence, PausedNow)
    /\ pc' = "stopped"
    /\ UNCHANGED <<clock, connected, timing, route, seq, faulty, popped, overloaded,
                   lifecycle, epochs, crossed>>

\* The first lines of process_one, before the engine's lock.
Pop ==
    /\ pc = "pop"
    /\ IF PopFails(queue, clock)
       THEN queue' = FailedQueue /\ pc' = "fail" /\ UNCHANGED popped
       ELSE IF queue.items = <<>>
            THEN pc' = "tick" /\ UNCHANGED <<queue, popped>>
            ELSE /\ queue' = Popped(queue)
                 /\ popped' = Head(queue.items).event
                 /\ pc' = "apply"
    /\ crossed' = FALSE
    /\ Emit(Silence, Silence)
    /\ UNCHANGED <<clock, connected, timing, route, control, os, faulty, overloaded,
                   lifecycle, epochs>>

Fail_NoReset ==
    /\ pc = "fail"
    /\ pc' = "tick"
    /\ Emit(Silence, Silence)
    /\ UNCHANGED <<clock, connected, timing, route, control, os, faulty, queue, popped,
                   overloaded, lifecycle, epochs, crossed>>

\* The except clause of process_one, after the lock was released.
Fail ==
    /\ pc = "fail"
    /\ \E failed \in Failing(holds) : Reset(failed)
    /\ Emit(Silence, PausedNow)
    /\ pc' = "tick"
    /\ UNCHANGED <<clock, connected, timing, route, seq, faulty, popped, overloaded,
                   lifecycle, epochs, crossed>>

-------------------------------------------------------------------------------
\* process_one under the lock, one operator for each way through it.

\* A late frame of the paused mode, or an old or duplicate one, is ignored.
Superseded(event) ==
    /\ event.op # "ACTIVATE"
    /\ IF event.op \in {"HEARTBEAT", "PROBE"} /\ event.epoch = 0
       THEN epoch # 0
       ELSE event.epoch # epoch \/ epoch = 0 \/ event.seq <= seq

Limit(event) ==
    IF event.op # "HEARTBEAT" THEN InputTimeout(network)
    ELSE IF epoch = 0 THEN TimeoutMax ELSE Timeout(network)

ValidLease(nonce, limit) == leases[nonce] # NotIssued /\ clock - leases[nonce] < limit

Ignored_UnlessBlocked(event) == ~connected \/ Superseded(event)
Ignored(event) == blocked \/ ~connected \/ Superseded(event)
Valid(event) == ~Ignored(event) /\ ValidLease(event.lease, Limit(event))

KeepState == UNCHANGED <<control, os, queue, route>>

Ignore(event) ==
    /\ Ignored(event)
    /\ KeepState
    /\ Emit(Silence, Silence)

RejectStale(event) ==
    /\ ~Ignored(event) /\ ~ValidLease(event.lease, Limit(event))
    /\ \E failed \in Failing(holds) : Reset(failed)
    /\ Emit(PausedNow, IF event.op = "ACTIVATE" THEN Message("paused", event.epoch)
                                                ELSE Silence)
    /\ UNCHANGED <<seq, route>>

RefuseActivation(event) ==
    /\ event.op = "ACTIVATE" /\ Valid(event)
    /\ \E permitted \in BOOLEAN :
        event.epoch = 0 \/ event.epoch = lastEpoch \/ ~permitted
    /\ KeepState
    /\ Emit(Silence, Message("paused", event.epoch))

\* The old activation's inputs are released first, but whether that worked is
\* not looked at.
Activate(event) ==
    /\ event.op = "ACTIVATE" /\ Valid(event)
    /\ event.epoch # 0 /\ event.epoch # lastEpoch
    /\ \E failed \in Failing(holds) : ReleaseAll(failed)
    /\ epoch' = event.epoch
    /\ lastEpoch' = event.epoch
    /\ seq' = event.seq
    /\ lastHeartbeat' = clock
    /\ proof' = leases[event.lease]
    /\ renewed' = {}
    /\ Emit(PausedNow, Message("activated", event.epoch))
    /\ UNCHANGED route

ObserveHeartbeat_SameChallenge(event) ==
    LET issued == leases[event.lease]
        counts == issued >= lastEchoIssued
    IN  /\ lastEchoIssued' = IF counts THEN issued ELSE lastEchoIssued
        /\ network' = IF counts THEN Observe(network, clock - issued) ELSE network
        /\ lastHeartbeat' = IF counts /\ epoch # 0 THEN clock ELSE lastHeartbeat
        /\ proof' = IF counts /\ epoch # 0 THEN issued ELSE proof
        /\ renewed' = IF counts /\ epoch # 0 THEN renewed \cup {event.lease} ELSE renewed

\* observe_heartbeat: each challenge counts once, in increasing order.
ObserveHeartbeat(event) ==
    LET issued == leases[event.lease]
        counts == issued > lastEchoIssued
    IN  /\ lastEchoIssued' = IF counts THEN issued ELSE lastEchoIssued
        /\ network' = IF counts THEN Observe(network, clock - issued) ELSE network
        /\ lastHeartbeat' = IF counts /\ epoch # 0 THEN clock ELSE lastHeartbeat
        /\ proof' = IF counts /\ epoch # 0 THEN issued ELSE proof
        /\ renewed' = IF counts /\ epoch # 0 THEN renewed \cup {event.lease} ELSE renewed

\* Probes are acknowledged and heartbeats calibrate the route while paused.
MeasurePaused(event) ==
    /\ event.op \in {"PROBE", "HEARTBEAT"} /\ Valid(event) /\ epoch = 0
    /\ \/ /\ event.op = "PROBE"
          /\ Emit(Silence, Message("ack", event.epoch))
          /\ UNCHANGED <<route, lastHeartbeat, proof, renewed>>
       \/ /\ event.op = "HEARTBEAT"
          /\ ObserveHeartbeat(event)
          /\ Emit(Silence, Silence)
    /\ UNCHANGED <<epoch, lastEpoch, seq, os, queue>>

Current(event) == event.op # "ACTIVATE" /\ Valid(event) /\ epoch # 0

ExpireHold(event) ==
    /\ Current(event) /\ HeartbeatExpired
    /\ \E failed \in Failing(holds) : Reset(failed)
    /\ seq' = event.seq
    /\ Emit(Silence, PausedNow)
    /\ UNCHANGED route

RenewHold(event) ==
    /\ event.op = "HEARTBEAT" /\ Current(event) /\ ~HeartbeatExpired
    /\ ObserveHeartbeat(event)
    /\ seq' = event.seq
    /\ Emit(Silence, Silence)
    /\ UNCHANGED <<epoch, lastEpoch, os, queue>>

\* An input the worker now hands to the injector.
Due(event) == event.op # "HEARTBEAT" /\ Current(event) /\ ~HeartbeatExpired

Unsupported(event) == event.op = "KEY" /\ event.item \notin Supported

RefuseKey(event) ==
    /\ Due(event) /\ Unsupported(event)
    /\ \E failed \in Failing(holds) : Reset(failed)
    /\ seq' = event.seq
    /\ Emit(Silence, PausedNow)
    /\ UNCHANGED route

PressItem(item) == holds' = holds \cup {item} /\ down' = down \cup {item}
ReleaseItem(item) == holds' = holds \ {item} /\ down' = down \ {item}

Acknowledge(event) ==
    IF event.op = "PROBE" \/ event.seq % AckEvery = 0
    THEN Message("ack", event.epoch) ELSE Silence

Inject(event) ==
    /\ Due(event) /\ ~Unsupported(event)
    /\ IF event.down THEN PressItem(event.item)
       ELSE IF event.item \in holds THEN ReleaseItem(event.item)
       ELSE UNCHANGED <<holds, down>>
    /\ seq' = event.seq
    /\ Emit(Silence, Acknowledge(event))
    /\ UNCHANGED <<blocked, queue, epoch, lastEpoch, lastHeartbeat, proof, renewed, route>>

\* The same call took more than 100 ms.
InjectStalls(event) ==
    /\ Due(event) /\ ~Unsupported(event)
    /\ LET tracked == IF event.down THEN holds \cup {event.item} ELSE holds \ {event.item}
           pressed == IF event.down THEN down \cup {event.item} ELSE down \ {event.item}
       IN  \E failed \in Failing(tracked) :
             /\ holds' = failed
             /\ down' = pressed \ (tracked \ failed)
             /\ blocked' = (blocked \/ failed # {})
    /\ queue' = EmptyQueue
    /\ epoch' = 0
    /\ renewed' = {}
    /\ seq' = event.seq
    /\ Emit(PausedNow, Acknowledge(event))
    /\ UNCHANGED <<lastEpoch, lastHeartbeat, proof, route>>

\* A press is entered in the table before the call, a release removed after it.
TrackedDuring_PressAfterCall(event) == holds
TrackedDuring(event) == IF event.down THEN holds \cup {event.item} ELSE holds

\* The call raises, having pressed the input or not; Fail then resets.
InjectRaises(event) ==
    /\ Due(event) /\ ~Unsupported(event) /\ faulty
    /\ event.down \/ event.item \in holds \/ event.op \in {"MOVE", "SCROLL"}
    /\ holds' = TrackedDuring(event)
    /\ down' \in {down, IF event.down THEN down \cup {event.item} ELSE down}
    /\ seq' = event.seq
    /\ Emit(Silence, Silence)
    /\ UNCHANGED <<blocked, queue, epoch, lastEpoch, lastHeartbeat, proof, renewed, route>>

Completes(event) ==
    \/ Ignore(event) \/ RejectStale(event)
    \/ RefuseActivation(event) \/ Activate(event)
    \/ MeasurePaused(event)
    \/ ExpireHold(event) \/ RenewHold(event)
    \/ RefuseKey(event) \/ Inject(event) \/ InjectStalls(event)

Apply ==
    /\ pc = "apply"
    /\ \/ Completes(popped) /\ pc' = "tick"
       \/ InjectRaises(popped) /\ pc' = "fail"
    /\ popped' = NoEvent
    /\ crossed' = FALSE
    /\ UNCHANGED <<clock, connected, timing, faulty, overloaded, lifecycle, epochs>>

-------------------------------------------------------------------------------

Advance ==
    /\ clock < MaxClock
    /\ clock' = clock + 1
    /\ Emit(Silence, Silence)
    /\ UNCHANGED <<connected, timing, route, control, os, faulty, queue, pc, popped,
                   overloaded, lifecycle, epochs, crossed>>

\* The operating system stops refusing calls.
Recover ==
    /\ faulty /\ faulty' = FALSE
    /\ Emit(Silence, Silence)
    /\ UNCHANGED <<clock, connected, timing, route, control, os, queue, pc, popped,
                   overloaded, lifecycle, epochs, crossed>>

Init ==
    /\ clock = 0 /\ connected = FALSE
    /\ leases = [n \in Nonces |-> NotIssued]
    /\ lastChallenge = Never /\ nonces = 0
    /\ lastEchoIssued = Never /\ network = FreshNetwork
    /\ epoch = 0 /\ lastEpoch = 0 /\ seq = 0 /\ lastHeartbeat = 0
    /\ proof = 0 /\ renewed = {}
    /\ holds = {} /\ down = {} /\ blocked = FALSE /\ faulty \in {FALSE, MayFail}
    /\ queue = EmptyQueue /\ pc = "tick" /\ popped = NoEvent
    /\ overloaded = FALSE /\ lifecycle = "running" /\ epochs = 0
    /\ told = 0 /\ crossed = FALSE

Network ==
    \/ ReceiveReset \/ ReceiveFrame \/ OverloadReset \/ PeerChanged
    \/ SetConnected(TRUE) \/ SetConnected(FALSE)
    \/ Stop \/ StopReset

Worker == Tick \/ Pop \/ Apply \/ Fail \/ Exit

Next == Network \/ Worker \/ Advance \/ Recover

Spec == Init /\ [][Next]_vars

\* Both threads keep running; what peers, time and the user do is left open.
FairSpec == Spec /\ WF_vars(Worker) /\ WF_vars(OverloadReset)

-------------------------------------------------------------------------------
\* Properties.

Events ==
    {e \in [op : Ops \cup {"NONE"}, epoch : 0 .. MaxEpoch, seq : 0 .. MaxSeq,
            lease : Nonces, item : Inputs \cup {NoItem}, down : BOOLEAN, move : Int] :
        e.down => e.item \in Inputs}

Queues == [items : Seq([event : Events, entered : 0 .. MaxClock]), failed : BOOLEAN]

\* The type invariant: the values the engine's fields can have.
TypeOK ==
    /\ clock \in 0 .. MaxClock
    /\ connected \in BOOLEAN
    /\ leases \in [Nonces -> {NotIssued} \cup (0 .. MaxClock)]
    /\ lastChallenge \in {Never} \cup (0 .. MaxClock)
    /\ lastEchoIssued \in {Never} \cup (0 .. MaxClock)
    /\ lastHeartbeat \in 0 .. MaxClock
    /\ network \in Networks
    /\ epoch \in 0 .. MaxEpoch /\ lastEpoch \in 0 .. MaxEpoch /\ seq \in 0 .. MaxSeq
    /\ holds \subseteq Inputs /\ down \subseteq Inputs
    /\ blocked \in BOOLEAN /\ faulty \in BOOLEAN
    /\ queue \in Queues
    /\ pc \in {"tick", "pop", "apply", "fail", "stopped"}
    /\ popped \in Events
    /\ overloaded \in BOOLEAN
    /\ lifecycle \in {"running", "joining", "stopped"}
    /\ nonces \in 0 .. MaxNonce /\ epochs \in 0 .. MaxEpoch
    /\ told \in 0 .. MaxEpoch
    /\ proof \in 0 .. MaxClock
    /\ renewed \subseteq Nonces
    /\ crossed \in BOOLEAN

\* Whatever the system holds pressed is in the engine's table, so that reset can
\* release it, also when a press or a release raised half way ("It releases
\* tracked remote keys/buttons", DESIGN).
HoldsTracked == down \subseteq holds

\* Nothing stays pressed while the engine is paused, disconnected or stopped,
\* unless a release has failed and input is blocked.
PausedReleases ==
    (epoch = 0 \/ ~connected \/ pc = "stopped") /\ down # {} => blocked

\* The controller's view never disagrees with the engine: the messages emitted so
\* far announce exactly the epoch the engine is in, whichever thread ended it.
ToldEpoch == told = epoch

\* While the engine controls, a queue that failed, by a put or by age, is known to the
\* thread that will reset it: input is never dropped without a pause.
FailureIsNoticed == queue.failed /\ epoch # 0 => overloaded \/ pc = "fail"

\* No input is pressed on behalf of an event that the worker popped before a reset
\* by the network thread and applied after it.
NoPressAcrossReset == [][down' \subseteq down \/ ~crossed]_vars

\* A challenge renews the hold of an epoch at most once, whatever sequence
\* numbers its heartbeats carry.
RenewsOnce ==
    [][lastHeartbeat' > lastHeartbeat /\ epoch' = epoch /\ epoch # 0
        => popped.lease \notin renewed]_vars

\* Whoever presses an input, or is still in control after a tick, has echoed a
\* challenge that is not older than the two deadlines together: silence, replay
\* and queueing cannot hold an input for longer.
ProofLimit == TimeoutMax + TimeoutMax + ChallengeInterval + MaxQueueAge

ControlNeedsProof ==
    [][~(down' \subseteq down) \/ (pc = "tick" /\ pc' = "pop" /\ epoch' # 0)
        => clock - proof' < ProofLimit]_vars

\* Once a release has failed nothing is pressed again ("further input remains
\* blocked").
BlockedStaysReleased == [][blocked => down' \subseteq down]_vars

\* The epochs of the activations that wait in the queue or that the worker popped.
Activates(event) == event.op = "ACTIVATE"

Handling == pc = "apply" /\ Activates(popped)

Offered ==
    {queue.items[i].event.epoch :
        i \in {j \in 1 .. Len(queue.items) : Activates(queue.items[j].event)}}
    \cup (IF Handling THEN {popped.epoch} ELSE {})

\* The engine keeps the promises of ControlSession in what its messages announce: an
\* epoch begins at most once and in order, whether a reset, an overload or a refusal
\* comes between the arrival of an activation, its pop and its handling.
Session == INSTANCE ControlSession
           WITH Epochs <- 1 .. MaxEpoch, session <- told, offered <- Offered,
                newest <- lastEpoch

ImplementsSession == Session!Spec

\* A release that failed is tried until it succeeds, unless control resumes.
RetryReleases ==
    (~faulty /\ epoch = 0 /\ holds # {} /\ lifecycle = "running")
        ~> (holds = {} \/ epoch # 0 \/ lifecycle # "running")

\* A queue overload pauses the engine: it does not drop input and stay in control.
OverloadPauses == queue.failed ~> epoch = 0
===============================================================================
