-------------------------- MODULE TargetEngineProofs --------------------------
(***************************************************************************)
(* Proofs about the target's engine, for every number of keys, challenges, *)
(* activations and ticks.                                                  *)
(***************************************************************************)
EXTENDS TargetEngine, NetworkTimingLemmas, SequenceTheorems, TLAPS

Items == [event : Events, entered : 0 .. MaxClock]

-------------------------------------------------------------------------------
\* Types.

LEMMA LimitsInNat ==
    /\ TimeoutMin \in Nat /\ TimeoutMax \in Nat /\ TimeoutMin <= TimeoutMax
    /\ ChallengeInterval \in Nat /\ MaxQueueAge \in Nat /\ QueueLimit \in Nat
    /\ MaxClock \in Nat /\ MaxNonce \in Nat /\ MaxEpoch \in Nat /\ MaxSeq \in Nat
    /\ MaxMove \in Nat /\ Retention \in Nat /\ NoItem \notin Inputs
  BY ConfigAssumption, MoveAssumption, EngineAssumption
     DEF ConfigAssumption, MoveAssumption, EngineAssumption

LEMMA FramesType ==
    ASSUME nonces \in 0 .. MaxNonce, epochs \in 0 .. MaxEpoch, NEW f \in Frames
    PROVE  /\ f \in Events
           /\ f.op = "ACTIVATE" => f.epoch = epochs + 1
  BY LimitsInNat DEF Frames, Events, Nonces, Input, Inputs

\* The empty and the failed queue, and every result of a put or a pop.
LEMMA EmptyQueueType == EmptyQueue \in Queues /\ FailedQueue \in Queues
  BY DEF EmptyQueue, FailedQueue, Queues

\* A move with another distance is an event, an item with another event an item.
LEMMA MergedType ==
    ASSUME NEW e \in Events, NEW distance \in Int
    PROVE  [e EXCEPT !.move = distance] \in Events
  BY DEF Events

LEMMA PutType ==
    ASSUME NEW q \in Queues, NEW e \in Events, NEW now \in 0 .. MaxClock
    PROVE  Put(q, e, now) \in Queues
<1>1. q.items \in Seq(Items) /\ q.failed \in BOOLEAN
  BY DEF Queues, Items
<1>2. CASE Adjacent(q, e)
  <2> DEFINE n == Len(q.items)
             last == q.items[n]
             items == [q.items EXCEPT ![n] = Coalesced(q, e, now)]
  <2>1. n \in 1 .. Len(q.items) /\ last \in Items
    BY <1>1, <1>2 DEF Adjacent
  <2>2. last.event.move + e.move \in Int
    BY <2>1 DEF Items, Events
  <2>3. Merged(q, e) \in Events
    BY <2>2, MergedType DEF Merged, LastItem
  <2>4. Coalesced(q, e, now) \in Items
    BY <2>1, <2>3 DEF Coalesced, Arrival, LastItem, Items
  <2>5. items \in Seq(Items)
    BY <1>1, <2>1, <2>4
  <2>6. [q EXCEPT !.items[Len(q.items)] = Coalesced(q, e, now)] \in Queues
    BY <2>5 DEF Queues, Items
  <2> QED BY <1>2, <2>6, EmptyQueueType DEF Put
<1>3. CASE ~Adjacent(q, e)
  <2>1. [event |-> e, entered |-> now] \in Items
    BY DEF Items
  <2>2. Append(q.items, [event |-> e, entered |-> now]) \in Seq(Items)
    BY <1>1, <2>1
  <2>3. [q EXCEPT !.items = Append(@, [event |-> e, entered |-> now])] \in Queues
    BY <2>2 DEF Queues, Items
  <2> QED BY <1>3, <2>3, EmptyQueueType DEF Put, Overflowed
<1> QED BY <1>2, <1>3

LEMMA PopType ==
    ASSUME NEW q \in Queues, q.items # <<>>
    PROVE  Popped(q) \in Queues /\ Head(q.items).event \in Events
<1>1. q.items \in Seq(Items)
  BY DEF Queues, Items
<1>2. Head(q.items) \in Items /\ Tail(q.items) \in Seq(Items)
  BY <1>1
<1>3. Popped(q) \in Queues
  BY <1>2 DEF Queues, Items, Popped
<1> QED BY <1>2, <1>3 DEF Items

-------------------------------------------------------------------------------
\* What the controller has been told after a step.

ToldAfterPause == IF told = epoch THEN 0 ELSE told

\* Challenges and acknowledgements do not change the view.
LEMMA HearingCases ==
    ASSUME NEW v, NEW x
    PROVE  /\ Hearing(v, Silence) = v
           /\ Hearing(v, Message("challenge", x)) = v
           /\ Hearing(v, Message("ack", x)) = v
           /\ Hearing(v, Message("activated", x)) = x
           /\ Hearing(v, Message("paused", x)) = IF x = v THEN 0 ELSE v
  BY DEF Hearing, Message, Silence

LEMMA HearingPaused == Hearing(told, PausedNow) = ToldAfterPause
  BY HearingCases DEF PausedNow, ToldAfterPause

LEMMA HearingSilent ==
    ASSUME NEW v, NEW e
    PROVE  Hearing(v, ChallengeNow) = v /\ Hearing(v, Acknowledge(e)) = v
  BY HearingCases DEF ChallengeNow, Acknowledge

\* The effect of every combination of messages a step emits.
LEMMA EmitCases ==
    ASSUME NEW e, NEW x
    PROVE  /\ Emit(Silence, Silence) => told' = told
           /\ Emit(Silence, PausedNow) => told' = ToldAfterPause
           /\ Emit(PausedNow, Silence) => told' = ToldAfterPause
           /\ Emit(ChallengeNow, Silence) => told' = told
           /\ Emit(ChallengeNow, PausedNow) => told' = ToldAfterPause
           /\ Emit(Silence, Acknowledge(e)) => told' = told
           /\ Emit(Silence, Message("ack", x)) => told' = told
           /\ Emit(PausedNow, Acknowledge(e)) => told' = ToldAfterPause
           /\ Emit(PausedNow, Message("activated", x)) => told' = x
           /\ Emit(Silence, Message("paused", x)) =>
                told' = IF x = told THEN 0 ELSE told
           /\ Emit(PausedNow, Message("paused", x)) =>
                told' = IF x = ToldAfterPause THEN 0 ELSE ToldAfterPause
  BY HearingCases, HearingPaused, HearingSilent DEF Emit

-------------------------------------------------------------------------------
\* The type invariant.

LEMMA ReleaseAllType ==
    ASSUME TypeOK, NEW failed \in Failing(holds), ReleaseAll(failed)
    PROVE  queue' \in Queues /\ holds' \subseteq Inputs /\ down' \subseteq Inputs
           /\ blocked' \in BOOLEAN /\ failed \subseteq holds
  BY EmptyQueueType DEF ReleaseAll, TypeOK, Failing

LEMMA NetworkResetType ==
    ASSUME TypeOK, NEW failed \in Failing(holds), NetworkReset(failed),
           connected' \in BOOLEAN, leases' \in [Nonces -> {NotIssued} \cup (0 .. MaxClock)],
           lastChallenge' \in {Never} \cup (0 .. MaxClock),
           lastEchoIssued' \in {Never} \cup (0 .. MaxClock), network' \in Networks,
           overloaded' \in BOOLEAN, lifecycle' \in {"running", "joining", "stopped"},
           nonces' = nonces
    PROVE  TypeOK'
<1>1. queue' \in Queues /\ holds' \subseteq Inputs /\ down' \subseteq Inputs
      /\ blocked' \in BOOLEAN
  BY ReleaseAllType DEF NetworkReset, Reset
<1>2. told' \in 0 .. MaxEpoch
  BY EmitCases, LimitsInNat DEF NetworkReset, TypeOK, ToldAfterPause
<1> QED BY <1>1, <1>2, LimitsInNat DEF NetworkReset, Reset, TypeOK

LEMMA FreshTypes ==
    /\ FreshNetwork \in Networks
    /\ [n \in Nonces |-> NotIssued] \in [Nonces -> {NotIssued} \cup (0 .. MaxClock)]
  BY LimitsInNat DEF FreshNetwork, Networks

LEMMA NetworkKeepsType == TypeOK /\ Network => TypeOK'
<1> SUFFICES ASSUME TypeOK, Network PROVE TypeOK'
  OBVIOUS
<1>1. CASE ReceiveReset
  BY <1>1, NetworkResetType DEF ReceiveReset, TypeOK, timing, route
<1>2. CASE ReceiveFrame
  <2>1. queue' \in Queues /\ epochs' \in 0 .. MaxEpoch
    BY <1>2, FramesType, PutType, LimitsInNat DEF ReceiveFrame, TypeOK, Events
  <2>2. overloaded' \in BOOLEAN
    BY <1>2, <2>1 DEF ReceiveFrame, Queues
  <2>3. told' = told
    BY <1>2, EmitCases DEF ReceiveFrame
  <2> QED BY <1>2, <2>1, <2>2, <2>3 DEF ReceiveFrame, TypeOK, timing, route, control, os
<1>3. CASE OverloadReset
  BY <1>3, NetworkResetType DEF OverloadReset, TypeOK, timing, route
<1>4. CASE PeerChanged
  BY <1>4, NetworkResetType, FreshTypes DEF PeerChanged, TypeOK
<1>5. ASSUME NEW value \in BOOLEAN, SetConnected(value) PROVE TypeOK'
  BY <1>5, NetworkResetType, FreshTypes DEF SetConnected, TypeOK
<1>6. CASE Stop
  BY <1>6, EmitCases DEF Stop, TypeOK, timing, route, control, os
<1>7. CASE StopReset
  BY <1>7, NetworkResetType DEF StopReset, TypeOK, timing, route
<1> QED BY <1>1, <1>2, <1>3, <1>4, <1>5, <1>6, <1>7 DEF Network

\* The fields that process_one changes under the lock.
AppliedType ==
    /\ lastEchoIssued' \in {Never} \cup (0 .. MaxClock) /\ network' \in Networks
    /\ epoch' \in 0 .. MaxEpoch /\ lastEpoch' \in 0 .. MaxEpoch /\ seq' \in 0 .. MaxSeq
    /\ lastHeartbeat' \in 0 .. MaxClock
    /\ proof' \in 0 .. MaxClock /\ renewed' \subseteq Nonces
    /\ holds' \subseteq Inputs /\ down' \subseteq Inputs /\ blocked' \in BOOLEAN
    /\ queue' \in Queues /\ told' \in 0 .. MaxEpoch

LEMMA ResetType ==
    ASSUME TypeOK, NEW failed \in Failing(holds), Reset(failed)
    PROVE  /\ queue' \in Queues /\ holds' \subseteq Inputs /\ down' \subseteq Inputs
           /\ blocked' \in BOOLEAN /\ epoch' = 0 /\ renewed' = {}
           /\ UNCHANGED <<lastEpoch, lastHeartbeat, proof>>
  BY ReleaseAllType DEF Reset

LEMMA LeaseType ==
    ASSUME TypeOK, NEW n \in Nonces, leases[n] # NotIssued
    PROVE  leases[n] \in 0 .. MaxClock
  BY DEF TypeOK

LEMMA ObserveHeartbeatType ==
    ASSUME TypeOK, NEW event \in Events, leases[event.lease] # NotIssued,
           ObserveHeartbeat(event)
    PROVE  /\ lastEchoIssued' \in {Never} \cup (0 .. MaxClock) /\ network' \in Networks
           /\ lastHeartbeat' \in 0 .. MaxClock
           /\ proof' \in 0 .. MaxClock /\ renewed' \subseteq Nonces
<1>1. event.lease \in Nonces
  BY DEF Events
<1>2. leases[event.lease] \in 0 .. MaxClock
  BY <1>1, LeaseType
<1>3. network' \in Networks
  <2>1. CASE clock - leases[event.lease] \in Nat
    BY <1>2, <2>1, ObserveType DEF ObserveHeartbeat, TypeOK
  <2>2. CASE clock - leases[event.lease] \notin Nat
    <3>1. ~(0 <= clock - leases[event.lease])
      BY <1>2, <2>2, LimitsInNat DEF TypeOK
    <3> QED BY <3>1 DEF ObserveHeartbeat, TypeOK, Observe
  <2> QED BY <2>1, <2>2
<1> QED BY <1>1, <1>2, <1>3 DEF ObserveHeartbeat, TypeOK

LEMMA CompletesType ==
    ASSUME TypeOK, NEW event \in Events, Completes(event)
    PROVE  AppliedType
<1> USE LimitsInNat
<1>1. event.lease \in Nonces /\ event.epoch \in 0 .. MaxEpoch /\ event.seq \in 0 .. MaxSeq
      /\ event.item \in Inputs \cup {NoItem}
  BY DEF Events
<1>2. ToldAfterPause \in 0 .. MaxEpoch
  BY DEF ToldAfterPause, TypeOK
<1>3. CASE Ignore(event)
  BY <1>3, EmitCases DEF Ignore, KeepState, AppliedType, TypeOK, control, os, route
<1>4. CASE RejectStale(event)
  <2>1. told' \in 0 .. MaxEpoch
    BY <1>2, <1>4, EmitCases DEF RejectStale
  <2> QED BY <1>4, <2>1, ResetType DEF RejectStale, AppliedType, TypeOK, route
<1>5. CASE RefuseActivation(event)
  <2>1. Emit(Silence, Message("paused", event.epoch))
    BY <1>5 DEF RefuseActivation
  <2>2. told' = told \/ told' = 0
    BY <2>1, EmitCases
  <2> QED BY <1>5, <2>2 DEF RefuseActivation, KeepState, AppliedType, TypeOK,
                            control, os, route
<1>6. CASE Activate(event)
  <2>1. leases[event.lease] \in 0 .. MaxClock
    BY <1>1, <1>6, LeaseType DEF Activate, Valid, ValidLease
  <2>2. told' = event.epoch
    BY <1>6, EmitCases DEF Activate
  <2>3. queue' \in Queues /\ holds' \subseteq Inputs /\ down' \subseteq Inputs
        /\ blocked' \in BOOLEAN
    BY <1>6, ReleaseAllType DEF Activate
  <2> QED BY <1>1, <1>6, <2>1, <2>2, <2>3 DEF Activate, AppliedType, TypeOK, route
<1>7. CASE MeasurePaused(event)
  <2>1. leases[event.lease] # NotIssued
    BY <1>7 DEF MeasurePaused, Valid, ValidLease
  <2> QED BY <1>7, <2>1, ObserveHeartbeatType, EmitCases
             DEF MeasurePaused, AppliedType, TypeOK, route, os
<1>8. CASE ExpireHold(event) \/ RefuseKey(event)
  BY <1>1, <1>2, <1>8, ResetType, EmitCases
     DEF ExpireHold, RefuseKey, AppliedType, TypeOK, route
<1>9. CASE RenewHold(event)
  <2>1. leases[event.lease] # NotIssued
    BY <1>9 DEF RenewHold, Current, Valid, ValidLease
  <2> QED BY <1>1, <1>9, <2>1, ObserveHeartbeatType, EmitCases
             DEF RenewHold, AppliedType, TypeOK, os
<1>10. CASE Inject(event) \/ InjectStalls(event)
  <2>1. event.down => event.item \in Inputs
    BY DEF Events
  <2>2. CASE Inject(event)
    BY <1>1, <2>1, <2>2, EmitCases
       DEF Inject, PressItem, ReleaseItem, AppliedType, TypeOK, route
  <2>3. CASE InjectStalls(event)
    BY <1>1, <1>2, <2>1, <2>3, EmitCases, EmptyQueueType
       DEF InjectStalls, Failing, AppliedType, TypeOK, route
  <2> QED BY <1>10, <2>2, <2>3
<1> QED BY <1>3, <1>4, <1>5, <1>6, <1>7, <1>8, <1>9, <1>10 DEF Completes

LEMMA InjectRaisesType ==
    ASSUME TypeOK, NEW event \in Events, InjectRaises(event)
    PROVE  AppliedType
<1>1. event.seq \in 0 .. MaxSeq /\ (event.down => event.item \in Inputs)
  BY DEF Events
<1>2. told' = told
  BY EmitCases DEF InjectRaises
<1> QED BY <1>1, <1>2 DEF InjectRaises, TrackedDuring, AppliedType, TypeOK, route

LEMMA TickType == TypeOK /\ Tick => TypeOK'
<1> SUFFICES ASSUME TypeOK, Tick PROVE TypeOK'
  OBVIOUS
<1> USE LimitsInNat
<1>1. /\ leases' \in [Nonces -> {NotIssued} \cup (0 .. MaxClock)]
      /\ lastChallenge' \in {Never} \cup (0 .. MaxClock) /\ nonces' \in 0 .. MaxNonce
  <2>1. Pruned \in [Nonces -> {NotIssued} \cup (0 .. MaxClock)]
    BY DEF Pruned, TypeOK
  <2>2. CASE ChallengeDue
    <3>1. nonces + 1 \in 0 .. MaxNonce
      BY <2>2 DEF ChallengeDue, TypeOK
    <3> QED BY <2>1, <2>2, <3>1 DEF Tick, IssueChallenge, TypeOK
  <2>3. CASE ~ChallengeDue
    BY <2>1, <2>3 DEF Tick, IssueChallenge, TypeOK
  <2> QED BY <2>2, <2>3
<1>2. CASE TickPauses
  <2>1. told' \in 0 .. MaxEpoch
    BY <1>2, EmitCases DEF TickPauses, ToldAfterPause, TypeOK
  <2>2. queue' \in Queues /\ holds' \subseteq Inputs /\ down' \subseteq Inputs
        /\ blocked' \in BOOLEAN
    BY <1>2, EmptyQueueType DEF TickPauses, Failing, TypeOK
  <2> QED BY <1>1, <1>2, <2>1, <2>2 DEF Tick, TickPauses, TypeOK, route
<1>3. CASE TickRetries
  BY <1>1, <1>3, ResetType, EmitCases DEF Tick, TickRetries, TypeOK, route
<1>4. CASE TickIdles
  BY <1>1, <1>4, EmitCases DEF Tick, TickIdles, TypeOK, route, os
<1> QED BY <1>2, <1>3, <1>4 DEF Tick

LEMMA WorkerKeepsType == TypeOK /\ Worker => TypeOK'
<1> SUFFICES ASSUME TypeOK, Worker PROVE TypeOK'
  OBVIOUS
<1> USE LimitsInNat
<1>1. CASE Tick
  BY <1>1, TickType
<1>2. CASE Pop
  <2>1. told' = told
    BY <1>2, EmitCases DEF Pop
  <2>2. queue' \in Queues /\ popped' \in Events /\ pc' \in {"tick", "fail", "apply"}
    BY <1>2, PopType, EmptyQueueType DEF Pop, TypeOK
  <2> QED BY <1>2, <2>1, <2>2 DEF Pop, TypeOK, timing, route, control, os
<1>3. CASE Apply
  <2>1. AppliedType
    BY <1>3, CompletesType, InjectRaisesType DEF Apply, TypeOK
  <2>2. popped' \in Events
    BY <1>3 DEF Apply, NoEvent, Events, Nonces
  <2> QED BY <1>3, <2>1, <2>2 DEF Apply, AppliedType, TypeOK, timing
<1>4. CASE Fail \/ Exit
  <2>1. told' \in 0 .. MaxEpoch
    BY <1>4, EmitCases DEF Fail, Exit, ToldAfterPause, TypeOK
  <2> QED BY <1>4, <2>1, ResetType DEF Fail, Exit, TypeOK, timing, route
<1> QED BY <1>1, <1>2, <1>3, <1>4 DEF Worker

\* The fields of the engine, of its threads and of the history keep their types.
THEOREM EngineTypeCorrect == Spec => []TypeOK
<1> USE LimitsInNat
<1>1. Init => TypeOK
  <2> SUFFICES ASSUME Init PROVE TypeOK
    OBVIOUS
  <2>1. NoEvent \in Events
    BY DEF NoEvent, Events, Nonces
  <2>2. faulty \in BOOLEAN
    BY EngineAssumption DEF Init, EngineAssumption
  <2>3. network \in Networks /\ queue \in Queues
    BY FreshTypes, EmptyQueueType DEF Init
  <2>4. leases \in [Nonces -> {NotIssued} \cup (0 .. MaxClock)]
    BY FreshTypes DEF Init
  <2>5. /\ lastChallenge \in {Never} \cup (0 .. MaxClock)
        /\ lastEchoIssued \in {Never} \cup (0 .. MaxClock)
    BY DEF Init
  <2>6. /\ clock \in 0 .. MaxClock /\ lastHeartbeat \in 0 .. MaxClock
        /\ proof \in 0 .. MaxClock /\ nonces \in 0 .. MaxNonce
        /\ epoch \in 0 .. MaxEpoch /\ lastEpoch \in 0 .. MaxEpoch
        /\ epochs \in 0 .. MaxEpoch /\ told \in 0 .. MaxEpoch /\ seq \in 0 .. MaxSeq
    BY DEF Init
  <2>7. /\ connected \in BOOLEAN /\ blocked \in BOOLEAN /\ overloaded \in BOOLEAN
        /\ crossed \in BOOLEAN
    BY DEF Init
  <2>8. /\ holds \subseteq Inputs /\ down \subseteq Inputs /\ renewed \subseteq Nonces
        /\ pc = "tick" /\ lifecycle = "running" /\ popped = NoEvent
    BY DEF Init
  <2> QED BY <2>1, <2>2, <2>3, <2>4, <2>5, <2>6, <2>7, <2>8 DEF TypeOK
<1>2. TypeOK /\ [Next]_vars => TypeOK'
  <2> SUFFICES ASSUME TypeOK, [Next]_vars PROVE TypeOK'
    OBVIOUS
  <2>1. CASE Advance
    BY <2>1, EmitCases DEF Advance, TypeOK, timing, route, control, os
  <2>2. CASE Recover
    BY <2>2, EmitCases DEF Recover, TypeOK, timing, route, control, os
  <2>3. CASE UNCHANGED vars
    BY <2>3 DEF vars, TypeOK, timing, route, control, os
  <2> QED BY <2>1, <2>2, <2>3, NetworkKeepsType, WorkerKeepsType DEF Next
<1> QED BY <1>1, <1>2, PTL DEF Spec

-------------------------------------------------------------------------------
\* What the engine holds pressed: nothing it does not track, nothing while
\* it is paused, nothing for an event that a reset overtook.

\* The inductive invariant.  Its last conjunct is what makes the unlocked pop
\* harmless: an event that a reset overtook is applied in epoch 0.
HoldInvariant ==
    /\ down \subseteq holds
    /\ epoch = 0 => holds = {} \/ blocked
    /\ ~connected \/ pc = "stopped" => epoch = 0
    /\ pc = "apply" /\ crossed => epoch = 0

\* What a reset does to the holds: the ones whose release failed stay and block.
Releases ==
    \E failed \in SUBSET holds :
        /\ holds' = failed
        /\ down' = down \ (holds \ failed)
        /\ blocked \/ failed # {} => blocked'

LEMMA ReleasesHold ==
    ASSUME down \subseteq holds, Releases
    PROVE  /\ down' \subseteq holds' /\ down' \subseteq down
           /\ holds' = {} \/ blocked'
  BY DEF Releases

LEMMA ResetReleases ==
    ASSUME NEW failed \in Failing(holds)
    PROVE  /\ ReleaseAll(failed) => Releases
           /\ Reset(failed) => Releases /\ epoch' = 0
  BY DEF ReleaseAll, Reset, Releases, Failing

LEMMA NetworkKeepsHold == TypeOK /\ HoldInvariant /\ Network => HoldInvariant'
<1> SUFFICES ASSUME TypeOK, HoldInvariant, Network PROVE HoldInvariant'
  OBVIOUS
<1>1. ASSUME NEW failed \in Failing(holds), NetworkReset(failed)
      PROVE  HoldInvariant'
  <2>1. Releases /\ epoch' = 0
    BY <1>1, ResetReleases DEF NetworkReset
  <2> QED BY <2>1, ReleasesHold DEF HoldInvariant
<1>2. CASE ReceiveFrame
  BY <1>2 DEF ReceiveFrame, HoldInvariant, control, os
<1>3. CASE Stop
  BY <1>3 DEF Stop, HoldInvariant, control, os
<1>4. ASSUME NEW value \in BOOLEAN, SetConnected(value) PROVE HoldInvariant'
  BY <1>1, <1>4 DEF SetConnected
<1> QED BY <1>1, <1>2, <1>3, <1>4
           DEF Network, ReceiveReset, OverloadReset, PeerChanged, StopReset

\* The press of an input, possibly followed at once by a reset.
Presses(event) ==
    /\ Due(event)
    /\ UNCHANGED proof
    /\ \/ Inject(event) \/ InjectStalls(event) \/ InjectRaises(event)

LEMMA DueFacts ==
    ASSUME NEW event, Due(event)
    PROVE  epoch # 0 /\ connected /\ ~blocked /\ ~HeartbeatExpired
  BY DEF Due, Current, Valid, Ignored

LEMMA PressesFacts ==
    ASSUME HoldInvariant, NEW event, Presses(event)
    PROVE  /\ down' \subseteq holds'
           /\ epoch' = epoch \/ (epoch' = 0 /\ (holds' = {} \/ blocked'))
           /\ UNCHANGED proof
<1> USE DEF HoldInvariant, PressItem, ReleaseItem
<1>1. CASE Inject(event)
  BY <1>1 DEF Presses, Inject
<1>2. CASE InjectStalls(event)
  BY <1>2 DEF Presses, InjectStalls, Failing
<1>3. CASE InjectRaises(event)
  BY <1>3 DEF Presses, InjectRaises, TrackedDuring
<1> QED BY <1>1, <1>2, <1>3 DEF Presses

\* Every other way through process_one leaves the holds alone or releases them.
LEMMA ApplyCases ==
    ASSUME Apply
    PROVE  \/ UNCHANGED <<holds, down, blocked, epoch>>
           \/ Releases /\ epoch' = 0
           \/ Releases /\ Activate(popped)
           \/ Presses(popped)
<1> DEFINE Goal == \/ UNCHANGED <<holds, down, blocked, epoch>>
                   \/ Releases /\ epoch' = 0
                   \/ Releases /\ Activate(popped)
                   \/ Presses(popped)
<1>1. CASE Ignore(popped) \/ RefuseActivation(popped)
  BY <1>1 DEF Ignore, RefuseActivation, KeepState, os, control
<1>2. CASE MeasurePaused(popped) \/ RenewHold(popped)
  BY <1>2 DEF MeasurePaused, RenewHold, os
<1>3. CASE RejectStale(popped) \/ ExpireHold(popped) \/ RefuseKey(popped)
  BY <1>3, ResetReleases DEF RejectStale, ExpireHold, RefuseKey
<1>4. CASE Activate(popped)
  BY <1>4, ResetReleases DEF Activate
<1>5. CASE Inject(popped) \/ InjectStalls(popped) \/ InjectRaises(popped)
  BY <1>5 DEF Presses, Inject, InjectStalls, InjectRaises
<1> QED BY <1>1, <1>2, <1>3, <1>4, <1>5 DEF Apply, Completes

LEMMA TickCases ==
    ASSUME Tick
    PROVE  \/ UNCHANGED <<holds, down, blocked, epoch>>
           \/ Releases /\ epoch' = 0
<1>1. CASE TickPauses
  BY <1>1 DEF TickPauses, Failing, Releases
<1>2. CASE TickRetries
  BY <1>2, ResetReleases DEF TickRetries
<1>3. CASE TickIdles
  BY <1>3 DEF TickIdles, os
<1> QED BY <1>1, <1>2, <1>3 DEF Tick

LEMMA WorkerKeepsHold == TypeOK /\ HoldInvariant /\ Worker => HoldInvariant'
<1> SUFFICES ASSUME TypeOK, HoldInvariant, Worker PROVE HoldInvariant'
  OBVIOUS
<1>1. CASE Tick
  BY <1>1, TickCases, ReleasesHold DEF Tick, HoldInvariant
<1>2. CASE Pop
  BY <1>2 DEF Pop, HoldInvariant, control, os
<1>3. CASE Fail \/ Exit
  <2>1. Releases /\ epoch' = 0
    BY <1>3, ResetReleases DEF Fail, Exit
  <2> QED BY <2>1, ReleasesHold DEF HoldInvariant
<1>4. CASE Apply
  <2>1. UNCHANGED connected /\ pc' \in {"tick", "fail"}
    BY <1>4 DEF Apply
  <2>2. pc # "stopped"
    BY <1>4 DEF Apply
  <2>3. CASE UNCHANGED <<holds, down, blocked, epoch>>
    BY <2>1, <2>2, <2>3 DEF HoldInvariant
  <2>4. CASE Releases /\ epoch' = 0
    BY <2>1, <2>4, ReleasesHold DEF HoldInvariant
  <2>5. CASE Releases /\ Activate(popped)
    <3>1. connected /\ epoch' # 0
      BY <2>5 DEF Activate, Valid, Ignored
    <3> QED BY <2>1, <2>5, <3>1, ReleasesHold DEF HoldInvariant
  <2>6. CASE Presses(popped)
    <3>1. connected /\ epoch # 0
      BY <2>6, DueFacts DEF Presses
    <3> QED BY <2>1, <2>6, <3>1, PressesFacts DEF HoldInvariant
  <2> QED BY <1>4, <2>3, <2>4, <2>5, <2>6, ApplyCases
<1> QED BY <1>1, <1>2, <1>3, <1>4 DEF Worker

LEMMA HoldInvariantHolds == Spec => []HoldInvariant
<1>1. Init => HoldInvariant
  BY DEF Init, HoldInvariant
<1>2. TypeOK /\ HoldInvariant /\ [Next]_vars => HoldInvariant'
  <2>1. CASE Advance \/ Recover \/ UNCHANGED vars
    BY <2>1 DEF Advance, Recover, vars, HoldInvariant, control, os
  <2> QED BY <2>1, NetworkKeepsHold, WorkerKeepsHold DEF Next
<1> QED BY <1>1, <1>2, EngineTypeCorrect, PTL DEF Spec

\* Everything the system holds pressed can be released by a reset.
THEOREM HoldsAlwaysTracked == Spec => []HoldsTracked
<1>1. HoldInvariant => HoldsTracked
  BY DEF HoldInvariant, HoldsTracked
<1> QED BY <1>1, HoldInvariantHolds, PTL

\* A paused, disconnected or stopped target holds nothing, unless a release failed.
THEOREM PausedAlwaysReleases == Spec => []PausedReleases
<1>1. HoldInvariant => PausedReleases
  BY DEF HoldInvariant, PausedReleases
<1> QED BY <1>1, HoldInvariantHolds, PTL

\* Only Presses adds to what is held.
LEMMA OnlyPressesPress ==
    ASSUME TypeOK, HoldInvariant, Next, ~(down' \subseteq down)
    PROVE  pc = "apply" /\ Presses(popped)
<1>1. CASE Network
  <2>1. ASSUME NEW failed \in Failing(holds), NetworkReset(failed)
        PROVE  down' \subseteq down
    BY <2>1, ResetReleases, ReleasesHold DEF NetworkReset, HoldInvariant
  <2> QED BY <1>1, <2>1 DEF Network, ReceiveReset, ReceiveFrame, OverloadReset,
                            PeerChanged, SetConnected, Stop, StopReset, os
<1>2. CASE Tick
  BY <1>2, TickCases, ReleasesHold DEF HoldInvariant
<1>3. CASE Pop \/ Advance \/ Recover
  BY <1>3 DEF Pop, Advance, Recover, os
<1>4. CASE Fail \/ Exit
  BY <1>4, ResetReleases, ReleasesHold DEF Fail, Exit, HoldInvariant
<1>5. CASE Apply
  <2>1. CASE UNCHANGED <<holds, down, blocked, epoch>> \/ Releases
    BY <2>1, ReleasesHold DEF HoldInvariant
  <2> QED BY <1>5, <2>1, ApplyCases DEF Apply
<1> QED BY <1>1, <1>2, <1>3, <1>4, <1>5 DEF Next, Worker

\* A reset by the network thread voids the event the worker has already popped.
THEOREM NoPressEverCrosses == Spec => NoPressAcrossReset
<1>1. TypeOK /\ HoldInvariant /\ [Next]_vars => [down' \subseteq down \/ ~crossed]_vars
  <2> SUFFICES ASSUME TypeOK, HoldInvariant, Next, ~(down' \subseteq down)
               PROVE  ~crossed
    OBVIOUS
  <2> QED BY OnlyPressesPress, DueFacts DEF Presses, HoldInvariant
<1> QED BY <1>1, EngineTypeCorrect, HoldInvariantHolds, PTL DEF Spec, NoPressAcrossReset

\* After a failed release nothing is pressed again.
THEOREM BlockedNeverPresses == Spec => BlockedStaysReleased
<1>1. TypeOK /\ HoldInvariant /\ [Next]_vars => [blocked => down' \subseteq down]_vars
  <2> SUFFICES ASSUME TypeOK, HoldInvariant, Next, ~(down' \subseteq down)
               PROVE  ~blocked
    OBVIOUS
  <2> QED BY OnlyPressesPress, DueFacts DEF Presses
<1> QED BY <1>1, EngineTypeCorrect, HoldInvariantHolds, PTL DEF Spec, BlockedStaysReleased

\* put, pop and process_one: a failed queue is reset by the thread that saw it fail, on
\* either thread, before the epoch goes on.  The property is inductive as it stands.
THEOREM FailureAlwaysNoticed == Spec => []FailureIsNoticed
<1>1. Init => FailureIsNoticed
  BY DEF Init, EmptyQueue, FailureIsNoticed
<1>2. TypeOK /\ FailureIsNoticed /\ [Next]_vars => FailureIsNoticed'
  <2> SUFFICES ASSUME TypeOK, FailureIsNoticed, [Next]_vars PROVE FailureIsNoticed'
    OBVIOUS
  <2>1. CASE queue' = EmptyQueue
    BY <2>1 DEF EmptyQueue, FailureIsNoticed
  <2>2. ASSUME NEW failed \in Failing(holds), Reset(failed) PROVE queue' = EmptyQueue
    BY <2>2 DEF Reset, ReleaseAll
  <2>3. CASE ReceiveFrame
    BY <2>3 DEF ReceiveFrame, FailureIsNoticed
  <2>4. CASE Stop \/ Advance \/ Recover \/ UNCHANGED vars
    BY <2>4 DEF Stop, Advance, Recover, vars, control, FailureIsNoticed
  <2>5. CASE Network
    BY <2>1, <2>2, <2>3, <2>4, <2>5
       DEF Network, ReceiveReset, OverloadReset, PeerChanged, SetConnected, StopReset,
           NetworkReset
  <2>6. CASE Tick
    BY <2>1, <2>2, <2>6 DEF Tick, TickPauses, TickRetries, TickIdles, FailureIsNoticed
  <2>7. CASE Pop
    <3>1. queue.items # <<>> /\ ~queue.failed => Popped(queue).failed = FALSE
      BY DEF Popped, TypeOK, Queues
    <3> QED BY <2>7, <3>1 DEF Pop, PopFails, control, FailureIsNoticed
  <2>8. CASE Fail \/ Exit
    BY <2>1, <2>2, <2>8 DEF Fail, Exit
  <2>9. CASE Apply
    <3>1. queue' = EmptyQueue \/ UNCHANGED <<queue, epoch>>
      BY <2>2, <2>9 DEF Apply, Completes, Ignore, KeepState, RejectStale,
             RefuseActivation, Activate, ReleaseAll, MeasurePaused, ExpireHold, RenewHold,
             RefuseKey, Inject, InjectStalls, InjectRaises, control
    <3> QED BY <2>1, <2>9, <3>1 DEF Apply, FailureIsNoticed
  <2> QED BY <2>4, <2>5, <2>6, <2>7, <2>8, <2>9 DEF Next, Worker
<1> QED BY <1>1, <1>2, EngineTypeCorrect, PTL DEF Spec

-------------------------------------------------------------------------------
\* How long control can last without the controller answering a challenge.

\* The age a challenge may have had when it last renewed control.
AcceptLimit == TimeoutMax + ChallengeInterval + MaxQueueAge

\* The inductive invariant: challenges are numbered and dated in the past; those
\* that renewed the current epoch are no newer than the last echo; and control
\* was renewed by a challenge that was fresh at that time.
LeaseInvariant ==
    /\ \A n \in Nonces : leases[n] # NotIssued => n <= nonces /\ leases[n] <= clock
    /\ \A n \in renewed : n <= nonces /\ leases[n] <= lastEchoIssued /\ 0 <= lastEchoIssued
    /\ epoch # 0 => /\ proof <= lastHeartbeat /\ lastHeartbeat <= clock
                    /\ lastHeartbeat - proof < AcceptLimit
                    /\ epoch = lastEpoch

LEMMA AcceptedIsFresh ==
    ASSUME TypeOK, LeaseInvariant, NEW event \in Events, Valid(event)
    PROVE  /\ leases[event.lease] # NotIssued /\ event.lease \in Nonces
           /\ leases[event.lease] \in 0 .. clock
           /\ event.lease <= nonces
           /\ clock - leases[event.lease] < AcceptLimit
<1> USE LimitsInNat
<1>1. event.lease \in Nonces /\ leases[event.lease] # NotIssued
      /\ clock - leases[event.lease] < Limit(event)
  BY DEF Valid, ValidLease, Events
<1>2. leases[event.lease] \in 0 .. MaxClock /\ leases[event.lease] <= clock
      /\ event.lease <= nonces
  BY <1>1, LeaseType DEF LeaseInvariant
<1>3. Timeout(network) \in TimeoutMin .. TimeoutMax
  BY TimeoutBounds DEF TypeOK
<1>4. Limit(event) \in Int /\ Limit(event) <= AcceptLimit
  BY <1>3 DEF Limit, InputTimeout, AcceptLimit
<1>5. clock \in 0 .. MaxClock
  BY DEF TypeOK
<1> QED BY <1>1, <1>2, <1>4, <1>5 DEF AcceptLimit

\* A reset ends the epoch and forgets which challenges renewed it.
LEMMA ResetKeepsLease ==
    ASSUME TypeOK, LeaseInvariant, epoch' = 0, renewed' = {}, nonces' = nonces,
           UNCHANGED clock,
           UNCHANGED leases \/ leases' = [n \in Nonces |-> NotIssued]
    PROVE  LeaseInvariant'
  BY DEF LeaseInvariant

LEMMA NetworkKeepsLease == TypeOK /\ LeaseInvariant /\ Network => LeaseInvariant'
<1> SUFFICES ASSUME TypeOK, LeaseInvariant, Network PROVE LeaseInvariant'
  OBVIOUS
<1>1. ASSUME NEW failed \in Failing(holds), NetworkReset(failed)
      PROVE  epoch' = 0 /\ renewed' = {} /\ UNCHANGED clock
  BY <1>1 DEF NetworkReset, Reset
<1>2. CASE ReceiveReset \/ OverloadReset \/ PeerChanged \/ StopReset
  BY <1>1, <1>2, ResetKeepsLease
     DEF ReceiveReset, OverloadReset, PeerChanged, StopReset, timing
<1>3. ASSUME NEW value \in BOOLEAN, SetConnected(value) PROVE LeaseInvariant'
  BY <1>1, <1>3, ResetKeepsLease DEF SetConnected
<1>4. CASE ReceiveFrame \/ Stop
  BY <1>4 DEF ReceiveFrame, Stop, LeaseInvariant, timing, route, control
<1> QED BY <1>2, <1>3, <1>4 DEF Network

LEMMA TickKeepsLease == TypeOK /\ LeaseInvariant /\ Tick => LeaseInvariant'
<1> SUFFICES ASSUME TypeOK, LeaseInvariant, Tick PROVE LeaseInvariant'
  OBVIOUS
<1> USE LimitsInNat
<1>1. \A n \in Nonces : Pruned[n] = leases[n] \/ Pruned[n] = NotIssued
  BY DEF Pruned
<1>2. nonces' >= nonces /\ UNCHANGED <<clock, lastEchoIssued>>
  BY DEF Tick, IssueChallenge, route, TypeOK
<1>3. \A n \in Nonces : leases'[n] # NotIssued => n <= nonces' /\ leases'[n] <= clock
  <2>1. CASE ChallengeDue
    BY <1>1, <1>2, <2>1 DEF Tick, IssueChallenge, ChallengeDue, LeaseInvariant, TypeOK,
                            Nonces, Pruned
  <2>2. CASE ~ChallengeDue
    BY <1>1, <2>2 DEF Tick, IssueChallenge, LeaseInvariant
  <2> QED BY <2>1, <2>2
<1>4. ASSUME NEW n \in renewed
      PROVE  n <= nonces' /\ leases'[n] <= lastEchoIssued /\ 0 <= lastEchoIssued
  <2>1. n \in Nonces /\ n <= nonces /\ leases[n] <= lastEchoIssued /\ 0 <= lastEchoIssued
    BY DEF LeaseInvariant, TypeOK
  <2>2. n # nonces + 1 /\ n <= nonces'
    BY <1>2, <2>1 DEF TypeOK, Nonces, Tick, IssueChallenge
  <2>3. leases'[n] = Pruned[n]
    <3>1. n \in DOMAIN Pruned
      BY <2>1 DEF Pruned
    <3> QED BY <2>2, <3>1 DEF Tick, IssueChallenge
  <2>4. Pruned[n] <= lastEchoIssued
    BY <1>1, <2>1 DEF NotIssued, TypeOK, Never
  <2> QED BY <2>1, <2>2, <2>3, <2>4
<1>5. CASE TickPauses \/ TickRetries
  <2>1. epoch' = 0 /\ renewed' = {}
    BY <1>5 DEF TickPauses, TickRetries, Reset
  <2> QED BY <1>2, <1>3, <2>1 DEF LeaseInvariant
<1>6. CASE TickIdles
  <2>1. UNCHANGED <<epoch, lastEpoch, lastHeartbeat, proof, renewed>>
    BY <1>6 DEF TickIdles
  <2> QED BY <1>2, <1>3, <1>4, <2>1 DEF LeaseInvariant
<1> QED BY <1>5, <1>6 DEF Tick

LEMMA ObserveKeepsLease ==
    ASSUME TypeOK, LeaseInvariant, NEW event \in Events, Valid(event),
           ObserveHeartbeat(event), UNCHANGED <<timing, epoch, lastEpoch, clock>>
    PROVE  LeaseInvariant'
<1> DEFINE issued == leases[event.lease]
<1>1. /\ issued \in 0 .. clock /\ event.lease \in Nonces /\ event.lease <= nonces
      /\ clock - issued < AcceptLimit
  BY AcceptedIsFresh
<1>2. clock \in 0 .. MaxClock
  BY DEF TypeOK
<1>3. CASE issued > lastEchoIssued
  <2>1. /\ lastEchoIssued' = issued
        /\ epoch # 0 => /\ lastHeartbeat' = clock /\ proof' = issued
                        /\ renewed' = renewed \cup {event.lease}
        /\ epoch = 0 => UNCHANGED <<lastHeartbeat, proof, renewed>>
    BY <1>3 DEF ObserveHeartbeat
  <2>2. \A n \in renewed' : n <= nonces /\ leases[n] <= lastEchoIssued'
                            /\ 0 <= lastEchoIssued'
    <3>1. ASSUME NEW n \in renewed
          PROVE  n <= nonces /\ leases[n] <= issued /\ 0 <= issued
      <4>1. n \in Nonces /\ n <= nonces /\ leases[n] <= lastEchoIssued
        BY DEF LeaseInvariant, TypeOK
      <4>2. leases[n] \in Int /\ lastEchoIssued \in Int
        BY <4>1, LimitsInNat DEF TypeOK, NotIssued, Never
      <4> QED BY <1>1, <1>2, <1>3, <4>1, <4>2
    <3>2. renewed' \subseteq renewed \cup {event.lease}
      BY <2>1
    <3> QED BY <1>1, <1>2, <2>1, <3>1, <3>2
  <2>3. epoch # 0 => /\ proof' <= lastHeartbeat' /\ lastHeartbeat' <= clock
                     /\ lastHeartbeat' - proof' < AcceptLimit
    BY <1>1, <1>2, <2>1
  <2> QED BY <2>2, <2>3 DEF LeaseInvariant, timing
<1>4. CASE ~(issued > lastEchoIssued)
  BY <1>4 DEF ObserveHeartbeat, LeaseInvariant, timing
<1> QED BY <1>3, <1>4

LEMMA ApplyKeepsLease == TypeOK /\ LeaseInvariant /\ Apply => LeaseInvariant'
<1> SUFFICES ASSUME TypeOK, LeaseInvariant, Apply PROVE LeaseInvariant'
  OBVIOUS
<1>1. popped \in Events /\ UNCHANGED <<timing, clock>>
  BY DEF Apply, TypeOK
<1>2. CASE UNCHANGED <<epoch, lastEpoch, lastHeartbeat, proof, renewed, lastEchoIssued>>
  BY <1>1, <1>2 DEF LeaseInvariant, timing
<1>3. CASE epoch' = 0 /\ renewed' = {}
  BY <1>1, <1>3, ResetKeepsLease DEF timing
<1>4. CASE Activate(popped)
  <2>1. /\ renewed' = {} /\ lastHeartbeat' = clock /\ proof' = leases[popped.lease]
        /\ Valid(popped)
    BY <1>4 DEF Activate
  <2>2. /\ proof' \in 0 .. clock /\ clock - proof' < AcceptLimit
    BY <1>1, <2>1, AcceptedIsFresh
  <2>3. clock \in 0 .. MaxClock
    BY DEF TypeOK
  <2>4. epoch' = lastEpoch'
    BY <1>4 DEF Activate
  <2>5. \A n \in Nonces : leases[n] # NotIssued => n <= nonces /\ leases[n] <= clock
    BY DEF LeaseInvariant
  <2>6. proof' <= lastHeartbeat' /\ lastHeartbeat' <= clock
        /\ lastHeartbeat' - proof' < AcceptLimit
    BY <2>1, <2>2, <2>3
  <2> QED BY <1>1, <2>1, <2>4, <2>5, <2>6 DEF LeaseInvariant, timing
<1>5. CASE (MeasurePaused(popped) \/ RenewHold(popped)) /\ ObserveHeartbeat(popped)
  BY <1>1, <1>5, ObserveKeepsLease DEF MeasurePaused, RenewHold, Current
<1>6. \/ UNCHANGED <<epoch, lastEpoch, lastHeartbeat, proof, renewed, lastEchoIssued>>
      \/ epoch' = 0 /\ renewed' = {}
      \/ Activate(popped)
      \/ (MeasurePaused(popped) \/ RenewHold(popped)) /\ ObserveHeartbeat(popped)
  <2>1. CASE Ignore(popped) \/ RefuseActivation(popped)
    BY <2>1 DEF Ignore, RefuseActivation, KeepState, control, route
  <2>2. CASE MeasurePaused(popped)
    BY <2>2 DEF MeasurePaused, route
  <2>3. CASE RenewHold(popped)
    BY <2>3 DEF RenewHold
  <2>4. CASE RejectStale(popped) \/ ExpireHold(popped) \/ RefuseKey(popped)
             \/ InjectStalls(popped)
    BY <2>4 DEF RejectStale, ExpireHold, RefuseKey, InjectStalls, Reset
  <2>5. CASE Inject(popped) \/ InjectRaises(popped)
    BY <2>5 DEF Inject, InjectRaises, route
  <2> QED BY <2>1, <2>2, <2>3, <2>4, <2>5 DEF Apply, Completes
<1> QED BY <1>2, <1>3, <1>4, <1>5, <1>6

LEMMA LeaseInvariantHolds == Spec => []LeaseInvariant
<1>1. Init => LeaseInvariant
  BY DEF Init, LeaseInvariant
<1>2. TypeOK /\ LeaseInvariant /\ [Next]_vars => LeaseInvariant'
  <2> SUFFICES ASSUME TypeOK, LeaseInvariant, [Next]_vars PROVE LeaseInvariant'
    OBVIOUS
  <2>1. CASE Pop
    BY <2>1 DEF Pop, LeaseInvariant, timing, route, control
  <2>2. CASE Fail \/ Exit
    BY <2>2, ResetKeepsLease DEF Fail, Exit, Reset, timing
  <2>3. CASE Advance
    <3>1. clock \in 0 .. MaxClock /\ clock' = clock + 1
      BY <2>3 DEF Advance, TypeOK
    <3>2. \A n \in Nonces : leases[n] \in {NotIssued} \cup (0 .. MaxClock)
      BY DEF TypeOK
    <3>3. \A n \in Nonces : leases[n] # NotIssued => n <= nonces /\ leases[n] <= clock'
      BY <3>1, <3>2, LimitsInNat DEF LeaseInvariant, NotIssued
    <3>4. epoch # 0 => lastHeartbeat <= clock'
      BY <3>1, LimitsInNat DEF LeaseInvariant, TypeOK
    <3> QED BY <2>3, <3>3, <3>4 DEF Advance, LeaseInvariant, timing, route, control
  <2>4. CASE Recover \/ UNCHANGED vars
    BY <2>4 DEF Recover, vars, LeaseInvariant, timing, route, control
  <2> QED BY <2>1, <2>2, <2>3, <2>4, NetworkKeepsLease, TickKeepsLease, ApplyKeepsLease
             DEF Next, Worker
<1> QED BY <1>1, <1>2, EngineTypeCorrect, PTL DEF Spec

\* Pressing, and staying in control at a tick, need a heartbeat that is not silent.
LEMMA ControlIsProven ==
    ASSUME TypeOK, LeaseInvariant, epoch # 0, ~HeartbeatExpired
    PROVE  clock - proof < ProofLimit
<1>1. Timeout(network) \in TimeoutMin .. TimeoutMax
  BY TimeoutBounds DEF TypeOK
<1>2. clock - lastHeartbeat < Timeout(network)
  <2>1. clock \in Int /\ lastHeartbeat \in Int /\ Timeout(network) \in Int
    BY <1>1, LimitsInNat DEF TypeOK
  <2> QED BY <2>1 DEF HeartbeatExpired
<1>3. lastHeartbeat - proof < AcceptLimit
  BY DEF LeaseInvariant
<1> QED BY <1>1, <1>2, <1>3, LimitsInNat DEF TypeOK, AcceptLimit, ProofLimit

\* Silence, replay and queueing cannot keep control past the two deadlines.
THEOREM ControlAlwaysNeedsProof == Spec => ControlNeedsProof
<1> DEFINE Step == ~(down' \subseteq down) \/ (pc = "tick" /\ pc' = "pop" /\ epoch' # 0)
                     => clock - proof' < ProofLimit
<1>1. TypeOK /\ HoldInvariant /\ LeaseInvariant /\ [Next]_vars => [Step]_vars
  <2> SUFFICES ASSUME TypeOK, HoldInvariant, LeaseInvariant, Next PROVE Step
    OBVIOUS
  <2>1. CASE ~(down' \subseteq down)
    <3>1. Presses(popped)
      BY <2>1, OnlyPressesPress
    <3>2. epoch # 0 /\ ~HeartbeatExpired /\ UNCHANGED proof
      BY <3>1, DueFacts DEF Presses
    <3> QED BY <3>2, ControlIsProven
  <2>2. CASE pc = "tick" /\ pc' = "pop" /\ epoch' # 0
    <3>1. Tick
      BY <2>2 DEF Next, Network, Worker, ReceiveReset, ReceiveFrame, OverloadReset,
                  PeerChanged, SetConnected, Stop, StopReset, NetworkReset, Pop, Apply,
                  Fail, Exit, Advance, Recover
    <3>2. TickIdles
      BY <2>2, <3>1 DEF Tick, TickPauses, TickRetries, Reset
    <3>3. epoch # 0 /\ ~HeartbeatExpired /\ UNCHANGED proof
      BY <2>2, <3>2 DEF TickIdles
    <3> QED BY <3>3, ControlIsProven
  <2> QED BY <2>1, <2>2
<1> QED BY <1>1, EngineTypeCorrect, HoldInvariantHolds, LeaseInvariantHolds, PTL
        DEF Spec, ControlNeedsProof

\* A challenge extends the hold of an epoch at most once.
THEOREM RenewsAtMostOnce == Spec => RenewsOnce
<1> DEFINE Step == lastHeartbeat' > lastHeartbeat /\ epoch' = epoch /\ epoch # 0
                     => popped.lease \notin renewed
<1>1. TypeOK /\ LeaseInvariant /\ [Next]_vars => [Step]_vars
  <2> SUFFICES ASSUME TypeOK, LeaseInvariant, Next, lastHeartbeat' > lastHeartbeat,
                      epoch' = epoch, epoch # 0
               PROVE  popped.lease \notin renewed
    OBVIOUS
  <2>1. UNCHANGED lastHeartbeat \/ RenewHold(popped) \/ Activate(popped)
    <3>1. CASE Network
      BY <3>1 DEF Network, ReceiveReset, ReceiveFrame, OverloadReset, PeerChanged,
                  SetConnected, Stop, StopReset, NetworkReset, Reset, control
    <3>2. CASE Tick \/ Pop \/ Fail \/ Exit
      BY <3>2 DEF Tick, TickPauses, TickRetries, TickIdles, Pop, Fail, Exit, Reset, control
    <3>3. CASE Apply
      BY <3>3 DEF Apply, Completes, Ignore, RejectStale, RefuseActivation, KeepState,
                  MeasurePaused, ExpireHold, RefuseKey, Inject, InjectStalls,
                  InjectRaises, Reset, control
    <3>4. CASE Advance \/ Recover
      BY <3>4 DEF Advance, Recover, control
    <3> QED BY <3>1, <3>2, <3>3, <3>4 DEF Next, Worker
  <2>2. lastHeartbeat' # lastHeartbeat
    BY DEF TypeOK
  <2>3. CASE RenewHold(popped)
    <3>1. leases[popped.lease] > lastEchoIssued
      BY <2>2, <2>3 DEF RenewHold, ObserveHeartbeat
    <3>2. popped.lease \in Nonces
      BY DEF TypeOK, Events
    <3>3. leases[popped.lease] \in Int /\ lastEchoIssued \in Int
      BY <3>2, LimitsInNat DEF TypeOK, NotIssued, Never
    <3> QED BY <3>1, <3>3 DEF LeaseInvariant
  <2>4. CASE Activate(popped)
    BY <2>4 DEF Activate, LeaseInvariant
  <2> QED BY <2>1, <2>2, <2>3, <2>4
<1> QED BY <1>1, EngineTypeCorrect, LeaseInvariantHolds, PTL DEF Spec, RenewsOnce
-------------------------------------------------------------------------------
\* The session.  The messages the engine emits tell the controller its epoch exactly:
\* activations are popped in the order their fresh epochs were chosen, so a refusal
\* never names the epoch that is active.

\* The activations that wait lie between two epochs and are in order.
Ordered(items, floor, ceiling) ==
    /\ \A i \in 1 .. Len(items) : Activates(items[i].event) =>
          floor < items[i].event.epoch /\ items[i].event.epoch <= ceiling
    /\ \A i, j \in 1 .. Len(items) :
          i < j /\ Activates(items[i].event) /\ Activates(items[j].event)
            => items[i].event.epoch < items[j].event.epoch

\* The newest epoch that is active, over, or about to be decided.
Floor == IF Handling THEN popped.epoch ELSE lastEpoch

OrderInvariant ==
    /\ told = epoch
    /\ epoch = 0 \/ epoch = lastEpoch
    /\ Handling => lastEpoch < popped.epoch
    /\ Floor <= epochs
    /\ Ordered(queue.items, Floor, epochs)

LEMMA OrderedEmpty ==
    ASSUME NEW floor, NEW ceiling PROVE Ordered(<<>>, floor, ceiling)
  BY DEF Ordered

\* A put keeps the waiting activations where they are, or adds one at the end, or
\* empties the queue.
LEMMA PutItems ==
    ASSUME NEW q \in Queues, NEW e \in Events, NEW now \in 0 .. MaxClock
    PROVE  LET items == Put(q, e, now).items
           IN  \/ items = <<>>
               \/ /\ Len(items) = Len(q.items)
                  /\ \A i \in 1 .. Len(items) :
                        Activates(items[i].event) => items[i] = q.items[i]
               \/ items = Append(q.items, [event |-> e, entered |-> now])
<1>1. q.items \in Seq(Items) /\ q.failed \in BOOLEAN
  BY DEF Queues, Items
<1>2. CASE Put(q, e, now) = FailedQueue
  BY <1>2 DEF FailedQueue
<1>3. CASE Adjacent(q, e) /\ Put(q, e, now) # FailedQueue
  <2> DEFINE n == Len(q.items)
             items == [q.items EXCEPT ![n] = Coalesced(q, e, now)]
  <2>1. Put(q, e, now).items = items
    BY <1>1, <1>3 DEF Put, Queues
  <2>2. n \in 1 .. Len(q.items) /\ e.op = "MOVE"
    BY <1>1, <1>3 DEF Adjacent
  <2>3. items[n].event.op = "MOVE"
    BY <1>1, <2>2 DEF Coalesced, Merged, Items, Events
  <2>4. Len(items) = Len(q.items) /\ \A i \in 1 .. n : i # n => items[i] = q.items[i]
    BY <1>1
  <2> QED BY <2>1, <2>2, <2>3, <2>4 DEF Activates
<1>4. CASE ~Adjacent(q, e) /\ Put(q, e, now) # FailedQueue
  BY <1>1, <1>4 DEF Put, Overflowed, Queues
<1> QED BY <1>2, <1>3, <1>4

LEMMA EpochOf ==
    ASSUME NEW q \in Queues, NEW i \in 1 .. Len(q.items)
    PROVE  q.items[i].event.epoch \in Int
<1>1. \A x \in Items : x.event.epoch \in Int
  BY LimitsInNat DEF Items, Events
<1>2. q.items \in Seq(Items)
  BY DEF Queues, Items
<1>3. q.items[i] \in Items
  BY <1>2
<1> QED BY <1>1, <1>3

LEMMA Transits ==
    ASSUME NEW a \in Int, NEW b \in Int, NEW c \in Int, a <= b, b <= c PROVE a <= c
  OBVIOUS

LEMMA OrderedPut ==
    ASSUME NEW q \in Queues, NEW e \in Events, NEW now \in 0 .. MaxClock,
           NEW floor \in Nat, NEW ceiling \in Nat, floor <= ceiling,
           Activates(e) => e.epoch = ceiling + 1,
           Ordered(q.items, floor, ceiling)
    PROVE  Ordered(Put(q, e, now).items, floor, IF Activates(e) THEN e.epoch ELSE ceiling)
<1> DEFINE items == Put(q, e, now).items
           top == IF Activates(e) THEN e.epoch ELSE ceiling
<1>1. q.items \in Seq(Items)
  BY DEF Queues, Items
<1>2. \A i \in 1 .. Len(q.items) : q.items[i].event.epoch \in Int
  BY EpochOf
<1>3. top \in Nat /\ ceiling <= top
  OBVIOUS
<1>4. CASE items = <<>>
  BY <1>4, OrderedEmpty
<1>5. CASE /\ Len(items) = Len(q.items)
           /\ \A i \in 1 .. Len(items) :
                 Activates(items[i].event) => items[i] = q.items[i]
  <2> HIDE DEF items, top
  <2>1. ASSUME NEW i \in 1 .. Len(items), Activates(items[i].event)
        PROVE  floor < items[i].event.epoch /\ items[i].event.epoch <= top
    <3>1. i \in 1 .. Len(q.items) /\ items[i] = q.items[i]
      BY <1>5, <2>1
    <3>2. Activates(q.items[i].event)
      BY <2>1, <3>1
    <3>3. floor < q.items[i].event.epoch /\ q.items[i].event.epoch <= ceiling
      BY <3>1, <3>2 DEF Ordered
    <3> QED BY <1>3, <3>1, <3>3, Transits, EpochOf
  <2>2. ASSUME NEW i \in 1 .. Len(items), NEW j \in 1 .. Len(items), i < j,
               Activates(items[i].event), Activates(items[j].event)
        PROVE  items[i].event.epoch < items[j].event.epoch
    <3>1. /\ i \in 1 .. Len(q.items) /\ items[i] = q.items[i]
          /\ j \in 1 .. Len(q.items) /\ items[j] = q.items[j]
      BY <1>5, <2>2
    <3>2. Activates(q.items[i].event) /\ Activates(q.items[j].event)
      BY <2>2, <3>1
    <3>3. q.items[i].event.epoch < q.items[j].event.epoch
      BY <2>2, <3>1, <3>2 DEF Ordered
    <3> QED BY <3>1, <3>3
  <2>3. Ordered(items, floor, top)
    BY <2>1, <2>2 DEF Ordered
  <2> QED BY <2>3 DEF items, top
<1>6. CASE items = Append(q.items, [event |-> e, entered |-> now])
  <2>1. /\ Len(items) = Len(q.items) + 1
        /\ items[Len(q.items) + 1].event = e
        /\ \A i \in 1 .. Len(q.items) : items[i] = q.items[i]
        /\ Len(q.items) \in Nat
    BY <1>1, <1>6
  <2> HIDE DEF items
  <2>2. ASSUME NEW i \in 1 .. Len(items), Activates(items[i].event)
        PROVE  floor < items[i].event.epoch /\ items[i].event.epoch <= top
    <3>1. CASE i \in 1 .. Len(q.items)
      <4>1. items[i] = q.items[i] /\ Activates(q.items[i].event)
        BY <2>1, <2>2, <3>1
      <4>2. floor < q.items[i].event.epoch /\ q.items[i].event.epoch <= ceiling
        BY <3>1, <4>1 DEF Ordered
      <4> QED BY <1>3, <3>1, <4>1, <4>2, Transits, EpochOf
    <3>2. CASE i = Len(q.items) + 1
      <4>1. items[i].event = e /\ Activates(e)
        BY <2>1, <2>2, <3>2
      <4>2. e.epoch = ceiling + 1 /\ top = e.epoch
        BY <4>1
      <4> QED BY <4>1, <4>2
    <3> QED BY <2>1, <3>1, <3>2
  <2>3. \A i, j \in 1 .. Len(items) :
          i < j /\ Activates(items[i].event) /\ Activates(items[j].event)
            => items[i].event.epoch < items[j].event.epoch
    <3> SUFFICES ASSUME NEW i \in 1 .. Len(items), NEW j \in 1 .. Len(items), i < j,
                        Activates(items[i].event), Activates(items[j].event)
                 PROVE  items[i].event.epoch < items[j].event.epoch
      OBVIOUS
    <3>1. i \in 1 .. Len(q.items)
      BY <2>1
    <3>2. CASE j \in 1 .. Len(q.items)
      BY <2>1, <3>1, <3>2 DEF Ordered
    <3>3. CASE j = Len(q.items) + 1
      <4>1. items[j].event.epoch = ceiling + 1
        BY <2>1, <3>3
      <4>2. q.items[i].event.epoch <= ceiling /\ q.items[i].event.epoch \in Int
        BY <1>2, <2>1, <3>1 DEF Ordered
      <4> QED BY <2>1, <3>1, <4>1, <4>2
    <3> QED BY <2>1, <3>2, <3>3
  <2>4. Ordered(items, floor, top)
    BY <2>2, <2>3 DEF Ordered
  <2> QED BY <2>4 DEF items
<1> HIDE DEF items, top
<1> QED BY <1>4, <1>5, <1>6, PutItems DEF items, top

LEMMA OrderedPop ==
    ASSUME NEW q \in Queues, q.items # <<>>, NEW floor \in Nat, NEW ceiling \in Nat,
           Ordered(q.items, floor, ceiling)
    PROVE  LET e == Head(q.items).event
           IN  /\ Activates(e) => floor < e.epoch /\ e.epoch <= ceiling
               /\ Ordered(Popped(q).items, IF Activates(e) THEN e.epoch ELSE floor, ceiling)
<1> DEFINE e == Head(q.items).event
           items == Tail(q.items)
<1>1. q.items \in Seq(Items)
  BY DEF Queues, Items
<1>2. /\ e = q.items[1].event /\ 1 \in 1 .. Len(q.items)
      /\ Len(items) = Len(q.items) - 1
      /\ \A i \in 1 .. Len(items) : items[i] = q.items[i + 1]
      /\ Popped(q).items = items
  BY <1>1 DEF Popped, Queues
<1>3. Activates(e) => floor < e.epoch /\ e.epoch <= ceiling
  BY <1>2 DEF Ordered
<1>4. \A i \in 1 .. Len(items) : i + 1 \in 1 .. Len(q.items) /\ 1 < i + 1
  BY <1>1, <1>2
<1>5. Ordered(items, IF Activates(e) THEN e.epoch ELSE floor, ceiling)
  <2> HIDE DEF e, items
  <2>1. \A i, j \in 1 .. Len(items) : i < j => i + 1 < j + 1
    BY <1>1, <1>2
  <2>2. ASSUME NEW i \in 1 .. Len(items), Activates(items[i].event)
        PROVE  /\ (IF Activates(e) THEN e.epoch ELSE floor) < items[i].event.epoch
               /\ items[i].event.epoch <= ceiling
    <3>1. i + 1 \in 1 .. Len(q.items) /\ 1 < i + 1 /\ Activates(q.items[i + 1].event)
      BY <1>2, <1>4, <2>2
    <3>2. floor < q.items[i + 1].event.epoch /\ q.items[i + 1].event.epoch <= ceiling
      BY <3>1 DEF Ordered
    <3>3. Activates(e) => e.epoch < q.items[i + 1].event.epoch
      BY <1>2, <3>1 DEF Ordered
    <3> QED BY <1>2, <3>2, <3>3
  <2>3. ASSUME NEW i \in 1 .. Len(items), NEW j \in 1 .. Len(items), i < j,
               Activates(items[i].event), Activates(items[j].event)
        PROVE  items[i].event.epoch < items[j].event.epoch
    <3>1. /\ i + 1 \in 1 .. Len(q.items) /\ Activates(q.items[i + 1].event)
          /\ j + 1 \in 1 .. Len(q.items) /\ Activates(q.items[j + 1].event)
          /\ i + 1 < j + 1
      BY <1>2, <1>4, <2>1, <2>3
    <3>2. q.items[i + 1].event.epoch < q.items[j + 1].event.epoch
      BY <3>1 DEF Ordered
    <3> QED BY <1>2, <3>2
  <2> QED BY <2>2, <2>3 DEF Ordered
<1> HIDE DEF items
<1> QED BY <1>2, <1>3, <1>5

LEMMA FloorType ==
    ASSUME TypeOK PROVE Floor \in Nat /\ epochs \in Nat /\ lastEpoch \in Nat
  BY LimitsInNat DEF Floor, Handling, TypeOK, Events

LEMMA ReceiveKeepsOrder == TypeOK /\ OrderInvariant /\ ReceiveFrame => OrderInvariant'
<1> SUFFICES ASSUME TypeOK, OrderInvariant, ReceiveFrame PROVE OrderInvariant'
  OBVIOUS
<1>1. PICK f \in Frames : /\ queue' = Put(queue, f, clock)
                          /\ epochs' = IF f.op = "ACTIVATE" THEN f.epoch ELSE epochs
  BY DEF ReceiveFrame
<1>2. f \in Events /\ (Activates(f) => f.epoch = epochs + 1)
  BY FramesType DEF TypeOK, Activates
<1>3. UNCHANGED <<pc, popped, epoch, lastEpoch>> /\ told' = told
  BY EmitCases DEF ReceiveFrame, control
<1>4. Floor' = Floor /\ (Handling' <=> Handling)
  BY <1>3 DEF Floor, Handling
<1>5. epochs' = (IF Activates(f) THEN f.epoch ELSE epochs) /\ epochs <= epochs'
  BY <1>1, <1>2, FloorType DEF Activates
<1>6. Ordered(queue'.items, Floor, epochs')
  BY <1>1, <1>2, <1>5, OrderedPut, FloorType DEF OrderInvariant, TypeOK
<1>7. Floor <= epochs'
  BY <1>5, FloorType, <1>2 DEF OrderInvariant
<1> QED BY <1>3, <1>4, <1>6, <1>7 DEF OrderInvariant

\* A reset pauses the epoch, tells so, and empties the queue.
LEMMA PauseKeepsOrder ==
    ASSUME TypeOK, OrderInvariant, epoch' = 0, told' = ToldAfterPause, queue' = EmptyQueue,
           UNCHANGED <<pc, popped, lastEpoch, epochs>>
    PROVE  OrderInvariant'
<1>1. told' = 0
  BY DEF ToldAfterPause, OrderInvariant
<1>2. Floor' = Floor /\ (Handling' <=> Handling)
  BY DEF Floor, Handling
<1>3. queue'.items = <<>>
  BY DEF EmptyQueue
<1> QED BY <1>1, <1>2, <1>3, OrderedEmpty DEF OrderInvariant

LEMMA NetworkKeepsOrder == TypeOK /\ OrderInvariant /\ Network => OrderInvariant'
<1> SUFFICES ASSUME TypeOK, OrderInvariant, Network PROVE OrderInvariant'
  OBVIOUS
<1>1. ASSUME NEW failed \in Failing(holds), NetworkReset(failed)
      PROVE  OrderInvariant'
  BY <1>1, PauseKeepsOrder, EmitCases DEF NetworkReset, Reset, ReleaseAll
<1>2. CASE Stop
  BY <1>2, EmitCases DEF Stop, OrderInvariant, Floor, Handling, control
<1> QED BY <1>1, <1>2, ReceiveKeepsOrder
        DEF Network, ReceiveReset, OverloadReset, PeerChanged, SetConnected, StopReset

LEMMA PopKeepsOrder == TypeOK /\ OrderInvariant /\ Pop => OrderInvariant'
<1> SUFFICES ASSUME TypeOK, OrderInvariant, Pop PROVE OrderInvariant'
  OBVIOUS
<1>1. UNCHANGED <<epoch, lastEpoch, epochs>> /\ told' = told /\ ~Handling
  BY EmitCases DEF Pop, control, Handling
<1>2. Floor = lastEpoch
  BY <1>1 DEF Floor
<1>3. CASE pc' \in {"fail", "tick"}
  <2>1. ~Handling' /\ Floor' = lastEpoch
    BY <1>1, <1>3 DEF Handling, Floor
  <2>2. queue' = queue \/ queue'.items = <<>>
    BY <1>3 DEF Pop, FailedQueue
  <2> QED BY <1>1, <1>2, <2>1, <2>2, OrderedEmpty DEF OrderInvariant
<1>4. CASE pc' = "apply"
  <2>1. /\ queue.items # <<>> /\ queue' = Popped(queue)
        /\ popped' = Head(queue.items).event
    BY <1>4 DEF Pop
  <2>2. /\ Activates(popped') => lastEpoch < popped'.epoch /\ popped'.epoch <= epochs
        /\ Ordered(queue'.items, IF Activates(popped') THEN popped'.epoch ELSE lastEpoch,
                   epochs)
    BY <1>2, <2>1, OrderedPop, FloorType DEF OrderInvariant, TypeOK
  <2>3. /\ Handling' <=> Activates(popped')
        /\ Floor' = IF Activates(popped') THEN popped'.epoch ELSE lastEpoch
    BY <1>1, <1>4 DEF Handling, Floor, Activates
  <2> QED BY <1>1, <1>2, <2>2, <2>3 DEF OrderInvariant
<1> QED BY <1>3, <1>4 DEF Pop

\* What a step of the worker outside Pop can do to the epochs: end the one that is
\* active, or begin the one it handles and drop what waits behind it.
Decides ==
    /\ UNCHANGED epochs /\ pc' # "apply" /\ told' = epoch'
    /\ \/ /\ UNCHANGED lastEpoch /\ epoch' \in {0, epoch}
          /\ UNCHANGED queue \/ queue' = EmptyQueue
       \/ /\ Handling /\ epoch' = popped.epoch /\ lastEpoch' = popped.epoch
          /\ queue' = EmptyQueue

\* The floor falls back to the newest epoch, which the event's handling decides.
LEMMA DecideKeepsOrder ==
    ASSUME TypeOK, OrderInvariant, Decides PROVE OrderInvariant'
<1>1. ~Handling' /\ Floor' = lastEpoch'
  BY DEF Decides, Handling, Floor
<1>2. lastEpoch <= Floor /\ lastEpoch' <= Floor
  BY FloorType DEF Decides, OrderInvariant, Floor
<1>3. lastEpoch' \in Nat
  BY FloorType DEF Decides, Floor
<1>4. epoch' = 0 \/ epoch' = lastEpoch'
  BY DEF Decides, OrderInvariant
<1>5. Ordered(queue.items, lastEpoch', epochs)
  <2>1. \A x \in Items : x.event.epoch \in Int
    BY LimitsInNat DEF Items, Events
  <2>2. \A i \in 1 .. Len(queue.items) : queue.items[i].event.epoch \in Int
    <3>1. queue.items \in Seq(Items)
      BY DEF TypeOK, Queues, Items
    <3> QED BY <2>1, <3>1
  <2> QED BY <1>2, <1>3, <2>2, FloorType DEF OrderInvariant, Ordered
<1>6. Ordered(queue'.items, lastEpoch', epochs)
  BY <1>5, OrderedEmpty DEF Decides, EmptyQueue
<1>7. lastEpoch' <= epochs /\ UNCHANGED epochs
  BY <1>2, <1>3, FloorType DEF Decides, OrderInvariant
<1> QED BY <1>1, <1>4, <1>6, <1>7 DEF Decides, OrderInvariant

LEMMA ApplyDecides == TypeOK /\ OrderInvariant /\ Apply => Decides
<1> SUFFICES ASSUME TypeOK, OrderInvariant, Apply PROVE Decides
  OBVIOUS
<1>1. UNCHANGED epochs /\ pc = "apply" /\ pc' # "apply"
  BY DEF Apply
<1>2. told = epoch
  BY DEF OrderInvariant
<1>3. ToldAfterPause = 0
  BY <1>2 DEF ToldAfterPause
<1>4. CASE Ignore(popped) \/ RenewHold(popped)
           \/ MeasurePaused(popped) \/ Inject(popped) \/ InjectRaises(popped)
  <2>1. UNCHANGED <<epoch, lastEpoch, queue>> /\ told' = told
    BY <1>4, EmitCases DEF Ignore, RenewHold, MeasurePaused, Inject, InjectRaises,
                           KeepState, control
  <2> QED BY <1>1, <1>2, <2>1 DEF Decides
<1>5. CASE ExpireHold(popped) \/ RefuseKey(popped) \/ InjectStalls(popped)
  <2>1. epoch' = 0 /\ UNCHANGED lastEpoch /\ queue' = EmptyQueue /\ told' = 0
    BY <1>3, <1>5, EmitCases DEF ExpireHold, RefuseKey, InjectStalls, Reset, ReleaseAll
  <2> QED BY <1>1, <2>1, <1>2 DEF Decides
<1>6. CASE RejectStale(popped)
  <2>1. epoch' = 0 /\ UNCHANGED lastEpoch /\ queue' = EmptyQueue
    BY <1>6 DEF RejectStale, Reset, ReleaseAll
  <2>2. told' = 0
    BY <1>3, <1>6, EmitCases DEF RejectStale
  <2> QED BY <1>1, <2>1, <2>2, <1>2 DEF Decides
<1>7. CASE RefuseActivation(popped)
  <2>1. Handling
    BY <1>1, <1>7 DEF RefuseActivation, Handling, Activates
  <2>2. popped.epoch # epoch
    <3>1. popped.epoch \in Nat /\ lastEpoch < popped.epoch
      BY <2>1, FloorType DEF OrderInvariant, Floor
    <3>2. epoch = 0 \/ epoch = lastEpoch
      BY DEF OrderInvariant
    <3> QED BY <3>1, <3>2, FloorType
  <2>3. Emit(Silence, Message("paused", popped.epoch))
    BY <1>7 DEF RefuseActivation
  <2>4. told' = told
    BY <1>2, <2>2, <2>3, EmitCases
  <2>5. UNCHANGED <<epoch, lastEpoch, queue>>
    BY <1>7 DEF RefuseActivation, KeepState, control
  <2> QED BY <1>1, <1>2, <2>4, <2>5 DEF Decides
<1>8. CASE Activate(popped)
  <2>1. Handling
    BY <1>1, <1>8 DEF Activate, Handling, Activates
  <2>2. /\ epoch' = popped.epoch /\ lastEpoch' = popped.epoch /\ told' = popped.epoch
        /\ queue' = EmptyQueue
    BY <1>8, EmitCases DEF Activate, ReleaseAll
  <2> QED BY <1>1, <2>1, <2>2, <1>2 DEF Decides
<1> QED BY <1>4, <1>5, <1>6, <1>7, <1>8 DEF Apply, Completes

LEMMA TickDecides == OrderInvariant /\ Tick => Decides
<1> SUFFICES ASSUME OrderInvariant, Tick PROVE Decides
  OBVIOUS
<1>1. UNCHANGED <<lastEpoch, epochs>> /\ pc' # "apply"
  BY DEF Tick, TickPauses, TickRetries, TickIdles, Reset
<1>2. UNCHANGED queue \/ queue' = EmptyQueue
  BY DEF Tick, TickPauses, TickRetries, TickIdles, Reset, ReleaseAll
<1>3. told' = epoch' /\ epoch' \in {0, epoch}
  BY EmitCases DEF Tick, TickPauses, TickRetries, TickIdles, Reset, ToldAfterPause,
                   OrderInvariant
<1> QED BY <1>1, <1>2, <1>3 DEF Decides

LEMMA FailDecides == OrderInvariant /\ (Fail \/ Exit) => Decides
<1> SUFFICES ASSUME OrderInvariant, Fail \/ Exit PROVE Decides
  OBVIOUS
<1>1. /\ UNCHANGED <<lastEpoch, epochs>> /\ pc' # "apply"
      /\ epoch' = 0 /\ queue' = EmptyQueue /\ told' = ToldAfterPause
  BY EmitCases DEF Fail, Exit, Reset, ReleaseAll
<1>2. told' = 0
  BY <1>1 DEF ToldAfterPause, OrderInvariant
<1> QED BY <1>1, <1>2 DEF Decides

LEMMA OrderInvariantHolds == Spec => []OrderInvariant
<1>1. Init => OrderInvariant
  <2> SUFFICES ASSUME Init PROVE OrderInvariant
    OBVIOUS
  <2>1. queue.items = <<>> /\ Floor = 0 /\ ~Handling
    BY DEF Init, EmptyQueue, Floor, Handling
  <2> QED BY <2>1, OrderedEmpty DEF Init, OrderInvariant
<1>2. TypeOK /\ OrderInvariant /\ [Next]_vars => OrderInvariant'
  <2> SUFFICES ASSUME TypeOK, OrderInvariant, [Next]_vars PROVE OrderInvariant'
    OBVIOUS
  <2>1. CASE Tick \/ Apply \/ Fail \/ Exit
    BY <2>1, TickDecides, ApplyDecides, FailDecides, DecideKeepsOrder
  <2>2. CASE Advance \/ Recover \/ UNCHANGED vars
    <3>1. UNCHANGED <<pc, popped, epoch, lastEpoch, queue, epochs>> /\ told' = told
      BY <2>2, EmitCases DEF Advance, Recover, vars, control
    <3> QED BY <3>1 DEF OrderInvariant, Floor, Handling
  <2> QED BY <2>1, <2>2, NetworkKeepsOrder, PopKeepsOrder DEF Next, Worker
<1> QED BY <1>1, <1>2, EngineTypeCorrect, PTL DEF Spec

\* The emitted messages announce exactly the epoch the engine is in.
THEOREM ToldIsEpoch == Spec => []ToldEpoch
<1>1. OrderInvariant => ToldEpoch
  BY DEF OrderInvariant, ToldEpoch
<1> QED BY <1>1, OrderInvariantHolds, PTL

-------------------------------------------------------------------------------
\* The engine implements ControlSession: what its messages announce is a
\* session that begins at most once per epoch and in the order of the
\* offers.  The invariant is OrderInvariant again.  A step that
\* is neither the arrival nor the beginning of an activation recedes.

abstract == <<told, Offered, lastEpoch>>

\* The waiting activations alone.
Waiting(items) ==
    {items[i].event.epoch : i \in {j \in 1 .. Len(items) : Activates(items[j].event)}}

LEMMA OfferedIs == Offered = Waiting(queue.items) \cup (IF Handling THEN {popped.epoch} ELSE {})
  BY DEF Offered, Waiting

LEMMA WaitingEmpty == Waiting(<<>>) = {}
  BY DEF Waiting

\* Every waiting activation is newer than the floor and not newer than the ceiling.
LEMMA WaitingBounds ==
    ASSUME NEW q \in Queues, NEW floor, NEW ceiling, Ordered(q.items, floor, ceiling),
           NEW o \in Waiting(q.items)
    PROVE  o \in Int /\ floor < o /\ o <= ceiling
<1>1. PICK i \in 1 .. Len(q.items) : /\ Activates(q.items[i].event)
                                     /\ o = q.items[i].event.epoch
  BY DEF Waiting
<1> QED BY <1>1, EpochOf DEF Ordered

\* A put adds at most the new event to the activations that wait.
LEMMA WaitingPut ==
    ASSUME NEW q \in Queues, NEW e \in Events, NEW now \in 0 .. MaxClock
    PROVE  LET waiting == Waiting(Put(q, e, now).items)
           IN  \/ waiting \subseteq Waiting(q.items)
               \/ Activates(e) /\ waiting = Waiting(q.items) \cup {e.epoch}
<1> DEFINE items == Put(q, e, now).items
<1>1. q.items \in Seq(Items)
  BY DEF Queues, Items
<1>2. CASE items = <<>>
  BY <1>2, WaitingEmpty
<1>3. CASE /\ Len(items) = Len(q.items)
           /\ \A i \in 1 .. Len(items) :
                 Activates(items[i].event) => items[i] = q.items[i]
  <2> HIDE DEF items
  <2>1. ASSUME NEW o \in Waiting(items) PROVE o \in Waiting(q.items)
    <3>1. PICK i \in 1 .. Len(items) : Activates(items[i].event) /\ o = items[i].event.epoch
      BY DEF Waiting
    <3>2. i \in 1 .. Len(q.items) /\ Activates(q.items[i].event) /\ o = q.items[i].event.epoch
      BY <1>3, <3>1
    <3> QED BY <3>2 DEF Waiting
  <2>2. Waiting(items) \subseteq Waiting(q.items)
    BY <2>1
  <2> QED BY <2>2 DEF items
<1>4. CASE items = Append(q.items, [event |-> e, entered |-> now])
  <2>1. /\ Len(items) = Len(q.items) + 1 /\ Len(q.items) \in Nat
        /\ items[Len(q.items) + 1].event = e
        /\ \A i \in 1 .. Len(q.items) : items[i] = q.items[i]
    BY <1>1, <1>4
  <2> HIDE DEF items
  <2>2. ASSUME NEW o \in Waiting(items)
        PROVE  o \in Waiting(q.items) \/ (Activates(e) /\ o = e.epoch)
    <3>1. PICK i \in 1 .. Len(items) : Activates(items[i].event) /\ o = items[i].event.epoch
      BY DEF Waiting
    <3>2. i \in 1 .. Len(q.items) \/ i = Len(q.items) + 1
      BY <2>1
    <3>3. CASE i \in 1 .. Len(q.items)
      <4>1. Activates(q.items[i].event) /\ o = q.items[i].event.epoch
        BY <2>1, <3>1, <3>3
      <4> QED BY <3>3, <4>1 DEF Waiting
    <3>4. CASE i = Len(q.items) + 1
      BY <2>1, <3>1, <3>4
    <3> QED BY <3>2, <3>3, <3>4
  <2>3. ASSUME NEW o \in Waiting(q.items) PROVE o \in Waiting(items)
    <3>1. PICK i \in 1 .. Len(q.items) :
            Activates(q.items[i].event) /\ o = q.items[i].event.epoch
      BY DEF Waiting
    <3>2. i \in 1 .. Len(items) /\ items[i] = q.items[i]
      BY <2>1, <3>1
    <3> QED BY <3>1, <3>2 DEF Waiting
  <2>4. Activates(e) => e.epoch \in Waiting(items)
    <3>1. Len(q.items) + 1 \in 1 .. Len(items)
      BY <2>1
    <3> QED BY <2>1, <3>1 DEF Waiting
  <2>5. \/ Waiting(items) \subseteq Waiting(q.items)
        \/ Activates(e) /\ Waiting(items) = Waiting(q.items) \cup {e.epoch}
    BY <2>2, <2>3, <2>4
  <2> QED BY <2>5 DEF items
<1> HIDE DEF items
<1> QED BY <1>2, <1>3, <1>4, PutItems DEF items

\* A pop moves the oldest activation from the queue to the worker.
LEMMA WaitingPop ==
    ASSUME NEW q \in Queues, q.items # <<>>
    PROVE  LET e == Head(q.items).event
           IN  /\ Waiting(Popped(q).items) \subseteq Waiting(q.items)
               /\ Activates(e) => e.epoch \in Waiting(q.items)
<1>1. q.items \in Seq(Items)
  BY DEF Queues, Items
<1>2. /\ Head(q.items) = q.items[1] /\ 1 \in 1 .. Len(q.items)
      /\ Len(Tail(q.items)) = Len(q.items) - 1 /\ Len(q.items) \in Nat
      /\ \A i \in 1 .. Len(Tail(q.items)) : Tail(q.items)[i] = q.items[i + 1]
      /\ Popped(q).items = Tail(q.items)
  BY <1>1 DEF Popped, Queues
<1>3. ASSUME NEW o \in Waiting(Tail(q.items)) PROVE o \in Waiting(q.items)
  <2>1. PICK i \in 1 .. Len(Tail(q.items)) :
          Activates(Tail(q.items)[i].event) /\ o = Tail(q.items)[i].event.epoch
    BY DEF Waiting
  <2>2. i + 1 \in 1 .. Len(q.items) /\ Tail(q.items)[i] = q.items[i + 1]
    BY <1>2, <2>1
  <2> QED BY <2>1, <2>2 DEF Waiting
<1>4. Activates(Head(q.items).event) => Head(q.items).event.epoch \in Waiting(q.items)
  BY <1>2 DEF Waiting
<1> QED BY <1>2, <1>3, <1>4

-------------------------------------------------------------------------------

\* Nothing is offered that was not, and the session stays or ends.
LEMMA Recedes ==
    ASSUME told' \in {0, told}, UNCHANGED lastEpoch, Offered' \subseteq Offered
    PROVE  Session!Next
  BY DEF Session!Next, Session!Recede

\* Offers are only lost when the queue is kept or emptied and no event is popped.
LEMMA OffersKept ==
    ASSUME UNCHANGED queue \/ queue' = EmptyQueue,
           UNCHANGED <<pc, popped>> \/ pc' # "apply"
    PROVE  Offered' \subseteq Offered
<1>1. Waiting(queue'.items) \subseteq Waiting(queue.items)
  BY WaitingEmpty DEF EmptyQueue
<1>2. Handling' => Handling /\ popped' = popped
  BY DEF Handling
<1> QED BY <1>1, <1>2, OfferedIs DEF Offered, Waiting

LEMMA ReceiveImplements == TypeOK /\ OrderInvariant /\ ReceiveFrame => [Session!Next]_abstract
<1> SUFFICES ASSUME TypeOK, OrderInvariant, ReceiveFrame PROVE Session!Next
  OBVIOUS
<1>1. PICK f \in Frames : /\ queue' = Put(queue, f, clock)
                          /\ epochs' = IF f.op = "ACTIVATE" THEN f.epoch ELSE epochs
  BY DEF ReceiveFrame
<1>2. /\ f \in Events /\ (Activates(f) => f.epoch = epochs + 1)
      /\ queue \in Queues /\ clock \in 0 .. MaxClock
  BY FramesType DEF TypeOK, Activates
<1>3. UNCHANGED <<pc, popped, lastEpoch>> /\ told' = told
  BY EmitCases DEF ReceiveFrame, control
<1>4. (Handling' <=> Handling) /\ popped' = popped
  BY <1>3 DEF Handling
<1>5. CASE Waiting(queue'.items) \subseteq Waiting(queue.items)
  <2>1. Offered' \subseteq Offered
    BY <1>4, <1>5, OfferedIs DEF Offered, Waiting
  <2> QED BY <1>3, <2>1, Recedes
<1>6. CASE Activates(f) /\ Waiting(queue'.items) = Waiting(queue.items) \cup {f.epoch}
  <2>1. Offered' = Offered \cup {f.epoch}
    BY <1>4, <1>6, OfferedIs DEF Offered, Waiting
  <2>2. f.epoch \in 1 .. MaxEpoch
    BY <1>1, <1>2, <1>6, LimitsInNat, FloorType DEF Frames, Activates, TypeOK
  <2>3. f.epoch > lastEpoch
    BY <1>2, <1>6, FloorType DEF OrderInvariant, Floor
  <2>4. ASSUME NEW o \in Offered PROVE o < f.epoch
    <3>1. CASE o \in Waiting(queue.items)
      <4>1. Ordered(queue.items, Floor, epochs)
        BY DEF OrderInvariant
      <4>2. o \in Int /\ o <= epochs
        BY <1>2, <3>1, <4>1, WaitingBounds
      <4> QED BY <1>2, <1>6, <4>2, FloorType
    <3>2. CASE Handling /\ o = popped.epoch
      BY <1>2, <1>6, <3>2, FloorType DEF OrderInvariant, Floor
    <3> QED BY <3>1, <3>2, OfferedIs
  <2> QED BY <1>3, <2>1, <2>2, <2>3, <2>4 DEF Session!Next, Session!Offer
<1> QED BY <1>1, <1>2, <1>5, <1>6, WaitingPut

LEMMA NetworkImplements == TypeOK /\ OrderInvariant /\ Network => [Session!Next]_abstract
<1> SUFFICES ASSUME TypeOK, OrderInvariant, Network PROVE [Session!Next]_abstract
  OBVIOUS
<1>1. ASSUME NEW failed \in Failing(holds), NetworkReset(failed)
      PROVE  Session!Next
  <2>1. /\ UNCHANGED <<pc, popped, lastEpoch>> /\ queue' = EmptyQueue
        /\ told' = ToldAfterPause
    BY <1>1, EmitCases DEF NetworkReset, Reset, ReleaseAll
  <2>2. told' = 0
    BY <2>1 DEF ToldAfterPause, OrderInvariant
  <2> QED BY <2>1, <2>2, OffersKept, Recedes
<1>2. CASE Stop
  <2>1. UNCHANGED <<pc, popped, lastEpoch, queue>> /\ told' = told
    BY <1>2, EmitCases DEF Stop, control
  <2> QED BY <2>1, OffersKept, Recedes
<1> QED BY <1>1, <1>2, ReceiveImplements
        DEF Network, ReceiveReset, OverloadReset, PeerChanged, SetConnected, StopReset

LEMMA PopImplements == TypeOK /\ OrderInvariant /\ Pop => Session!Next
<1> SUFFICES ASSUME TypeOK, OrderInvariant, Pop PROVE Session!Next
  OBVIOUS
<1>1. UNCHANGED lastEpoch /\ told' = told
  BY EmitCases DEF Pop, control
<1>2. CASE pc' \in {"fail", "tick"}
  <2>1. ~Handling' /\ Waiting(queue'.items) \subseteq Waiting(queue.items)
    BY <1>2, WaitingEmpty DEF Handling, Pop, FailedQueue
  <2>2. Offered' \subseteq Offered
    BY <2>1, OfferedIs DEF Offered, Waiting
  <2> QED BY <1>1, <2>2, Recedes
<1>3. CASE pc' = "apply"
  <2>1. /\ queue.items # <<>> /\ queue' = Popped(queue)
        /\ popped' = Head(queue.items).event /\ queue \in Queues
    BY <1>3 DEF Pop, TypeOK
  <2>2. /\ Waiting(queue'.items) \subseteq Waiting(queue.items)
        /\ Handling' => popped'.epoch \in Waiting(queue.items)
    BY <2>1, WaitingPop DEF Handling
  <2>3. Offered' \subseteq Offered
    BY <2>2, OfferedIs DEF Offered, Waiting
  <2> QED BY <1>1, <2>3, Recedes
<1> QED BY <1>2, <1>3 DEF Pop

LEMMA DecideImplements == TypeOK /\ OrderInvariant /\ Decides => Session!Next
<1> SUFFICES ASSUME TypeOK, OrderInvariant, Decides PROVE Session!Next
  OBVIOUS
<1>1. CASE /\ UNCHANGED lastEpoch /\ epoch' \in {0, epoch}
           /\ UNCHANGED queue \/ queue' = EmptyQueue
  <2>1. told' \in {0, told} /\ pc' # "apply"
    BY <1>1 DEF Decides, OrderInvariant
  <2> QED BY <1>1, <2>1, OffersKept, Recedes
<1>2. CASE /\ Handling /\ epoch' = popped.epoch /\ lastEpoch' = popped.epoch
           /\ queue' = EmptyQueue
  <2>1. told' = popped.epoch /\ ~Handling'
    BY <1>2 DEF Decides, Handling
  <2>2. popped.epoch \in Offered
    BY <1>2, OfferedIs
  <2>3. Offered' = {}
    BY <1>2, <2>1 DEF Offered, EmptyQueue
  <2>4. ASSUME NEW o \in Offered PROVE popped.epoch <= o
    <3>1. CASE o \in Waiting(queue.items)
      <4>1. o \in Int /\ popped.epoch < o
        BY <1>2, <3>1, WaitingBounds DEF OrderInvariant, Floor, TypeOK
      <4> QED BY <1>2, <4>1, FloorType DEF Floor
    <3>2. CASE o = popped.epoch
      BY <1>2, <3>2, FloorType DEF Floor
    <3> QED BY <1>2, <3>1, <3>2, OfferedIs
  <2> QED BY <1>2, <2>1, <2>2, <2>3, <2>4 DEF Session!Next, Session!Begin
<1> QED BY <1>1, <1>2 DEF Decides

\* TargetEngine.process_one, receive and reset: an activation that waits, that was
\* popped before a reset or that a refusal answers never brings back an epoch that
\* ended, and the controller is told of exactly the sessions that begin.
THEOREM EngineImplementsSession == Spec => ImplementsSession
<1>1. Init => Session!Init
  <2> SUFFICES ASSUME Init PROVE Session!Init
    OBVIOUS
  <2>1. Offered = {}
    BY DEF Init, EmptyQueue, Offered, Handling
  <2> QED BY <2>1 DEF Init, Session!Init
<1>2. TypeOK /\ OrderInvariant /\ [Next]_vars => [Session!Next]_abstract
  <2> SUFFICES ASSUME TypeOK, OrderInvariant, [Next]_vars PROVE [Session!Next]_abstract
    OBVIOUS
  <2>1. CASE Tick \/ Apply \/ Fail \/ Exit
    BY <2>1, TickDecides, ApplyDecides, FailDecides, DecideImplements
  <2>2. CASE Advance \/ Recover \/ UNCHANGED vars
    <3>1. UNCHANGED <<pc, popped, lastEpoch, queue>> /\ told' = told
      BY <2>2, EmitCases DEF Advance, Recover, vars, control
    <3> QED BY <3>1, OffersKept, Recedes
  <2> QED BY <2>1, <2>2, NetworkImplements, PopImplements DEF Next, Worker
<1> QED BY <1>1, <1>2, EngineTypeCorrect, OrderInvariantHolds, PTL
        DEF Spec, ImplementsSession, Session!Spec, abstract
===============================================================================
