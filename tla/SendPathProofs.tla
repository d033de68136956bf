---------------------------- MODULE SendPathProofs ----------------------------
(***************************************************************************)
(* Proofs about the way of an input from the hook thread to the socket,    *)
(* for any limits of the two queues, any moves, and any number of inputs,  *)
(* activations and connections.                                            *)
(*                                                                         *)
(* The safety properties rest on five invariants: the types, where the     *)
(* newest epoch is while the loop takes it up (TakingInv), the order of    *)
(* resets and inputs in the outbox (OrderInv), the emptiness of what comes *)
(* before an epoch (EpochInv), and what is under way in it (WayInv).  The  *)
(* last is stated with functions of the sequences alone, so that what a    *)
(* step does to them is a lemma about sequences without primes.            *)
(***************************************************************************)
EXTENDS SendPath, SequenceTheorems, TLAPS

Ticks == 0 .. MaxClock
Inputs == [op : InputOps, epoch : Nat, move : -MaxMove .. MaxMove, seq : Nat]
Frames == Inputs \cup [op : {"ACTIVATE", "RESET"}, epoch : Nat, move : {0}, seq : {0}]

InputItems == [event : Inputs, entered : Ticks]
FrameItems == [event : Frames, entered : Ticks]
Queues == [items : Seq(InputItems), failed : BOOLEAN]
Boxes == [items : Seq(FrameItems), failed : BOOLEAN]

\* The type invariant, with the types of the two queues; no frame of an activation that
\* was not attempted waits in the outbox.
Typed ==
    /\ clock \in Ticks /\ connected \in BOOLEAN /\ ready \in BOOLEAN /\ boxReady \in BOOLEAN
    /\ epochs \in 0 .. MaxEpoch /\ resets \in Nat
    /\ epoch \in 0 .. epochs /\ pending \in 0 .. epochs /\ checked \in 0 .. epochs
    /\ begun \in 0 .. epochs /\ stopped \in 0 .. epochs /\ ended \in 0 .. epochs
    /\ loaded \in 0 .. epochs /\ answered \in 0 .. epochs /\ revived \subseteq 1 .. epochs
    /\ queue \in Queues /\ Len(queue.items) <= QueueLimit
    /\ outbox \in Boxes /\ Len(outbox.items) <= OutboxLimit
    /\ \A i \in 1 .. Len(outbox.items) : outbox.items[i].event.epoch <= epochs
    /\ hook \in {"idle", "put", "stop", "stop_pending", "stop_queue", "stop_schedule"}
    /\ loop \in {"run", "load", "take", "taken"}
    /\ sender \in {"off", "start", "drain", "overload", "wait"}
    /\ writer \in {"off", "start", "drain", "wait", "dead"}
    /\ Len(offered) \in Nat

-------------------------------------------------------------------------------
\* The two queues.

LEMMA Limits ==
    /\ MaxMove \in Nat /\ QueueLimit \in Nat \ {0} /\ OutboxLimit \in Nat \ {0}
    /\ MaxQueueAge \in Nat /\ MaxClock \in Nat /\ MaxOffers \in Nat /\ MaxEpoch \in Nat
    /\ MaxResets \in Nat
    /\ Moves \subseteq -MaxMove .. MaxMove
    /\ "ACTIVATE" \notin InputOps /\ "RESET" \notin InputOps
  BY ConfigAssumption, MoveAssumption, OutboxAssumption, SendAssumption
     DEF ConfigAssumption, MoveAssumption, OutboxAssumption, SendAssumption

LEMMA Empties ==
    /\ EmptyQueue \in Queues /\ FailedQueue \in Queues
    /\ NewOutbox \in Boxes /\ FailedQueue \in Boxes
    /\ EmptyQueue.items = <<>> /\ FailedQueue.items = <<>> /\ NewOutbox.items = <<>>
    /\ ~EmptyQueue.failed /\ FailedQueue.failed /\ ~NewOutbox.failed
    /\ Len(<<>>) = 0
<1>1. <<>> \in Seq(InputItems) /\ <<>> \in Seq(FrameItems) /\ Len(<<>>) = 0
  BY EmptySeq
<1>. QED BY <1>1 DEF EmptyQueue, FailedQueue, NewOutbox, Queues, Boxes

\* A put, whether it coalesces, appends or fails, keeps the queue within its limit and
\* every movement within the range that the wire allows.
LEMMA PutKeeps ==
    ASSUME NEW q \in Queues, Len(q.items) <= QueueLimit, NEW e \in Inputs, NEW now \in Ticks
    PROVE  Put(q, e, now) \in Queues /\ Len(Put(q, e, now).items) <= QueueLimit
<1>1. q.items \in Seq(InputItems) /\ q.failed \in BOOLEAN /\ Len(q.items) \in Nat
  BY LenProperties DEF Queues
<1>2. Len(FailedQueue.items) <= QueueLimit BY Limits, Empties
<1>3. CASE Put(q, e, now) = FailedQueue BY <1>2, <1>3, Empties
<1>4. CASE Adjacent(q, e) /\ Put(q, e, now) # FailedQueue
  <2>. DEFINE n == Len(q.items)
              c == Coalesced(q, e, now)
              items == [q.items EXCEPT ![n] = c]
  <2>1. /\ Put(q, e, now) = [q EXCEPT !.items[Len(q.items)] = c]
        /\ ~TooFar(Merged(q, e).move)
    BY <1>4 DEF Put
  <2>2. n \in 1 .. Len(q.items) BY <1>1, <1>4, EmptySeq DEF Adjacent
  <2>3. q.items[n] \in InputItems BY <1>1, <2>2, ElementOfSeq
  <2>4. /\ q.items[n].event.move \in -MaxMove .. MaxMove /\ q.items[n].entered \in Ticks
        /\ e.move \in -MaxMove .. MaxMove
    BY <2>3 DEF InputItems, Inputs
  <2>5. q.items[n].event.move + e.move \in Int BY <2>4, Limits
  <2>6. Merged(q, e) = [e EXCEPT !.move = q.items[n].event.move + e.move]
    BY DEF Merged, LastItem
  <2>7. Merged(q, e).move = q.items[n].event.move + e.move BY <2>6 DEF Inputs
  <2>8. q.items[n].event.move + e.move \in -MaxMove .. MaxMove
    BY <2>1, <2>5, <2>7, Limits DEF TooFar
  <2>9. Merged(q, e) \in Inputs BY <2>6, <2>8 DEF Inputs
  <2>10. c \in InputItems BY <2>4, <2>9 DEF Coalesced, Arrival, LastItem, InputItems
  <2>11. items \in Seq(InputItems) /\ Len(items) = Len(q.items)
    BY <1>1, <2>2, <2>10, ExceptSeq
  <2>12. Put(q, e, now) = [q EXCEPT !.items = items] BY <2>1
  <2>. QED BY <1>1, <2>11, <2>12 DEF Queues
<1>5. CASE ~Adjacent(q, e) /\ Put(q, e, now) # FailedQueue
  <2>. DEFINE item == [event |-> e, entered |-> now]
  <2>1. Put(q, e, now) = [q EXCEPT !.items = Append(q.items, item)] /\ Len(q.items) < QueueLimit
    BY <1>1, <1>5, Limits DEF Put, Overflowed
  <2>2. item \in InputItems BY DEF InputItems
  <2>3. Append(q.items, item) \in Seq(InputItems)
        /\ Len(Append(q.items, item)) = Len(q.items) + 1
    BY <1>1, <2>2, AppendProperties
  <2>4. Len(q.items) + 1 <= QueueLimit BY <1>1, <2>1, Limits
  <2>. QED BY <1>1, <2>1, <2>3, <2>4 DEF Queues
<1>. QED BY <1>3, <1>4, <1>5

\* What leaves and what stays in the input queue.
LEMMA QueueHead ==
    ASSUME NEW q \in Queues, Len(q.items) <= QueueLimit, q.items # <<>>
    PROVE  /\ Popped(q) \in Queues /\ Len(Popped(q).items) <= QueueLimit
           /\ Head(q.items).event \in Inputs
<1>1. q.items \in Seq(InputItems) /\ Len(q.items) \in Nat
  BY LenProperties DEF Queues
<1>2. /\ Head(q.items) \in InputItems /\ Tail(q.items) \in Seq(InputItems)
      /\ Len(Tail(q.items)) = Len(q.items) - 1
  BY <1>1, HeadTailProperties
<1>3. Len(Tail(q.items)) <= QueueLimit BY <1>1, <1>2, Limits
<1>. QED BY <1>1, <1>2, <1>3 DEF Popped, Queues, InputItems

\* The same for the outbox, whose other items move up.
LEMMA BoxHead ==
    ASSUME NEW box \in Boxes, Len(box.items) <= OutboxLimit, box.items # <<>>
    PROVE  /\ Popped(box) \in Boxes /\ Len(Popped(box).items) <= OutboxLimit
           /\ Len(box.items) \in Nat \ {0}
           /\ Len(Popped(box).items) = Len(box.items) - 1
           /\ Head(box.items) = box.items[1] /\ Head(box.items).event \in Frames
           /\ \A i \in 1 .. Len(Popped(box).items) : Popped(box).items[i] = box.items[i + 1]
<1>1. box.items \in Seq(FrameItems) /\ Len(box.items) \in Nat \ {0}
  BY LenProperties, EmptySeq DEF Boxes
<1>2. /\ Head(box.items) \in FrameItems /\ Tail(box.items) \in Seq(FrameItems)
      /\ Head(box.items) = box.items[1]
      /\ Len(Tail(box.items)) = Len(box.items) - 1
      /\ \A i \in 1 .. Len(Tail(box.items)) : Tail(box.items)[i] = box.items[i + 1]
  BY <1>1, HeadTailProperties
<1>3. Popped(box).items = Tail(box.items) /\ Popped(box) \in Boxes
  BY <1>2 DEF Popped, Boxes
<1>. QED BY <1>1, <1>2, <1>3, Limits DEF FrameItems

\* A frame enters the outbox behind all others, or the outbox is left as it was, or
\* fails and loses what it held.
LEMMA BoxedCases ==
    ASSUME NEW box \in Boxes, Len(box.items) <= OutboxLimit, NEW f \in Frames, NEW now \in Ticks
    PROVE  /\ Boxed(box, f, now) \in Boxes /\ Len(Boxed(box, f, now).items) <= OutboxLimit
           /\ \/ Boxed(box, f, now).items = <<>>
              \/ Boxed(box, f, now) = box
              \/ /\ Len(Boxed(box, f, now).items) = Len(box.items) + 1 /\ Len(box.items) \in Nat
                 /\ Boxed(box, f, now).items[Len(box.items) + 1].event = f
                 /\ \A i \in 1 .. Len(box.items) : Boxed(box, f, now).items[i] = box.items[i]
<1>. DEFINE item == [event |-> f, entered |-> now]
<1>1. box.items \in Seq(FrameItems) /\ Len(box.items) \in Nat /\ item \in FrameItems
  BY LenProperties DEF Boxes, FrameItems
<1>2. CASE BoxFull(box)
  BY <1>2, Empties, Limits DEF Boxed, BoxOverflowed
<1>3. CASE ~BoxFull(box) /\ box.failed BY <1>3 DEF Boxed
<1>4. CASE ~BoxFull(box) /\ ~box.failed
  <2>1. /\ Append(box.items, item) \in Seq(FrameItems)
        /\ Len(Append(box.items, item)) = Len(box.items) + 1
        /\ Append(box.items, item)[Len(box.items) + 1] = item
        /\ \A i \in 1 .. Len(box.items) : Append(box.items, item)[i] = box.items[i]
    BY <1>1, AppendProperties
  <2>2. Boxed(box, f, now) = [box EXCEPT !.items = Append(box.items, item)]
    BY <1>4 DEF Boxed
  <2>3. Boxed(box, f, now).items = Append(box.items, item) /\ Boxed(box, f, now) \in Boxes
    BY <2>1, <2>2 DEF Boxes
  <2>4. Len(box.items) < OutboxLimit BY <1>1, <1>4, Limits DEF BoxFull
  <2>. QED BY <1>1, <2>1, <2>3, <2>4, Limits
<1>. QED BY <1>2, <1>3, <1>4

-------------------------------------------------------------------------------
\* Types.

LEMMA TypedStarts == Init => Typed
<1>. SUFFICES ASSUME Init PROVE Typed OBVIOUS
<1>1. Len(queue.items) = 0 /\ Len(outbox.items) = 0 /\ Len(offered) = 0
  BY Empties DEF Init
<1>2. \A i \in 1 .. Len(outbox.items) : outbox.items[i].event.epoch <= epochs
  BY <1>1
<1>3. queue \in Queues /\ outbox \in Boxes BY Empties DEF Init
<1>4. clock \in Ticks /\ epochs \in 0 .. MaxEpoch /\ 0 \in 0 .. epochs
  BY Limits DEF Init, Ticks
<1>5. /\ epoch \in 0 .. epochs /\ pending \in 0 .. epochs /\ checked \in 0 .. epochs
      /\ begun \in 0 .. epochs /\ stopped \in 0 .. epochs /\ ended \in 0 .. epochs
      /\ loaded \in 0 .. epochs /\ answered \in 0 .. epochs /\ revived \subseteq 1 .. epochs
      /\ resets \in Nat /\ connected \in BOOLEAN /\ ready \in BOOLEAN
      /\ boxReady \in BOOLEAN /\ hook = "idle" /\ loop = "run" /\ sender = "off" /\ writer = "off"
  BY <1>4 DEF Init
<1>6. /\ Len(queue.items) <= QueueLimit /\ Len(outbox.items) <= OutboxLimit
      /\ Len(offered) \in Nat
  BY <1>1, Limits
<1>. QED BY <1>2, <1>3, <1>4, <1>5, <1>6 DEF Typed

\* A stop on the loop.
LEMMA StopType ==
    ASSUME Typed, StopControl
    PROVE  /\ clock' = clock /\ connected' = connected
           /\ UNCHANGED <<wakes, taking, epochs, begun, ended, answered, revived>>
           /\ resets' \in Nat /\ epoch' \in 0 .. epochs /\ pending' \in 0 .. epochs
           /\ stopped' \in 0 .. epochs /\ stopped' >= stopped
           /\ queue' \in Queues /\ Len(queue'.items) <= QueueLimit
           /\ outbox' = outbox /\ Len(offered') \in Nat
<1>1. Len(queue'.items) = 0 /\ Len(offered') = 0 BY Empties DEF StopControl
<1>. QED BY <1>1, Empties, Limits DEF StopControl, Stopped, Typed

\* A line of a stop on the hook thread.
LEMMA HookStopType == Typed /\ (StopEpoch \/ HookStops) => Typed'
<1>. SUFFICES ASSUME Typed, StopEpoch \/ HookStops PROVE Typed' OBVIOUS
<1>1. UNCHANGED <<clock, connected, outbox, checked, loop, loaded, sender, writer, ready,
                  boxReady, epochs, begun, ended, answered, revived>>
  BY DEF StopEpoch, HookStops, StopPending, StopQueue, StopSchedule, KeepLoop, taking, wakes
<1>2. /\ epoch' \in 0 .. epochs /\ pending' \in 0 .. epochs /\ stopped' \in 0 .. epochs
      /\ resets' \in Nat
  <2>1. /\ epoch' \in {0, epoch} /\ pending' \in {0, pending}
        /\ stopped' \in {stopped, epochs} /\ resets' \in {resets, resets + 1}
    BY DEF StopEpoch, HookStops, StopPending, StopQueue, StopSchedule, Stopped
  <2>2. /\ epoch \in 0 .. epochs /\ pending \in 0 .. epochs /\ stopped \in 0 .. epochs
        /\ epochs \in Nat /\ resets \in Nat
    BY DEF Typed
  <2>. QED BY <2>1, <2>2
<1>3. hook' \in {"idle", "stop_pending", "stop_queue", "stop_schedule"}
  BY DEF StopEpoch, HookStops, StopPending, StopQueue, StopSchedule
<1>4. queue' \in Queues /\ Len(queue'.items) <= QueueLimit
  <2>1. Len(EmptyQueue.items) = 0 BY Empties
  <2>2. queue' = queue \/ queue' = EmptyQueue
    BY DEF StopEpoch, HookStops, StopPending, StopQueue, StopSchedule
  <2>. QED BY <2>1, <2>2, Empties, Limits DEF Typed
<1>5. Len(offered') \in Nat
  BY Empties DEF StopEpoch, HookStops, StopPending, StopQueue, StopSchedule, inputs, Typed
<1>. QED BY <1>1, <1>2, <1>3, <1>4, <1>5 DEF Typed

\* A frame of an activation that was attempted, by then, enters the outbox.
LEMMA SendType ==
    ASSUME Typed, NEW f \in Frames, f.epoch <= epochs', epochs' \in Nat, epochs <= epochs',
           SendOut(f)
    PROVE  /\ outbox' \in Boxes /\ Len(outbox'.items) <= OutboxLimit
           /\ \A i \in 1 .. Len(outbox'.items) : outbox'.items[i].event.epoch <= epochs'
           /\ boxReady' \in BOOLEAN
<1>1. boxReady' \in BOOLEAN BY DEF SendOut
<1>2. outbox' = Boxed(outbox, f, clock) BY DEF SendOut
<1>3. outbox' \in Boxes /\ Len(outbox'.items) <= OutboxLimit
  BY <1>2, BoxedCases DEF Typed
<1>4. ASSUME NEW i \in 1 .. Len(outbox'.items) PROVE outbox'.items[i].event.epoch <= epochs'
  <2>1. \A j \in 1 .. Len(outbox.items) : outbox.items[j].event.epoch <= epochs'
    <3>. TAKE j \in 1 .. Len(outbox.items)
    <3>1. outbox.items[j].event.epoch <= epochs BY DEF Typed
    <3>2. outbox.items \in Seq(FrameItems) BY DEF Typed, Boxes
    <3>3. outbox.items[j] \in FrameItems BY <3>2, ElementOfSeq
    <3>4. outbox.items[j].event.epoch \in Nat BY <3>3 DEF FrameItems, Frames, Inputs
    <3>5. epochs \in Nat BY DEF Typed
    <3>. QED BY <3>1, <3>4, <3>5
  <2>2. CASE outbox'.items = <<>> BY <1>4, <2>2, Empties
  <2>3. CASE outbox' = outbox BY <1>4, <2>1, <2>3
  <2>4. CASE /\ Len(outbox'.items) = Len(outbox.items) + 1 /\ Len(outbox.items) \in Nat
             /\ outbox'.items[Len(outbox.items) + 1].event = f
             /\ \A j \in 1 .. Len(outbox.items) : outbox'.items[j] = outbox.items[j]
    <3>1. i \in 1 .. Len(outbox.items) \/ i = Len(outbox.items) + 1 BY <1>4, <2>4
    <3>. QED BY <2>1, <2>4, <3>1
  <2>. QED BY <1>2, <2>2, <2>3, <2>4, BoxedCases DEF Typed
<1>. QED BY <1>1, <1>3, <1>4

LEMMA PutInputType == Typed /\ PutInput => Typed'
<1>. SUFFICES ASSUME Typed, PutInput PROVE Typed' OBVIOUS
<1>1. PICK op \in InputOps, move \in Moves, read \in {checked, epoch} :
         LET event == [op |-> op, epoch |-> read, seq |-> Len(offered) + 1,
                       move |-> IF op = "MOVE" THEN move ELSE 0]
         IN  /\ queue' = Put(queue, event, clock)
             /\ ready' = (ready \/ Wakes(queue, event, clock))
             /\ offered' = IF epoch # 0 /\ read = epoch
                           THEN Append(offered, [event |-> event, arrived |-> clock,
                                                 way |-> Way(Len(offered)) + event.move])
                           ELSE offered
  BY DEF PutInput
<1>. DEFINE event == [op |-> op, epoch |-> read, seq |-> Len(offered) + 1,
                      move |-> IF op = "MOVE" THEN move ELSE 0]
<1>2. event \in Inputs
  <2>1. checked \in Nat /\ epoch \in Nat /\ Len(offered) \in Nat BY DEF Typed
  <2>. QED BY <2>1, Limits DEF Inputs
<1>3. queue' \in Queues /\ Len(queue'.items) <= QueueLimit
  BY <1>1, <1>2, PutKeeps DEF Typed
<1>4. ready' \in BOOLEAN BY <1>1
<1>5. Len(offered') \in Nat
  <2>1. CASE offered' = offered BY <2>1 DEF Typed
  <2>2. CASE \E e : offered' = Append(offered, e) BY <2>2 DEF Typed
  <2>. QED BY <1>1, <2>1, <2>2
<1>6. /\ UNCHANGED <<clock, connected, epoch, pending, outbox, resets, sender, writer,
                     boxReady, epochs, begun, stopped, ended>>
      /\ hook' \in {"idle", "stop"} /\ checked' = 0
  BY DEF PutInput, marks
<1>7. UNCHANGED <<loop, loaded, answered, revived>> BY DEF PutInput, marks, taking
<1>. QED BY <1>3, <1>4, <1>5, <1>6, <1>7 DEF Typed

LEMMA HookKeepsType == Typed /\ Hook => Typed'
<1>. SUFFICES ASSUME Typed, Hook PROVE Typed' OBVIOUS
<1>1. CASE Enqueue BY <1>1 DEF Enqueue, Typed, session, taking, wakes, marks, inputs
<1>2. CASE PutInput BY <1>2, PutInputType
<1>. QED BY <1>1, <1>2, HookStopType DEF Hook

LEMMA SenderKeepsType == Typed /\ Sender => Typed'
<1>. SUFFICES ASSUME Typed, Sender PROVE Typed' OBVIOUS
<1>1. CASE SenderStarts
  BY <1>1 DEF SenderStarts, Typed, session, taking, marks, inputs
<1>2. CASE SenderPops
  <2>1. /\ UNCHANGED <<clock, connected, epoch, pending, resets, hook, checked, writer, ready,
                       loop, loaded, epochs, begun, stopped, ended, answered, revived, offered>>
        /\ sender' \in {"overload", "wait", "drain"}
    BY <1>2 DEF SenderPops, taking, marks, inputs
  <2>2. CASE queue' = FailedQueue /\ UNCHANGED <<outbox, boxReady>>
    <3>1. Len(queue'.items) <= QueueLimit BY <2>2, Empties, Limits
    <3>. QED BY <2>1, <2>2, <3>1, Empties DEF Typed
  <2>3. CASE UNCHANGED <<queue, outbox, boxReady>> BY <2>1, <2>3 DEF Typed
  <2>4. CASE /\ queue.items # <<>> /\ queue' = Popped(queue)
             /\ IF Passes(Head(queue.items).event)
                THEN SendOut(Head(queue.items).event) ELSE UNCHANGED <<outbox, boxReady>>
    <3>. DEFINE e == Head(queue.items).event
    <3>1. queue' \in Queues /\ Len(queue'.items) <= QueueLimit /\ e \in Inputs
      BY <2>4, QueueHead DEF Typed
    <3>2. CASE Passes(e)
      <4>1. e.epoch <= epochs' /\ epochs' \in Nat /\ epochs <= epochs'
        BY <2>1, <3>2 DEF Passes, Typed
      <4>2. e \in Frames BY <3>1 DEF Frames
      <4>3. SendOut(e) BY <2>4, <3>2
      <4>4. /\ outbox' \in Boxes /\ Len(outbox'.items) <= OutboxLimit
            /\ \A i \in 1 .. Len(outbox'.items) : outbox'.items[i].event.epoch <= epochs'
            /\ boxReady' \in BOOLEAN
        BY <4>1, <4>2, <4>3, SendType
      <4>. QED BY <2>1, <3>1, <4>4 DEF Typed
    <3>3. CASE ~Passes(e) BY <2>1, <2>4, <3>1, <3>3 DEF Typed
    <3>. QED BY <3>2, <3>3
  <2>. QED BY <1>2, <2>2, <2>3, <2>4 DEF SenderPops
<1>3. CASE SenderStops
  <2>1. StopControl /\ UNCHANGED <<hook, checked, writer>> /\ sender' = "wait"
    BY <1>3 DEF SenderStops
  <2>2. UNCHANGED <<clock, connected, loop, loaded, ready, boxReady, epochs, begun, ended,
                    answered, revived, outbox>>
    BY <2>1, StopType DEF taking, wakes
  <2>3. /\ resets' \in Nat /\ epoch' \in 0 .. epochs /\ pending' \in 0 .. epochs
        /\ stopped' \in 0 .. epochs /\ Len(offered') \in Nat
        /\ queue' \in Queues /\ Len(queue'.items) <= QueueLimit
    BY <2>1, StopType
  <2>. QED BY <2>1, <2>2, <2>3 DEF Typed
<1>. QED BY <1>1, <1>2, <1>3 DEF Sender

LEMMA WriterKeepsType == Typed /\ Writer => Typed'
<1>. SUFFICES ASSUME Typed, Writer PROVE Typed' OBVIOUS
<1>1. CASE WriterStarts
  BY <1>1 DEF WriterStarts, Typed, session, taking, marks, inputs
<1>2. CASE WriterSends
  <2>. DEFINE frame == Head(outbox.items).event
  <2>1. outbox.items # <<>> /\ outbox' = Popped(outbox) BY <1>2 DEF WriterSends
  <2>2. /\ outbox' \in Boxes /\ Len(outbox'.items) <= OutboxLimit
        /\ Len(outbox.items) \in Nat \ {0} /\ Len(outbox'.items) = Len(outbox.items) - 1
        /\ Head(outbox.items) = outbox.items[1] /\ frame \in Frames
        /\ \A i \in 1 .. Len(outbox'.items) : outbox'.items[i] = outbox.items[i + 1]
    BY <2>1, BoxHead DEF Typed
  <2>3. \A i \in 1 .. Len(outbox'.items) : i + 1 \in 1 .. Len(outbox.items) BY <2>2
  <2>4. \A i \in 1 .. Len(outbox'.items) : outbox'.items[i].event.epoch <= epochs
    BY <2>2, <2>3 DEF Typed
  <2>5. frame.epoch <= epochs /\ frame.epoch \in Nat
    <3>1. 1 \in 1 .. Len(outbox.items) BY <2>2
    <3>2. outbox.items[1].event.epoch <= epochs BY <3>1 DEF Typed
    <3>3. frame \in Frames BY <2>2
    <3>. HIDE DEF frame
    <3>4. frame.epoch \in Nat BY <3>3 DEF Frames, Inputs
    <3>. QED BY <2>2, <3>2, <3>4 DEF frame
  <2>6. frame.epoch \in 0 .. epochs BY <2>5 DEF Typed
  <2>7. begun' \in 0 .. epochs /\ ended' \in 0 .. epochs
    BY <1>2, <2>6 DEF WriterSends, Typed
  <2>8. UNCHANGED <<clock, connected, epoch, pending, queue, resets, hook, checked, loop, loaded,
                    sender, writer, ready, boxReady, epochs, stopped, answered, revived, offered>>
    BY <1>2 DEF WriterSends, taking, wakes
  <2>. QED BY <2>2, <2>4, <2>7, <2>8 DEF Typed
<1>3. CASE WriterSleeps
  BY <1>3 DEF WriterSleeps, Typed, session, taking, wakes, marks, inputs
<1>4. CASE WriterFails
  BY <1>4 DEF WriterFails, Typed, session, taking, wakes, marks, inputs
<1>. QED BY <1>1, <1>2, <1>3, <1>4 DEF Writer

LEMMA FrameType ==
    ASSUME NEW op \in {"ACTIVATE", "RESET"}, NEW e \in Nat
    PROVE  Frame(op, e) \in Frames /\ Frame(op, e).epoch = e /\ Frame(op, e).op = op
  BY DEF Frame, Frames

LEMMA LoopKeepsType == Typed /\ Loop => Typed'
<1>. SUFFICES ASSUME Typed, Loop PROVE Typed' OBVIOUS
<1>1. CASE Activate
  <2>. DEFINE f == Frame("ACTIVATE", epochs + 1)
  <2>1. epochs \in Nat /\ epochs + 1 \in Nat /\ epochs + 1 <= MaxEpoch
    BY <1>1, Limits DEF Activate, Typed
  <2>2. f \in Frames /\ f.epoch = epochs + 1 BY <2>1, FrameType
  <2>3. /\ epochs' = epochs + 1 /\ pending' = epochs + 1 /\ queue' = EmptyQueue /\ SendOut(f)
        /\ UNCHANGED <<clock, connected, epoch, resets, hook, checked, loop, loaded, sender,
                       writer, ready, begun, stopped, ended, answered, revived, offered>>
    BY <1>1 DEF Activate, taking, inputs
  <2>. HIDE DEF f
  <2>4. /\ outbox' \in Boxes /\ Len(outbox'.items) <= OutboxLimit
        /\ \A i \in 1 .. Len(outbox'.items) : outbox'.items[i].event.epoch <= epochs'
        /\ boxReady' \in BOOLEAN
    BY <2>1, <2>2, <2>3, SendType
  <2>5. queue' \in Queues /\ Len(queue'.items) <= QueueLimit
    BY <2>3, Empties, Limits
  <2>6. /\ epochs' \in 0 .. MaxEpoch
        /\ epoch' \in 0 .. epochs' /\ pending' \in 0 .. epochs' /\ checked' \in 0 .. epochs'
        /\ begun' \in 0 .. epochs' /\ stopped' \in 0 .. epochs' /\ ended' \in 0 .. epochs'
        /\ loaded' \in 0 .. epochs' /\ answered' \in 0 .. epochs'
        /\ revived' \subseteq 1 .. epochs'
    BY <2>1, <2>3 DEF Typed
  <2>. QED BY <2>3, <2>4, <2>5, <2>6 DEF Typed
<1>2. CASE Activated
  <2>. DEFINE f == Frame("RESET", stopped)
  <2>1. stopped \in Nat /\ stopped <= epochs /\ epochs \in Nat BY DEF Typed
  <2>2. f \in Frames /\ f.epoch = stopped BY <2>1, FrameType
  <2>3. /\ answered' \in 0 .. epochs /\ loop' \in {"run", "load", "take", "taken"}
        /\ SendOut(f) \/ UNCHANGED <<outbox, boxReady>>
        /\ UNCHANGED <<clock, connected, epoch, pending, queue, resets, hook, checked, loaded,
                       sender, writer, ready, epochs, begun, stopped, ended, revived, offered>>
    BY <1>2 DEF Activated, inputs, Typed
  <2>. HIDE DEF f
  <2>4. CASE SendOut(f)
    <3>1. /\ outbox' \in Boxes /\ Len(outbox'.items) <= OutboxLimit
          /\ \A i \in 1 .. Len(outbox'.items) : outbox'.items[i].event.epoch <= epochs'
          /\ boxReady' \in BOOLEAN
      BY <2>1, <2>2, <2>3, <2>4, SendType
    <3>. QED BY <2>3, <3>1 DEF Typed
  <2>5. CASE UNCHANGED <<outbox, boxReady>> BY <2>3, <2>5 DEF Typed
  <2>. QED BY <2>3, <2>4, <2>5
<1>9. CASE TakeEpoch
  <2>1. CASE Load BY <2>1 DEF Load, Typed, session, wakes, marks, inputs
  <2>2. CASE Take
    <3>1. revived' \subseteq 1 .. epochs
      <4>1. Overtaken => loaded \in 1 .. epochs BY DEF Overtaken, Typed
      <4>. QED BY <2>2, <4>1 DEF Take, Typed
    <3>2. /\ UNCHANGED <<clock, connected, pending, queue, outbox, resets, hook, checked, sender,
                         writer, ready, boxReady, epochs, begun, stopped, ended, answered, offered>>
          /\ epoch' = loaded /\ loaded' = 0 /\ loop' = "taken"
      BY <2>2 DEF Take, wakes, inputs
    <3>3. epoch' \in 0 .. epochs' /\ loaded' \in 0 .. epochs' /\ revived' \subseteq 1 .. epochs'
      BY <3>1, <3>2 DEF Typed
    <3>. QED BY <3>2, <3>3 DEF Typed
  <2>3. CASE Taken
    <3>1. /\ UNCHANGED <<clock, connected, epoch, queue, outbox, resets, hook, checked, loaded,
                         sender, writer, ready, boxReady, epochs, begun, stopped, ended,
                         answered, revived, offered>>
          /\ pending' = 0 /\ loop' = "run"
      BY <2>3 DEF Taken, wakes, marks, inputs
    <3>2. pending' \in 0 .. epochs BY <3>1 DEF Typed
    <3>. QED BY <3>1, <3>2 DEF Typed
  <2>. QED BY <1>9, <2>1, <2>2, <2>3 DEF TakeEpoch
<1>3. CASE SendReset
  <2>. DEFINE f == Frame("RESET", stopped)
  <2>1. stopped \in Nat /\ stopped <= epochs /\ epochs \in Nat BY DEF Typed
  <2>2. f \in Frames /\ f.epoch = stopped BY <2>1, FrameType
  <2>3. /\ resets' \in Nat
        /\ SendOut(f) \/ UNCHANGED <<outbox, boxReady>>
        /\ UNCHANGED <<clock, connected, epoch, pending, queue, hook, checked, loop, loaded,
                       sender, writer, ready, epochs, begun, stopped, ended, answered, revived,
                       offered>>
    BY <1>3 DEF SendReset, taking, marks, inputs, Typed
  <2>. HIDE DEF f
  <2>4. CASE SendOut(f)
    <3>1. /\ outbox' \in Boxes /\ Len(outbox'.items) <= OutboxLimit
          /\ \A i \in 1 .. Len(outbox'.items) : outbox'.items[i].event.epoch <= epochs'
          /\ boxReady' \in BOOLEAN
      BY <2>1, <2>2, <2>3, <2>4, SendType
    <3>. QED BY <2>3, <3>1 DEF Typed
  <2>5. CASE UNCHANGED <<outbox, boxReady>> BY <2>3, <2>5 DEF Typed
  <2>. QED BY <2>3, <2>4, <2>5
<1>4. CASE LoopStop
  <2>1. StopControl /\ UNCHANGED <<hook, checked, sender, writer>>
    BY <1>4 DEF LoopStop
  <2>2. UNCHANGED <<clock, connected, loop, loaded, ready, boxReady, epochs, begun, ended,
                    answered, revived, outbox>>
    BY <2>1, StopType DEF taking, wakes
  <2>3. /\ resets' \in Nat /\ epoch' \in 0 .. epochs /\ pending' \in 0 .. epochs
        /\ stopped' \in 0 .. epochs /\ Len(offered') \in Nat
        /\ queue' \in Queues /\ Len(queue'.items) <= QueueLimit
    BY <2>1, StopType
  <2>. QED BY <2>1, <2>2, <2>3 DEF Typed
<1>5. CASE Sender BY <1>5, SenderKeepsType
<1>6. CASE Writer BY <1>6, WriterKeepsType
<1>7. CASE Connect BY <1>7 DEF Connect, Typed, taking, wakes, marks, inputs
<1>8. CASE Disconnect
  <2>1. /\ connected' = FALSE /\ epoch' = 0 /\ pending' = 0
        /\ queue' = EmptyQueue /\ outbox' = NewOutbox /\ boxReady' = FALSE
        /\ sender' = "off" /\ writer' = "off"
        /\ begun' = epochs /\ stopped' = epochs /\ ended' = epochs /\ answered' = epochs
        /\ offered' = <<>>
        /\ UNCHANGED <<clock, resets, hook, checked, loop, loaded, ready, epochs, revived>>
    BY <1>8 DEF Disconnect, taking
  <2>2. /\ Len(queue'.items) = 0 /\ Len(outbox'.items) = 0 /\ Len(offered') = 0
        /\ queue' \in Queues /\ outbox' \in Boxes
    BY <2>1, Empties
  <2>3. 0 \in 0 .. epochs' /\ epochs' \in 0 .. epochs' BY <2>1 DEF Typed
  <2>4. \A i \in 1 .. Len(outbox'.items) : outbox'.items[i].event.epoch <= epochs'
    BY <2>2
  <2>5. Len(queue'.items) <= QueueLimit /\ Len(outbox'.items) <= OutboxLimit
        /\ Len(offered') \in Nat
    BY <2>2, Limits
  <2>. QED BY <2>1, <2>2, <2>3, <2>4, <2>5 DEF Typed
<1>. QED BY <1>1, <1>2, <1>3, <1>4, <1>5, <1>6, <1>7, <1>8, <1>9 DEF Loop

LEMMA TypedSteps == Typed /\ [Next]_vars => Typed'
<1>. SUFFICES ASSUME Typed, [Next]_vars PROVE Typed' OBVIOUS
<1>1. CASE Hook BY <1>1, HookKeepsType
<1>2. CASE Loop BY <1>2, LoopKeepsType
<1>3. CASE Advance
  <2>1. clock' \in Ticks BY <1>3, Limits DEF Advance, Typed, Ticks
  <2>. QED BY <1>3, <2>1 DEF Advance, Typed, session, taking, wakes, marks, inputs
<1>4. CASE UNCHANGED vars BY <1>4 DEF vars, Typed, session, taking, wakes, marks, inputs
<1>. QED BY <1>1, <1>2, <1>3, <1>4 DEF Next

\* InputQueue.put and Outbox.put: neither queue exceeds its limit, whatever waits, and
\* the moves that put adds up stay within what the wire can carry.
THEOREM SendPathTypeCorrect == Spec => []TypeOK
<1>1. ASSUME Typed PROVE TypeOK
  <2>1. \A i \in DOMAIN queue.items : queue.items[i].event.move \in -MaxMove .. MaxMove
    <3>1. queue.items \in Seq(InputItems) BY <1>1 DEF Typed, Queues
    <3>. TAKE i \in DOMAIN queue.items
    <3>2. queue.items[i] \in InputItems BY <3>1, ElementOfSeq, LenProperties
    <3>. QED BY <3>2 DEF InputItems, Inputs
  <2>. QED BY <1>1, <2>1 DEF Typed, TypeOK, Ticks, Queues, Boxes
<1>2. Typed => TypeOK BY <1>1
<1>. QED BY <1>2, TypedStarts, TypedSteps, PTL DEF Spec

-------------------------------------------------------------------------------
\* Waking.

\* Boxed and Put empty only what they make fail, and wake its reader; an item that
\* joins others finds them waited for.
LEMMA WakeupSteps == NoLostWakeup /\ [Next]_vars => NoLostWakeup'
<1>. SUFFICES ASSUME NoLostWakeup, [Next]_vars PROVE NoLostWakeup' OBVIOUS
<1>. DEFINE Awake == sender = "wait" /\ (queue.items # <<>> \/ queue.failed) => ready
            BoxAwake == writer = "wait" /\ (outbox.items # <<>> \/ outbox.failed) => boxReady
<1>1. Awake /\ BoxAwake BY DEF NoLostWakeup
<1>. SUFFICES Awake' /\ BoxAwake' BY DEF NoLostWakeup
<1>2. ASSUME NEW f, SendOut(f), writer' = writer PROVE BoxAwake'
  BY <1>1, <1>2 DEF SendOut, BoxWakes
<1>3. ASSUME StopControl, sender' = sender \/ sender' = "wait", writer' = writer
      PROVE  Awake' /\ BoxAwake'
  BY <1>1, <1>3, Empties DEF StopControl, wakes
<1>4. CASE Enqueue BY <1>1, <1>4 DEF Enqueue, session, wakes
<1>5. CASE PutInput
  <2>1. PICK event : /\ queue' = Put(queue, event, clock)
                     /\ ready' = (ready \/ Wakes(queue, event, clock))
    BY <1>5 DEF PutInput
  <2>2. UNCHANGED <<sender, writer, outbox, boxReady>> BY <1>5 DEF PutInput
  <2>3. Awake' BY <1>1, <2>1, <2>2 DEF Wakes
  <2>. QED BY <1>1, <2>2, <2>3
<1>6. CASE LoopStop \/ SenderStops BY <1>3, <1>6 DEF LoopStop, SenderStops
<1>20. CASE StopEpoch \/ HookStops
  <2>1. UNCHANGED <<sender, writer, outbox, ready, boxReady>>
    BY <1>20
       DEF StopEpoch, HookStops, StopPending, StopQueue, StopSchedule, KeepLoop, wakes
  <2>2. queue' = queue \/ queue' = EmptyQueue
    BY <1>20 DEF StopEpoch, HookStops, StopPending, StopQueue, StopSchedule
  <2>. QED BY <1>1, <2>1, <2>2, Empties
<1>7. CASE Activate BY <1>1, <1>2, <1>7, Empties DEF Activate
<1>8. CASE Activated
  <2>1. UNCHANGED <<sender, writer, queue, ready>> BY <1>8 DEF Activated
  <2>2. (\E f : SendOut(f)) \/ UNCHANGED <<outbox, boxReady>> BY <1>8 DEF Activated
  <2>. QED BY <1>1, <1>2, <2>1, <2>2
<1>21. CASE TakeEpoch BY <1>1, <1>21 DEF TakeEpoch, Load, Take, Taken, session, wakes
<1>9. CASE SendReset BY <1>1, <1>2, <1>9 DEF SendReset
<1>10. CASE SenderStarts BY <1>1, <1>10 DEF SenderStarts, session
<1>11. CASE SenderPops
  <2>1. UNCHANGED writer BY <1>11 DEF SenderPops
  <2>2. BoxAwake' BY <1>1, <1>2, <1>11, <2>1 DEF SenderPops
  <2>3. Awake' BY <1>11 DEF SenderPops, PopFails
  <2>. QED BY <2>2, <2>3
<1>12. CASE WriterStarts BY <1>1, <1>12 DEF WriterStarts, session
<1>13. CASE WriterSends BY <1>1, <1>13 DEF WriterSends, wakes
<1>14. CASE WriterSleeps BY <1>1, <1>14 DEF WriterSleeps, session, wakes
<1>15. CASE WriterFails BY <1>1, <1>15 DEF WriterFails, session, wakes
<1>16. CASE Connect BY <1>16 DEF Connect
<1>17. CASE Disconnect BY <1>17 DEF Disconnect
<1>18. CASE Advance BY <1>1, <1>18 DEF Advance, session, wakes
<1>19. CASE UNCHANGED vars BY <1>1, <1>19 DEF vars, session, wakes
<1>. QED
  BY <1>4, <1>5, <1>6, <1>7, <1>8, <1>9, <1>10, <1>11, <1>12, <1>13, <1>14, <1>15,
     <1>16, <1>17, <1>18, <1>19, <1>20, <1>21 DEF Next, Hook, Loop, Sender, Writer

\* InputQueue.put, Outbox.put and the two loops that read: although a put into a queue
\* that holds something wakes nobody, neither task ever sleeps while there is work.
THEOREM NeverLostWakeup == Spec => []NoLostWakeup
<1>1. Init => NoLostWakeup BY DEF Init, NoLostWakeup
<1>. QED BY <1>1, WakeupSteps, PTL DEF Spec

-------------------------------------------------------------------------------
\* Line 132 of the controller: epoch, pending and the loop's copy of it hold the newest
\* epoch or none, and the first two hold it together only before the last store.

TakingInv ==
    /\ {epoch, pending, loaded} \subseteq {0, epochs}
    /\ loaded # 0 => loop = "take"
    /\ loop \in {"load", "take"} => epoch = 0
    /\ epoch # 0 /\ pending # 0 => loop = "taken"

LEMMA TakingSteps == Typed /\ TakingInv /\ [Next]_vars => TakingInv'
<1>. SUFFICES ASSUME Typed, TakingInv, [Next]_vars PROVE TakingInv' OBVIOUS
<1>1. CASE UNCHANGED <<epoch, pending, loaded, loop, epochs>> BY <1>1 DEF TakingInv
<1>2. ASSUME UNCHANGED <<loaded, loop, epochs>>, epoch' \in {0, epoch}, pending' \in {0, pending}
      PROVE  TakingInv'
  BY <1>2 DEF TakingInv
<1>3. CASE Hook
  <2>1. CASE Enqueue \/ PutInput
    BY <1>1, <2>1 DEF Enqueue, PutInput, session, taking, marks
  <2>2. CASE StopEpoch \/ HookStops
    BY <1>2, <2>2
       DEF StopEpoch, HookStops, StopPending, StopQueue, StopSchedule, KeepLoop, taking
  <2>. QED BY <1>3, <2>1, <2>2 DEF Hook
<1>4. CASE Activate BY <1>4 DEF Activate, LoopFree, TakingInv, taking
<1>5. CASE Activated
  <2>1. UNCHANGED <<epoch, pending, loaded, epochs>> /\ loop = "run"
    BY <1>5 DEF Activated, LoopFree
  <2>2. loop' = "run" \/ (loop' = "load" /\ pending # 0)
    <3>1. answered \in Nat BY DEF Typed
    <3>2. \A e \in answered + 1 .. begun : e # 0 BY <3>1 DEF Typed
    <3>. QED BY <1>5, <2>1, <3>2 DEF Activated
  <2>. QED BY <2>1, <2>2 DEF TakingInv
<1>6. CASE TakeEpoch
  BY <1>6
     DEF TakeEpoch, Load, Take, Taken, TakingInv, session, marks
<1>7. CASE LoopStop \/ SenderStops
  BY <1>2, <1>7 DEF LoopStop, SenderStops, StopControl, taking
<1>8. CASE Disconnect BY <1>2, <1>8 DEF Disconnect, taking
<1>9. CASE \/ SendReset \/ SenderStarts \/ SenderPops \/ Writer \/ Connect \/ Advance
           \/ UNCHANGED vars
  BY <1>1, <1>9
     DEF SendReset, SenderStarts, SenderPops, Writer, WriterStarts, WriterSends,
     WriterSleeps, WriterFails, Connect, Advance, vars, session, taking, marks
<1>. QED BY <1>3, <1>4, <1>5, <1>6, <1>7, <1>8, <1>9 DEF Next, Loop, Sender

LEMMA TakingStarts == Init => TakingInv
  BY DEF Init, TakingInv

-------------------------------------------------------------------------------
\* The order on the wire.  NothingAfterReset is not inductive: an input may enter the
\* outbox behind a RESET only because every stop whose RESET was put there, or sent, is
\* older than the epoch that lets the input through.  The hook's stop_control may lose
\* this: from its first line to its second, what line 132 stores counts as revived.

BoxOrder ==
    /\ NothingAfterReset
    /\ ended <= stopped
    /\ \A i \in 1 .. Len(outbox.items) :
           outbox.items[i].event.op = "RESET" => outbox.items[i].event.epoch <= stopped

OrderInv ==
    /\ BoxOrder
    /\ epoch # 0 /\ epoch \notin revived => stopped < epoch
    /\ pending # 0 /\ hook # "stop_pending" => stopped < pending
    /\ epoch # 0 /\ hook = "stop_pending" => epoch \in revived

LEMMA BoxedEvents ==
    ASSUME Typed
    PROVE  /\ Len(outbox.items) \in Nat /\ DOMAIN outbox.items = 1 .. Len(outbox.items)
           /\ \A i \in 1 .. Len(outbox.items) :
                  outbox.items[i].event \in Frames /\ outbox.items[i].event.epoch \in Nat
<1>1. outbox.items \in Seq(FrameItems) BY DEF Typed, Boxes
<1>2. Len(outbox.items) \in Nat /\ DOMAIN outbox.items = 1 .. Len(outbox.items)
  BY <1>1, LenProperties
<1>3. \A i \in 1 .. Len(outbox.items) : outbox.items[i] \in FrameItems
  BY <1>1, <1>2, ElementOfSeq
<1>. QED BY <1>2, <1>3 DEF FrameItems, Frames, Inputs

\* An empty outbox is in order.
LEMMA EmptyOrder ==
    ASSUME outbox.items = <<>>, ended <= stopped PROVE BoxOrder
<1>1. Len(outbox.items) = 0 /\ DOMAIN outbox.items = {} BY Empties
<1>. QED BY <1>1 DEF BoxOrder, NothingAfterReset

\* A stop ends nothing that waits in the outbox, and leaves its order as it was.
LEMMA LaterStop ==
    ASSUME Typed, BoxOrder, UNCHANGED <<outbox, ended>>, stopped' \in Nat, stopped' >= stopped,
           revived \subseteq revived'
    PROVE  BoxOrder'
<1>1. ended' <= stopped' BY DEF Typed, BoxOrder
<1>2. ASSUME NEW i \in 1 .. Len(outbox.items), outbox.items[i].event.op = "RESET"
      PROVE  outbox.items[i].event.epoch <= stopped'
  <2>1. outbox.items[i].event.epoch \in Nat BY BoxedEvents
  <2>2. outbox.items[i].event.epoch <= stopped BY <1>2 DEF BoxOrder
  <2>3. stopped \in Nat BY DEF Typed
  <2>. QED BY <2>1, <2>2, <2>3
<1>. QED BY <1>1, <1>2 DEF BoxOrder, NothingAfterReset

\* A frame joins the outbox: an input of an epoch that was not stopped, or has come back,
\* or the RESET of one that was.
LEMMA SendOrder ==
    ASSUME Typed, Typed', BoxOrder, NEW f \in Frames, SendOut(f),
           UNCHANGED <<stopped, ended, revived>>,
           IsInput(f) /\ f.epoch \notin revived => stopped < f.epoch,
           f.op = "RESET" => f.epoch <= stopped
    PROVE  BoxOrder'
<1>1. outbox' = Boxed(outbox, f, clock) BY DEF SendOut
<1>2. ended' <= stopped' BY DEF BoxOrder
<1>3. CASE outbox'.items = <<>>
  <2>1. Len(outbox'.items) = 0 /\ DOMAIN outbox'.items = {} BY <1>3, Empties
  <2>. QED BY <1>2, <2>1 DEF BoxOrder, NothingAfterReset
<1>4. CASE outbox' = outbox BY <1>4 DEF BoxOrder, NothingAfterReset
<1>5. CASE /\ Len(outbox'.items) = Len(outbox.items) + 1 /\ Len(outbox.items) \in Nat
           /\ outbox'.items[Len(outbox.items) + 1].event = f
           /\ \A i \in 1 .. Len(outbox.items) : outbox'.items[i] = outbox.items[i]
  <2>. DEFINE n == Len(outbox.items)
  <2>1. DOMAIN outbox'.items = 1 .. n + 1
    BY <1>5, LenProperties DEF Typed, Boxes
  <2>2. \A i \in 1 .. n + 1 : i \in 1 .. n \/ i = n + 1 BY <1>5
  <2>3. \A i \in 1 .. Len(outbox'.items) :
            outbox'.items[i].event.op = "RESET" => outbox'.items[i].event.epoch <= stopped'
    BY <1>5, <2>2 DEF BoxOrder
  <2>4. ASSUME NEW j \in 1 .. n + 1, IsInput(outbox'.items[j].event),
               outbox'.items[j].event.epoch \notin revived
        PROVE  /\ outbox'.items[j].event.epoch > ended'
               /\ \A i \in 1 .. j - 1 : outbox'.items[i].event.op = "RESET" =>
                     outbox'.items[i].event.epoch < outbox'.items[j].event.epoch
    <3>1. CASE j \in 1 .. n
      <4>1. \A i \in 1 .. j - 1 : i \in 1 .. n BY <1>5, <3>1
      <4>. QED
        BY <1>5, <2>4, <3>1, <4>1, BoxedEvents DEF BoxOrder, NothingAfterReset
    <3>2. CASE j = n + 1
      <4>1. outbox'.items[j].event = f /\ stopped < f.epoch BY <1>5, <2>4, <3>2
      <4>2. f.epoch \in Nat /\ stopped \in Nat /\ ended \in Nat
        BY DEF Frames, Inputs, Typed
      <4>3. \A i \in 1 .. j - 1 : i \in 1 .. n BY <1>5, <3>2
      <4>4. ASSUME NEW i \in 1 .. j - 1, outbox'.items[i].event.op = "RESET"
            PROVE  outbox'.items[i].event.epoch < f.epoch
        <5>1. outbox'.items[i] = outbox.items[i] /\ i \in 1 .. n BY <1>5, <4>3
        <5>2. outbox.items[i].event.epoch <= stopped /\ outbox.items[i].event.epoch \in Nat
          BY <4>4, <5>1, BoxedEvents DEF BoxOrder
        <5>. QED BY <4>1, <4>2, <5>1, <5>2
      <4>5. ended < f.epoch BY <4>1, <4>2 DEF BoxOrder
      <4>. QED BY <4>1, <4>4, <4>5
    <3>. QED BY <2>2, <3>1, <3>2
  <2>5. NothingAfterReset' BY <2>1, <2>4 DEF NothingAfterReset, IsInput
  <2>. QED BY <1>2, <2>3, <2>5 DEF BoxOrder
<1>6. outbox \in Boxes /\ Len(outbox.items) <= OutboxLimit /\ clock \in Ticks
  BY DEF Typed
<1>7. \/ outbox'.items = <<>> \/ outbox' = outbox
      \/ /\ Len(outbox'.items) = Len(outbox.items) + 1 /\ Len(outbox.items) \in Nat
         /\ outbox'.items[Len(outbox.items) + 1].event = f
         /\ \A i \in 1 .. Len(outbox.items) : outbox'.items[i] = outbox.items[i]
  BY <1>1, <1>6, BoxedCases
<1>. QED BY <1>3, <1>4, <1>5, <1>7

\* The writer sends the head: a RESET ends only epochs older than those of the inputs
\* that are left.
LEMMA WriterOrder ==
    ASSUME Typed, BoxOrder, WriterSends PROVE BoxOrder'
<1>. DEFINE frame == Head(outbox.items).event
            n == Len(outbox'.items)
<1>1. outbox.items # <<>> /\ outbox' = Popped(outbox) BY DEF WriterSends
<1>2. /\ outbox' \in Boxes /\ Len(outbox.items) \in Nat \ {0} /\ n = Len(outbox.items) - 1
      /\ frame = outbox.items[1].event
      /\ \A i \in 1 .. n : outbox'.items[i] = outbox.items[i + 1]
  BY <1>1, BoxHead DEF Typed
<1>3. UNCHANGED <<stopped, revived>> /\ ended' = IF frame.op = "RESET" THEN frame.epoch ELSE ended
  BY DEF WriterSends
<1>4. /\ DOMAIN outbox'.items = 1 .. n /\ n \in Nat
      /\ \A i \in 1 .. n : i + 1 \in 1 .. Len(outbox.items)
      /\ 1 \in 1 .. Len(outbox.items)
  BY <1>2, LenProperties DEF Boxes
<1>5. ended' <= stopped' BY <1>2, <1>3, <1>4 DEF BoxOrder
<1>6. \A i \in 1 .. n :
          outbox'.items[i].event.op = "RESET" => outbox'.items[i].event.epoch <= stopped'
  BY <1>2, <1>3, <1>4 DEF BoxOrder
<1>7. ASSUME NEW j \in 1 .. n, IsInput(outbox'.items[j].event),
             outbox'.items[j].event.epoch \notin revived
      PROVE  /\ outbox'.items[j].event.epoch > ended'
             /\ \A i \in 1 .. j - 1 : outbox'.items[i].event.op = "RESET" =>
                   outbox'.items[i].event.epoch < outbox'.items[j].event.epoch
  <2>1. outbox'.items[j] = outbox.items[j + 1] /\ j + 1 \in 1 .. Len(outbox.items)
    BY <1>2, <1>4
  <2>2. outbox.items[j + 1].event.epoch > ended
        /\ \A i \in 1 .. (j + 1) - 1 : outbox.items[i].event.op = "RESET" =>
              outbox.items[i].event.epoch < outbox.items[j + 1].event.epoch
    BY <1>7, <2>1, BoxedEvents DEF BoxOrder, NothingAfterReset
  <2>3. 1 \in 1 .. (j + 1) - 1 BY <1>4
  <2>4. outbox.items[1].event.epoch \in Nat /\ outbox.items[j + 1].event.epoch \in Nat
    BY <1>4, <2>1, BoxedEvents
  <2>5. outbox'.items[j].event.epoch > ended' BY <1>2, <1>3, <2>1, <2>2, <2>3, <2>4
  <2>6. \A i \in 1 .. j - 1 : i + 1 \in 1 .. (j + 1) - 1 /\ i \in 1 .. n BY <1>4
  <2>7. \A i \in 1 .. j - 1 : outbox'.items[i].event.op = "RESET" =>
            outbox'.items[i].event.epoch < outbox'.items[j].event.epoch
    BY <1>2, <2>1, <2>2, <2>6
  <2>. QED BY <2>5, <2>7
<1>8. NothingAfterReset' BY <1>3, <1>4, <1>7 DEF NothingAfterReset, IsInput
<1>. QED BY <1>5, <1>6, <1>8 DEF BoxOrder

LEMMA OrderSteps == Typed /\ Typed' /\ TakingInv /\ OrderInv /\ [Next]_vars => OrderInv'
<1>. SUFFICES ASSUME Typed, Typed', TakingInv, OrderInv, [Next]_vars PROVE OrderInv'
  OBVIOUS
<1>1. ASSUME UNCHANGED <<outbox, stopped, ended>>, revived \subseteq revived' PROVE BoxOrder'
  BY <1>1 DEF OrderInv, BoxOrder, NothingAfterReset
<1>2. ASSUME UNCHANGED <<outbox, stopped, ended, revived, epoch, pending>>,
             hook' # "stop_pending", hook # "stop_pending" \/ UNCHANGED hook
      PROVE  OrderInv'
  BY <1>1, <1>2 DEF OrderInv
<1>15. ASSUME UNCHANGED <<outbox, stopped, ended, revived, epoch, pending, hook>>
       PROVE  OrderInv'
  BY <1>1, <1>15 DEF OrderInv
<1>16. ASSUME UNCHANGED <<outbox, ended, revived>>, stopped' = Stopped PROVE BoxOrder'
  <2>1. stopped \in 0 .. epochs /\ epochs \in Nat /\ stopped' \in {epochs, stopped}
    BY <1>16 DEF Stopped, Typed
  <2>2. stopped' \in Nat /\ stopped' >= stopped BY <2>1
  <2>. QED BY <1>16, <2>2, LaterStop DEF OrderInv
<1>3. ASSUME StopControl, UNCHANGED hook PROVE OrderInv'
  <2>1. BoxOrder' BY <1>3, <1>16 DEF StopControl
  <2>. QED BY <1>3, <2>1 DEF OrderInv, StopControl
<1>4. CASE Hook
  <2>1. CASE Enqueue BY <1>2, <2>1 DEF Enqueue, session, marks
  <2>2. CASE PutInput BY <1>2, <2>2 DEF PutInput, marks
  <2>3. CASE StopEpoch
    <3>1. BoxOrder' BY <1>16, <2>3 DEF StopEpoch, KeepLoop
    <3>2. epoch' = 0 /\ hook' = "stop_pending" BY <2>3 DEF StopEpoch
    <3>. QED BY <3>1, <3>2 DEF OrderInv
  <2>4. CASE StopPending
    <3>1. BoxOrder' BY <1>16, <2>4 DEF StopPending, KeepLoop
    <3>2. /\ hook = "stop_pending" /\ hook' = "stop_queue" /\ pending' = 0
          /\ UNCHANGED <<epoch, revived>>
      BY <2>4 DEF StopPending, KeepLoop
    <3>. QED BY <3>1, <3>2 DEF OrderInv
  <2>5. CASE StopQueue \/ StopSchedule
    BY <1>2, <2>5 DEF StopQueue, StopSchedule, KeepLoop
  <2>. QED BY <1>4, <2>1, <2>2, <2>3, <2>4, <2>5 DEF Hook, HookStops
<1>5. CASE Activate
  <2>. DEFINE f == Frame("ACTIVATE", epochs + 1)
  <2>1. epochs \in Nat /\ epochs + 1 \in Nat /\ stopped < epochs + 1
    <3>1. epochs \in Nat /\ stopped \in 0 .. epochs BY DEF Typed
    <3>. QED BY <3>1
  <2>2. f \in Frames /\ f.op = "ACTIVATE" BY <2>1, FrameType
  <2>3. /\ SendOut(f) /\ pending' = epochs + 1 /\ epoch = 0
        /\ UNCHANGED <<stopped, ended, revived, epoch, hook>>
    BY <1>5 DEF Activate
  <2>. HIDE DEF f
  <2>4. ~IsInput(f) BY <2>2, Limits DEF IsInput
  <2>5. BoxOrder' BY <2>2, <2>3, <2>4, SendOrder DEF OrderInv
  <2>. QED BY <2>1, <2>3, <2>5 DEF OrderInv
<1>6. CASE TakeEpoch
  <2>1. CASE Load BY <1>15, <2>1 DEF Load, session, marks
  <2>2. CASE Take
    <3>1. /\ UNCHANGED <<outbox, stopped, ended, pending, hook>> /\ epoch' = loaded
          /\ revived' = IF Overtaken THEN revived \cup {loaded} ELSE revived
      BY <2>2 DEF Take
    <3>2. BoxOrder' BY <1>1, <3>1
    <3>3. epoch' # 0 /\ epoch' \notin revived'
              => pending = epoch' /\ hook # "stop_pending" /\ pending # 0
      BY <3>1 DEF Overtaken
    <3>4. epoch' # 0 /\ hook' = "stop_pending" => epoch' \in revived'
      BY <3>1 DEF Overtaken
    <3>. QED BY <3>1, <3>2, <3>3, <3>4 DEF OrderInv
  <2>3. CASE Taken
    <3>1. UNCHANGED <<outbox, stopped, ended, epoch, hook, revived>> /\ pending' = 0
      BY <2>3 DEF Taken, marks
    <3>. QED BY <1>1, <3>1 DEF OrderInv
  <2>. QED BY <1>6, <2>1, <2>2, <2>3 DEF TakeEpoch
<1>7. CASE Activated \/ SendReset
  <2>. DEFINE f == Frame("RESET", stopped)
  <2>1. stopped \in Nat BY DEF Typed
  <2>2. f \in Frames /\ f.op = "RESET" /\ f.epoch = stopped BY <2>1, FrameType
  <2>3. UNCHANGED <<stopped, ended, revived, epoch, pending, hook>>
        /\ (SendOut(f) \/ UNCHANGED <<outbox, boxReady>>)
    BY <1>7 DEF Activated, SendReset, marks
  <2>. HIDE DEF f
  <2>4. ~IsInput(f) /\ f.epoch <= stopped BY <2>1, <2>2, Limits DEF IsInput
  <2>5. CASE SendOut(f)
    <3>1. BoxOrder' BY <2>2, <2>3, <2>4, <2>5, SendOrder DEF OrderInv
    <3>. QED BY <2>3, <3>1 DEF OrderInv
  <2>6. CASE UNCHANGED <<outbox, boxReady>> BY <1>15, <2>3, <2>6
  <2>. QED BY <2>3, <2>5, <2>6
<1>8. CASE LoopStop BY <1>3, <1>8 DEF LoopStop
<1>9. CASE Sender
  <2>1. CASE SenderStarts BY <1>15, <2>1 DEF SenderStarts, session, marks
  <2>2. CASE SenderPops
    <3>. DEFINE e == Head(queue.items).event
    <3>1. UNCHANGED <<stopped, ended, revived, epoch, pending, hook>>
      BY <2>2 DEF SenderPops, marks
    <3>2. CASE UNCHANGED outbox BY <1>15, <3>1, <3>2
    <3>3. CASE queue.items # <<>> /\ Passes(e) /\ SendOut(e)
      <4>1. e \in Inputs BY <3>3, QueueHead DEF Typed
      <4>2. e \in Frames /\ e.op # "RESET" BY <4>1, Limits DEF Frames, Inputs
      <4>3. e.epoch \notin revived => stopped < e.epoch BY <3>3 DEF Passes, OrderInv
      <4>4. BoxOrder' BY <3>1, <3>3, <4>2, <4>3, SendOrder DEF OrderInv
      <4>. QED BY <3>1, <4>4 DEF OrderInv
    <3>. QED BY <2>2, <3>2, <3>3 DEF SenderPops
  <2>3. CASE SenderStops BY <1>3, <2>3 DEF SenderStops
  <2>. QED BY <1>9, <2>1, <2>2, <2>3 DEF Sender
<1>10. CASE Writer
  <2>1. CASE WriterStarts BY <1>15, <2>1 DEF WriterStarts, session, marks
  <2>2. CASE WriterSends
    <3>1. BoxOrder' BY <2>2, WriterOrder DEF OrderInv
    <3>2. UNCHANGED <<stopped, revived, epoch, pending, hook>> BY <2>2 DEF WriterSends
    <3>. QED BY <3>1, <3>2 DEF OrderInv
  <2>3. CASE WriterSleeps BY <1>15, <2>3 DEF WriterSleeps, session, marks
  <2>4. CASE WriterFails BY <1>15, <2>4 DEF WriterFails, session, marks
  <2>. QED BY <1>10, <2>1, <2>2, <2>3, <2>4 DEF Writer
<1>11. CASE Connect BY <1>15, <1>11 DEF Connect, marks
<1>12. CASE Disconnect
  <2>1. /\ outbox' = NewOutbox /\ epoch' = 0 /\ pending' = 0
        /\ stopped' = epochs /\ ended' = epochs
    BY <1>12 DEF Disconnect
  <2>2. DOMAIN outbox'.items = {} /\ Len(outbox'.items) = 0 BY <2>1, Empties
  <2>3. ended' <= stopped' BY <2>1 DEF Typed
  <2>. QED BY <2>1, <2>2, <2>3 DEF OrderInv, BoxOrder, NothingAfterReset
<1>13. CASE Advance BY <1>15, <1>13 DEF Advance, session, marks
<1>14. CASE UNCHANGED vars BY <1>15, <1>14 DEF vars, session, marks
<1>. QED
  BY <1>4, <1>5, <1>6, <1>7, <1>8, <1>9, <1>10, <1>11, <1>12, <1>13, <1>14
     DEF Next, Loop

\* Controller.sender and Outbox.writer: after the RESET of a stop no input of the epoch
\* that it ended goes out, even one that the hook thread put after stop_control had
\* emptied the queue, unless a stop on the hook thread overlapped the loop's line 132
\* and the epoch came back.
THEOREM NoInputAfterReset == Spec => []NothingAfterReset
<1>1. Init => OrderInv
  <2>. SUFFICES ASSUME Init PROVE OrderInv OBVIOUS
  <2>1. outbox.items = <<>> /\ ended <= stopped BY Empties DEF Init
  <2>. QED BY <2>1, EmptyOrder DEF OrderInv, Init
<1>2. OrderInv => NothingAfterReset BY DEF OrderInv, BoxOrder
<1>. QED
  BY <1>1, <1>2, TypedStarts, TypedSteps, TakingStarts, TakingSteps, OrderSteps, PTL DEF Spec

-------------------------------------------------------------------------------
\* The inputs of the present epoch: when there is none there are none, and an epoch
\* begins with none in the queue or the outbox.  Nor does one gather inputs before the
\* hook thread has got past the lines of its stop that would lose them.

Offers == [event : Inputs, arrived : Ticks, way : Int]

NoneQueued(n) == \A i \in 1 .. Len(queue.items) : queue.items[i].event.epoch # n
NoneBoxed(n) ==
    \A i \in 1 .. Len(outbox.items) :
        IsInput(outbox.items[i].event) => outbox.items[i].event.epoch # n

\* The newest epoch is still to come, or the hook thread is at these lines.
Coming == (pending # 0 /\ loop # "taken") \/ loaded # 0
Stops == hook \in {"stop_pending", "stop_queue"}

EpochInv ==
    /\ offered \in Seq(Offers) /\ delivered \in Seq(Inputs)
    /\ \A i \in 1 .. Len(offered) : offered[i].arrived <= clock
    /\ \A i \in 1 .. Len(delivered) : Mine(delivered[i])
    /\ NoneBoxed(0)
    /\ epoch = 0 \/ Stops => offered = <<>> /\ delivered = <<>>
    /\ Coming => checked # epochs
    /\ Coming \/ (epoch # 0 /\ Stops) => NoneQueued(epochs) /\ NoneBoxed(epochs)

LEMMA ItemTypes ==
    ASSUME Typed
    PROVE  /\ queue.items \in Seq(InputItems) /\ outbox.items \in Seq(FrameItems)
           /\ Len(queue.items) \in Nat /\ DOMAIN queue.items = 1 .. Len(queue.items)
           /\ Len(outbox.items) \in Nat /\ DOMAIN outbox.items = 1 .. Len(outbox.items)
           /\ \A i \in 1 .. Len(queue.items) :
                  queue.items[i].event \in Inputs /\ queue.items[i].entered \in Ticks
           /\ \A i \in 1 .. Len(outbox.items) :
                  /\ outbox.items[i].event \in Frames
                  /\ IsInput(outbox.items[i].event) => outbox.items[i].event \in Inputs
<1>1. queue.items \in Seq(InputItems) /\ outbox.items \in Seq(FrameItems)
  BY DEF Typed, Queues, Boxes
<1>2. /\ Len(queue.items) \in Nat /\ DOMAIN queue.items = 1 .. Len(queue.items)
      /\ Len(outbox.items) \in Nat /\ DOMAIN outbox.items = 1 .. Len(outbox.items)
  BY <1>1, LenProperties
<1>3. /\ \A i \in 1 .. Len(queue.items) : queue.items[i] \in InputItems
      /\ \A i \in 1 .. Len(outbox.items) : outbox.items[i] \in FrameItems
  BY <1>1, <1>2, ElementOfSeq
<1>4. \A f \in Frames : IsInput(f) => f \in Inputs BY Limits DEF Frames, IsInput
<1>. QED BY <1>1, <1>2, <1>3, <1>4 DEF InputItems, FrameItems

\* The two successful ways of a put, and the one of a put into the outbox.
LEMMA PutSucceeds ==
    ASSUME NEW q \in Queues, NEW e \in Inputs, NEW now \in Ticks, ~Put(q, e, now).failed
    PROVE  /\ ~q.failed
           /\ \/ /\ Adjacent(q, e)
                 /\ Put(q, e, now).items =
                        [q.items EXCEPT ![Len(q.items)] = Coalesced(q, e, now)]
              \/ Put(q, e, now).items = Append(q.items, [event |-> e, entered |-> now])
<1>1. FailedQueue.failed BY Empties
<1>. QED BY <1>1 DEF Put, Overflowed, Queues

LEMMA BoxedSucceeds ==
    ASSUME NEW box \in Boxes, NEW f, NEW now, ~Boxed(box, f, now).failed
    PROVE  /\ ~box.failed
           /\ Boxed(box, f, now).items = Append(box.items, [event |-> f, entered |-> now])
<1>1. FailedQueue.failed BY Empties
<1>. QED BY <1>1 DEF Boxed, BoxOverflowed, Boxes

\* What a put leaves in the queue has the epochs that were there and its own.
LEMMA PutEpochs ==
    ASSUME NEW q \in Queues, NEW e \in Inputs, NEW now \in Ticks,
           NEW i \in 1 .. Len(Put(q, e, now).items)
    PROVE  \/ Put(q, e, now).items[i].event.epoch = e.epoch
           \/ \E j \in 1 .. Len(q.items) :
                  Put(q, e, now).items[i].event.epoch = q.items[j].event.epoch
<1>. DEFINE new == Put(q, e, now)
<1>1. q.items \in Seq(InputItems) /\ Len(q.items) \in Nat
  BY LenProperties DEF Queues
<1>2. CASE new.failed
  <2>1. new.items = <<>> \/ new = q BY <1>2, Empties DEF Put, Overflowed, Queues
  <2>2. new.items = <<>> => Len(new.items) = 0 BY Empties
  <2>. QED BY <2>1, <2>2
<1>3. CASE Adjacent(q, e)
           /\ new.items = [q.items EXCEPT ![Len(q.items)] = Coalesced(q, e, now)]
  <2>1. Coalesced(q, e, now).event.epoch = e.epoch BY DEF Coalesced, Merged, Inputs
  <2>2. Len(new.items) = Len(q.items) BY <1>1, <1>3
  <2>3. i = Len(q.items) => new.items[i] = Coalesced(q, e, now) BY <1>1, <1>3, <2>2
  <2>4. i # Len(q.items) => new.items[i] = q.items[i] BY <1>1, <1>3, <2>2
  <2>. HIDE DEF new
  <2>. QED BY <2>1, <2>2, <2>3, <2>4 DEF new
<1>4. CASE new.items = Append(q.items, [event |-> e, entered |-> now])
  <2>1. Len(new.items) = Len(q.items) + 1 BY <1>1, <1>4
  <2>2. i \in 1 .. Len(q.items) => new.items[i] = q.items[i] BY <1>1, <1>4
  <2>3. i = Len(q.items) + 1 => new.items[i].event = e BY <1>1, <1>4
  <2>. HIDE DEF new
  <2>. QED BY <1>1, <2>1, <2>2, <2>3 DEF new
<1>. QED BY <1>2, <1>3, <1>4, PutSucceeds

LEMMA EpochStarts == Init => EpochInv
<1>. SUFFICES ASSUME Init PROVE EpochInv OBVIOUS
<1>1. Len(offered) = 0 /\ Len(delivered) = 0 /\ Len(outbox.items) = 0
  BY Empties DEF Init
<1>2. ~Coming /\ ~Stops BY DEF Init, Coming, Stops
<1>. QED BY <1>1, <1>2 DEF Init, EpochInv, NoneBoxed

\* Nothing that the invariant speaks of changes.
LEMMA EpochQuiet ==
    ASSUME EpochInv, UNCHANGED <<clock, epoch, pending, checked, queue, outbox, offered, delivered>>,
           UNCHANGED <<epochs, loop, loaded, hook>>
    PROVE  EpochInv'
  BY DEF EpochInv, Mine, NoneQueued, NoneBoxed, Coming, Stops

\* A stop, or a line of it: the queue is emptied or left, the epoch ends or lasts.
LEMMA EpochStops ==
    ASSUME Typed, TakingInv, EpochInv,
           UNCHANGED <<clock, outbox, checked, loop, loaded, epochs>>,
           epoch' \in {0, epoch}, pending' \in {0, pending}, queue' \in {EmptyQueue, queue},
           \/ UNCHANGED <<epoch, offered, delivered>> /\ (Stops' => Stops)
           \/ epoch' = 0 /\ offered' = <<>> /\ delivered' = <<>>
    PROVE  EpochInv'
<1>1. NoneQueued(epochs) => NoneQueued(epochs)'
  <2>1. Len(EmptyQueue.items) = 0 BY Empties
  <2>. QED BY <2>1 DEF NoneQueued
<1>2. UNCHANGED <<NoneBoxed(epochs), NoneBoxed(0)>> BY DEF NoneBoxed, IsInput
<1>3. Coming' => Coming BY DEF Coming
<1>4. CASE UNCHANGED <<epoch, offered, delivered>> /\ (Stops' => Stops)
  <2>1. UNCHANGED \A i \in 1 .. Len(delivered) : Mine(delivered[i])
    BY <1>4 DEF Mine, IsInput
  <2>. QED BY <1>1, <1>2, <1>3, <1>4, <2>1 DEF EpochInv
<1>5. CASE epoch' = 0 /\ offered' = <<>> /\ delivered' = <<>>
  <2>1. Len(offered') = 0 /\ Len(delivered') = 0
        /\ offered' \in Seq(Offers) /\ delivered' \in Seq(Inputs)
    BY <1>5, Empties
  <2>. QED BY <1>1, <1>2, <1>3, <1>5, <2>1 DEF EpochInv
<1>. QED BY <1>4, <1>5

\* A frame joins the outbox: an input of the present epoch, or none.
LEMMA EpochSends ==
    ASSUME Typed, NEW f \in Frames, SendOut(f), NEW n, IsInput(f) => f.epoch # n, NoneBoxed(n)
    PROVE  \A i \in 1 .. Len(outbox'.items) :
               IsInput(outbox'.items[i].event) => outbox'.items[i].event.epoch # n
<1>. SUFFICES ASSUME NEW i \in 1 .. Len(outbox'.items), IsInput(outbox'.items[i].event)
              PROVE  outbox'.items[i].event.epoch # n
  OBVIOUS
<1>1. outbox' = Boxed(outbox, f, clock) BY DEF SendOut
<1>2. outbox \in Boxes /\ Len(outbox.items) <= OutboxLimit /\ clock \in Ticks
  BY DEF Typed
<1>4. CASE outbox'.items = <<>>
  <2>1. Len(outbox'.items) = 0 BY <1>4, Empties
  <2>. QED BY <2>1
<1>5. CASE outbox' = outbox BY <1>5 DEF NoneBoxed
<1>6. CASE /\ Len(outbox'.items) = Len(outbox.items) + 1 /\ Len(outbox.items) \in Nat
           /\ outbox'.items[Len(outbox.items) + 1].event = f
           /\ \A j \in 1 .. Len(outbox.items) : outbox'.items[j] = outbox.items[j]
  <2>1. i \in 1 .. Len(outbox.items) \/ i = Len(outbox.items) + 1 BY <1>6
  <2>. QED BY <1>6, <2>1 DEF NoneBoxed
<1>. QED BY <1>1, <1>2, <1>4, <1>5, <1>6, BoxedCases

\* The outbox alone changes, by a frame that is no input of the newest epoch before its
\* time.
LEMMA EpochBoxes ==
    ASSUME Typed, TakingInv, EpochInv, NEW f \in Frames, SendOut(f),
           IsInput(f) => f.epoch = epoch /\ epoch # 0 /\ ~Stops,
           UNCHANGED <<clock, epoch, pending, checked, offered, delivered, epochs, loaded, hook>>,
           Coming' => Coming, NoneQueued(epochs) => NoneQueued(epochs)'
    PROVE  EpochInv'
<1>1. NoneBoxed(0)'
  <2>1. \A i \in 1 .. Len(outbox'.items) :
            IsInput(outbox'.items[i].event) => outbox'.items[i].event.epoch # 0
    BY EpochSends DEF EpochInv
  <2>. QED BY <2>1 DEF NoneBoxed, IsInput
<1>2. ASSUME Coming \/ (epoch # 0 /\ Stops) PROVE NoneBoxed(epochs)'
  <2>1. IsInput(f) => f.epoch # epochs BY <1>2 DEF Coming, TakingInv
  <2>2. NoneBoxed(epochs) BY <1>2 DEF EpochInv
  <2>3. \A i \in 1 .. Len(outbox'.items) :
            IsInput(outbox'.items[i].event) => outbox'.items[i].event.epoch # epochs
    BY <2>1, <2>2, EpochSends
  <2>. QED BY <2>3 DEF NoneBoxed, IsInput
<1>3. UNCHANGED Stops BY DEF Stops
<1>4. UNCHANGED \A i \in 1 .. Len(delivered) : Mine(delivered[i]) BY DEF Mine, IsInput
<1>. QED BY <1>1, <1>2, <1>3, <1>4 DEF EpochInv

LEMMA EpochPuts == Typed /\ TakingInv /\ EpochInv /\ PutInput => EpochInv'
<1>. SUFFICES ASSUME Typed, TakingInv, EpochInv, PutInput PROVE EpochInv' OBVIOUS
<1>1. PICK op \in InputOps, move \in Moves, read \in {checked, epoch} :
         LET event == [op |-> op, epoch |-> read, seq |-> Len(offered) + 1,
                       move |-> IF op = "MOVE" THEN move ELSE 0]
         IN  /\ queue' = Put(queue, event, clock)
             /\ offered' = IF epoch # 0 /\ read = epoch
                           THEN Append(offered, [event |-> event, arrived |-> clock,
                                                 way |-> Way(Len(offered)) + event.move])
                           ELSE offered
  BY DEF PutInput
<1>. DEFINE event == [op |-> op, epoch |-> read, seq |-> Len(offered) + 1,
                      move |-> IF op = "MOVE" THEN move ELSE 0]
            offer == [event |-> event, arrived |-> clock, way |-> Way(Len(offered)) + event.move]
<1>2. event \in Inputs
  <2>1. checked \in Nat /\ epoch \in Nat /\ Len(offered) \in Nat BY DEF Typed
  <2>. QED BY <2>1, Limits DEF Inputs
<1>3. /\ UNCHANGED <<clock, epoch, pending, outbox, delivered, loop, loaded, epochs>>
      /\ checked' = 0 /\ ~Stops /\ ~Stops'
  BY DEF PutInput, taking, marks, Stops
<1>4. offered \in Seq(Offers) /\ Len(offered) \in Nat /\ clock \in Ticks /\ clock <= clock
  BY DEF EpochInv, Typed, Ticks
<1>5. offer \in Offers
  <2>1. Way(Len(offered)) \in Int
    <3>1. Len(offered) # 0 => offered[Len(offered)] \in Offers BY <1>4
    <3>. QED BY <1>4, <3>1 DEF Way, Offers
  <2>2. event.move \in Int BY <1>2, Limits DEF Inputs
  <2>. HIDE DEF event
  <2>. QED BY <1>2, <1>4, <2>1, <2>2 DEF Offers
<1>6. /\ offered' \in Seq(Offers) /\ \A i \in 1 .. Len(offered') : offered'[i].arrived <= clock'
      /\ epoch = 0 => offered' = offered
  <2>1. CASE offered' = offered BY <1>3, <2>1 DEF EpochInv
  <2>2. CASE epoch # 0 /\ offered' = Append(offered, offer)
    <3>1. offer.arrived = clock OBVIOUS
    <3>. HIDE DEF offer
    <3>2. /\ offered' \in Seq(Offers) /\ Len(offered') = Len(offered) + 1
          /\ offered'[Len(offered) + 1] = offer
          /\ \A i \in 1 .. Len(offered) : offered'[i] = offered[i]
      BY <1>4, <1>5, <2>2, AppendProperties
    <3>3. \A i \in 1 .. Len(offered') : i \in 1 .. Len(offered) \/ i = Len(offered) + 1
      BY <1>4, <3>2
    <3>. QED BY <1>3, <1>4, <2>2, <3>1, <3>2, <3>3 DEF EpochInv
  <2>. QED BY <1>1, <2>1, <2>2
<1>7. Coming => NoneQueued(epochs)'
  <2>. SUFFICES ASSUME Coming, NEW i \in 1 .. Len(queue'.items)
                PROVE  queue'.items[i].event.epoch # epochs
    BY <1>3 DEF NoneQueued
  <2>1. epoch = 0 /\ checked # epochs /\ epochs # 0
    BY DEF EpochInv, Typed, Coming, TakingInv
  <2>2. event.epoch # epochs BY <2>1
  <2>3. queue' = Put(queue, event, clock) /\ queue \in Queues BY <1>1 DEF Typed
  <2>. HIDE DEF event
  <2>4. \/ queue'.items[i].event.epoch = event.epoch
        \/ \E j \in 1 .. Len(queue.items) :
               queue'.items[i].event.epoch = queue.items[j].event.epoch
    BY <1>2, <1>4, <2>3, PutEpochs
  <2>. QED BY <2>2, <2>4 DEF EpochInv, NoneQueued
<1>8. Coming => checked' # epochs BY <1>3 DEF Typed, Coming, TakingInv
<1>9. UNCHANGED <<Coming, NoneBoxed(epochs), NoneBoxed(0)>>
      /\ UNCHANGED \A i \in 1 .. Len(delivered) : Mine(delivered[i])
  BY <1>3 DEF Coming, NoneBoxed, Mine, IsInput
<1>. QED BY <1>3, <1>6, <1>7, <1>8, <1>9 DEF EpochInv

LEMMA EpochPops == Typed /\ TakingInv /\ EpochInv /\ SenderPops => EpochInv'
<1>. SUFFICES ASSUME Typed, TakingInv, EpochInv, SenderPops PROVE EpochInv' OBVIOUS
<1>. DEFINE e == Head(queue.items).event
<1>1. UNCHANGED <<clock, epoch, pending, checked, offered, delivered, epochs, loop, loaded, hook>>
  BY DEF SenderPops, taking, marks, inputs
<1>2. NoneQueued(epochs) => NoneQueued(epochs)'
  <2>1. CASE queue' = FailedQueue
    <3>1. Len(queue'.items) = 0 BY <2>1, Empties
    <3>. QED BY <3>1 DEF NoneQueued
  <2>2. CASE queue' = queue BY <1>1, <2>2 DEF NoneQueued
  <2>3. CASE queue.items # <<>> /\ queue' = Popped(queue)
    <3>1. queue'.items = Tail(queue.items) BY <2>3 DEF Popped, Typed, Queues
    <3>2. Len(queue'.items) = Len(queue.items) - 1
          /\ \A i \in 1 .. Len(queue'.items) : queue'.items[i] = queue.items[i + 1]
      BY <2>3, <3>1, ItemTypes, HeadTailProperties
    <3>3. \A i \in 1 .. Len(queue'.items) : i + 1 \in 1 .. Len(queue.items)
      BY <3>2, ItemTypes
    <3>. QED BY <1>1, <3>2, <3>3 DEF NoneQueued
  <2>. QED BY <2>1, <2>2, <2>3 DEF SenderPops
<1>3. UNCHANGED <<Coming, Stops>> BY <1>1 DEF Coming, Stops
<1>4. CASE UNCHANGED outbox
  <2>1. UNCHANGED <<NoneBoxed(epochs), NoneBoxed(0)>>
        /\ UNCHANGED \A i \in 1 .. Len(delivered) : Mine(delivered[i])
    BY <1>1, <1>4 DEF NoneBoxed, Mine, IsInput
  <2>. QED BY <1>1, <1>2, <1>3, <2>1 DEF EpochInv
<1>5. CASE queue.items # <<>> /\ Passes(e) /\ SendOut(e)
  <2>1. e \in Inputs BY <1>5, QueueHead DEF Typed
  <2>2. e \in Frames /\ e.epoch = epoch /\ epoch # 0
    BY <1>5, <2>1 DEF Frames, Passes
  <2>3. ~Stops
    <3>1. queue.items \in Seq(InputItems) /\ Len(queue.items) \in Nat BY ItemTypes
    <3>2. 1 \in 1 .. Len(queue.items) /\ Head(queue.items) = queue.items[1]
      BY <1>5, <3>1, EmptySeq, HeadTailProperties
    <3>. QED BY <2>2, <3>2 DEF EpochInv, NoneQueued, TakingInv
  <2>. HIDE DEF e
  <2>. QED BY <1>1, <1>2, <1>3, <1>5, <2>2, <2>3, EpochBoxes
<1>. QED BY <1>4, <1>5 DEF SenderPops

LEMMA EpochSent == Typed /\ TakingInv /\ EpochInv /\ WriterSends => EpochInv'
<1>. SUFFICES ASSUME Typed, TakingInv, EpochInv, WriterSends PROVE EpochInv' OBVIOUS
<1>. DEFINE frame == Head(outbox.items).event
<1>1. /\ UNCHANGED <<clock, epoch, pending, checked, queue, offered, epochs, loop, loaded, hook>>
      /\ outbox.items # <<>> /\ outbox' = Popped(outbox)
      /\ delivered' = IF Mine(frame) THEN Append(delivered, frame) ELSE delivered
  BY DEF WriterSends, Mine, taking
<1>2. /\ Len(outbox.items) \in Nat \ {0} /\ Len(outbox'.items) = Len(outbox.items) - 1
      /\ frame = outbox.items[1].event /\ frame \in Frames
      /\ \A i \in 1 .. Len(outbox'.items) : outbox'.items[i] = outbox.items[i + 1]
  BY <1>1, BoxHead DEF Typed
<1>3. \A i \in 1 .. Len(outbox'.items) : i + 1 \in 1 .. Len(outbox.items) BY <1>2
<1>4. (NoneBoxed(0) => NoneBoxed(0)') /\ (NoneBoxed(epochs) => NoneBoxed(epochs)')
  BY <1>1, <1>2, <1>3 DEF NoneBoxed, IsInput
<1>5. /\ delivered' \in Seq(Inputs) /\ \A i \in 1 .. Len(delivered') : Mine(delivered'[i])
      /\ epoch = 0 \/ Stops => delivered' = delivered
  <2>1. CASE ~Mine(frame) BY <1>1, <2>1 DEF EpochInv
  <2>2. CASE Mine(frame)
    <3>1. 1 \in 1 .. Len(outbox.items) BY <1>2
    <3>2. frame \in Inputs /\ epoch # 0 /\ ~Stops
      BY <1>2, <2>2, <3>1, ItemTypes DEF Mine, EpochInv, NoneBoxed, TakingInv
    <3>3. delivered' = Append(delivered, frame) BY <1>1, <2>2
    <3>4. delivered \in Seq(Inputs) /\ Len(delivered) \in Nat
      BY LenProperties DEF EpochInv
    <3>. HIDE DEF frame
    <3>5. /\ delivered' \in Seq(Inputs) /\ Len(delivered') = Len(delivered) + 1
          /\ delivered'[Len(delivered) + 1] = frame
          /\ \A i \in 1 .. Len(delivered) : delivered'[i] = delivered[i]
      BY <3>2, <3>3, <3>4, AppendProperties
    <3>6. \A i \in 1 .. Len(delivered') : i \in 1 .. Len(delivered) \/ i = Len(delivered) + 1
      BY <3>4, <3>5
    <3>. QED BY <2>2, <3>2, <3>5, <3>6 DEF EpochInv
  <2>. QED BY <2>1, <2>2
<1>6. UNCHANGED <<Coming, Stops, NoneQueued(epochs)>> BY <1>1 DEF Coming, Stops, NoneQueued
<1>. QED BY <1>1, <1>4, <1>5, <1>6 DEF EpochInv, Mine, IsInput

LEMMA EpochSteps == Typed /\ TakingInv /\ EpochInv /\ [Next]_vars => EpochInv'
<1>. SUFFICES ASSUME Typed, TakingInv, EpochInv, [Next]_vars PROVE EpochInv' OBVIOUS
<1>1. CASE \/ SenderStarts \/ WriterStarts \/ WriterSleeps \/ WriterFails \/ Connect
           \/ UNCHANGED vars
  BY <1>1, EpochQuiet
     DEF SenderStarts, WriterStarts, WriterSleeps, WriterFails, Connect,
     vars, session, taking, marks, inputs
<1>2. CASE LoopStop \/ SenderStops
  <2>1. /\ UNCHANGED <<clock, outbox, checked, loop, loaded, epochs, hook>>
        /\ epoch' = 0 /\ pending' = 0 /\ queue' = EmptyQueue
        /\ offered' = <<>> /\ delivered' = <<>>
    BY <1>2 DEF LoopStop, SenderStops, StopControl, taking
  <2>. QED BY <2>1, EpochStops
<1>12. CASE StopEpoch \/ HookStops
  <2>1. UNCHANGED <<clock, outbox, checked, loop, loaded, epochs>>
    BY <1>12
       DEF StopEpoch, HookStops, StopPending, StopQueue, StopSchedule, KeepLoop, taking
  <2>2. /\ epoch' \in {0, epoch} /\ pending' \in {0, pending} /\ queue' \in {EmptyQueue, queue}
        /\ \/ UNCHANGED <<epoch, offered, delivered>> /\ (Stops' => Stops)
           \/ epoch' = 0 /\ offered' = <<>> /\ delivered' = <<>>
    BY <1>12 DEF StopEpoch, HookStops, StopPending, StopQueue, StopSchedule, inputs, Stops
  <2>. QED BY <2>1, <2>2, EpochStops
<1>3. CASE Enqueue
  <2>1. /\ UNCHANGED <<clock, epoch, pending, queue, outbox, offered, delivered>>
        /\ UNCHANGED <<epochs, loop, loaded>> /\ ~Stops /\ ~Stops' /\ epoch # 0
    BY <1>3 DEF Enqueue, session, taking, marks, inputs, Stops
  <2>2. ~Coming /\ ~Coming' BY <2>1 DEF Coming, TakingInv
  <2>. QED BY <2>1, <2>2 DEF EpochInv, NoneBoxed, Mine, IsInput
<1>4. CASE PutInput BY <1>4, EpochPuts
<1>5. CASE Activate
  <2>. DEFINE f == Frame("ACTIVATE", epochs + 1)
  <2>1. epochs \in Nat /\ epoch = 0 BY <1>5 DEF Activate, Typed
  <2>2. f \in Frames /\ f.op = "ACTIVATE" BY <2>1, FrameType
  <2>3. /\ epochs' = epochs + 1 /\ queue' = EmptyQueue /\ SendOut(f)
        /\ UNCHANGED <<clock, epoch, checked, offered, delivered>>
    BY <1>5 DEF Activate, inputs
  <2>. HIDE DEF f
  <2>4. ~IsInput(f) BY <2>2, Limits DEF IsInput
  <2>5. NoneBoxed(0)'
    <3>1. \A i \in 1 .. Len(outbox'.items) :
              IsInput(outbox'.items[i].event) => outbox'.items[i].event.epoch # 0
      BY <2>2, <2>3, <2>4, EpochSends DEF EpochInv
    <3>. QED BY <3>1 DEF NoneBoxed, IsInput
  <2>6. NoneBoxed(epochs)'
    <3>1. NoneBoxed(epochs + 1) BY <2>1, BoxedEvents DEF NoneBoxed, Typed
    <3>2. \A i \in 1 .. Len(outbox'.items) :
              IsInput(outbox'.items[i].event) => outbox'.items[i].event.epoch # epochs + 1
      BY <2>2, <2>3, <2>4, <3>1, EpochSends
    <3>. QED BY <2>3, <3>2 DEF NoneBoxed, IsInput
  <2>7. checked' # epochs' BY <2>1, <2>3 DEF Typed
  <2>8. NoneQueued(epochs)'
    <3>1. Len(queue'.items) = 0 BY <2>3, Empties
    <3>. QED BY <3>1 DEF NoneQueued
  <2>. QED BY <2>1, <2>3, <2>5, <2>6, <2>7, <2>8 DEF EpochInv, Mine, IsInput
<1>6. CASE TakeEpoch
  <2>1. UNCHANGED <<clock, checked, queue, outbox, offered, delivered, epochs, hook>>
    BY <1>6 DEF TakeEpoch, Load, Take, Taken, session, marks, inputs
  <2>2. UNCHANGED <<Stops, NoneQueued(epochs), NoneBoxed(epochs), NoneBoxed(0)>>
    BY <2>1 DEF Stops, NoneQueued, NoneBoxed, IsInput
  <2>3. CASE Load \/ Taken
    <3>1. UNCHANGED epoch /\ (Coming' => Coming)
      BY <2>3 DEF Load, Taken, Coming, TakingInv, session
    <3>. QED BY <2>1, <2>2, <3>1 DEF EpochInv, Mine, IsInput
  <2>4. CASE Take
    <3>1. /\ epoch = 0 /\ epoch' = loaded /\ ~Coming' /\ (epoch' # 0 => Coming)
      BY <2>4 DEF Take, Coming, TakingInv
    <3>2. delivered = <<>> /\ offered = <<>> /\ Len(delivered) = 0
      BY <3>1, Empties DEF EpochInv
    <3>. QED BY <2>1, <2>2, <3>1, <3>2 DEF EpochInv
  <2>. QED BY <1>6, <2>3, <2>4 DEF TakeEpoch
<1>7. CASE Activated \/ SendReset
  <2>. DEFINE f == Frame("RESET", stopped)
  <2>1. stopped \in Nat BY DEF Typed
  <2>2. f \in Frames /\ f.op = "RESET" BY <2>1, FrameType
  <2>3. /\ UNCHANGED <<clock, epoch, pending, checked, queue, offered, delivered>>
        /\ UNCHANGED <<epochs, loaded, hook>>
        /\ (SendOut(f) \/ UNCHANGED <<outbox, boxReady>>)
    BY <1>7 DEF Activated, SendReset, taking, marks, inputs
  <2>. HIDE DEF f
  <2>4. ~IsInput(f) BY <2>2, Limits DEF IsInput
  <2>5. (Coming' => Coming) /\ (NoneQueued(epochs) => NoneQueued(epochs)')
    <3>1. loop # "taken" \/ UNCHANGED loop
      BY <1>7 DEF Activated, SendReset, LoopFree, taking
    <3>. QED BY <2>3, <3>1 DEF Coming, NoneQueued
  <2>6. CASE SendOut(f) BY <2>2, <2>3, <2>4, <2>5, <2>6, EpochBoxes
  <2>7. CASE UNCHANGED <<outbox, boxReady>>
    BY <2>3, <2>5, <2>7 DEF EpochInv, Mine, NoneQueued, NoneBoxed, Stops, IsInput
  <2>. QED BY <2>3, <2>6, <2>7
<1>8. CASE SenderPops BY <1>8, EpochPops
<1>9. CASE WriterSends BY <1>9, EpochSent
<1>10. CASE Disconnect
  <2>1. /\ epoch' = 0 /\ pending' = 0 /\ loaded' = loaded /\ outbox' = NewOutbox
        /\ offered' = <<>> /\ delivered' = <<>> /\ loop = "run"
    BY <1>10 DEF Disconnect, taking, LoopFree
  <2>2. Len(outbox'.items) = 0 /\ Len(offered') = 0 /\ Len(delivered') = 0
        /\ offered' \in Seq(Offers) /\ delivered' \in Seq(Inputs)
    BY <2>1, Empties
  <2>3. loaded' = 0 /\ ~Coming' BY <2>1 DEF TakingInv, Coming
  <2>. QED BY <2>1, <2>2, <2>3 DEF EpochInv, NoneBoxed
<1>11. CASE Advance
  <2>1. clock' = clock + 1 /\ clock \in Nat
        /\ UNCHANGED <<epoch, pending, checked, queue, outbox, offered, delivered>>
        /\ UNCHANGED <<epochs, loop, loaded, hook>>
    BY <1>11, Limits DEF Advance, session, inputs, taking, marks, Typed, Ticks
  <2>2. \A i \in 1 .. Len(offered) : offered[i].arrived <= clock'
    <3>. TAKE i \in 1 .. Len(offered)
    <3>1. offered[i] \in Offers BY DEF EpochInv
    <3>2. offered[i].arrived \in Int /\ offered[i].arrived <= clock
      BY <3>1, Limits DEF EpochInv, Offers, Ticks
    <3>. QED BY <2>1, <3>2
  <2>. QED BY <2>1, <2>2 DEF EpochInv, Mine, IsInput, NoneQueued, NoneBoxed, Coming, Stops
<1>. QED
  BY <1>1, <1>2, <1>3, <1>4, <1>5, <1>6, <1>7, <1>8, <1>9, <1>10, <1>11, <1>12
     DEF Next, Hook, Loop, Sender, Writer

-------------------------------------------------------------------------------
\* What is under way, as functions of the sequences it is in: of what was sent, d, of
\* the items of the outbox, b, and of the input queue, q, in the epoch n.

Own(items, n) ==
    {event \in {items[i].event : i \in 1 .. Len(items)} : IsInput(event) /\ event.epoch = n}
Gone(d) == {d[i] : i \in 1 .. Len(d)}

Climbs(items, n) ==
    \A i, j \in 1 .. Len(items) :
        /\ i < j
        /\ IsInput(items[i].event) /\ items[i].event.epoch = n
        /\ IsInput(items[j].event) /\ items[j].event.epoch = n
        => items[i].event.seq < items[j].event.seq

Ordered(d, b, q, n) ==
    /\ \A i, j \in 1 .. Len(d) : i < j => d[i].seq < d[j].seq
    /\ Climbs(b, n) /\ Climbs(q, n)
    /\ Behind(Own(b, n), Gone(d)) /\ Behind(Own(q, n), Gone(d) \cup Own(b, n))

\* What the events U say of the inputs off that they stand for.
StandsFor(U, event) == {k \in 1 .. event.seq : \A e \in U : e.seq < k \/ e.seq >= event.seq}
WayOf(off, k) == IF k = 0 THEN 0 ELSE off[k].way

Tells(U, off, event) ==
    /\ event.seq \in 1 .. Len(off)
    /\ event = [off[event.seq].event EXCEPT !.move = event.move]
    /\ \A k \in StandsFor(U, event) :
          /\ k # event.seq => off[k].event.op = "MOVE" /\ event.op = "MOVE"
          /\ k - 1 \in {0} \cup {e.seq : e \in U}
                => event.move = WayOf(off, event.seq) - WayOf(off, k - 1)

Newest(U, off) == Len(off) # 0 => \E e \in U : e.seq = Len(off)
TellAll(U, off) == Newest(U, off) /\ \A event \in U : Tells(U, off, event)

\* An item of the queue is as old as the oldest input it stands for.
Aged(U, q, n, off) ==
    \A i \in 1 .. Len(q) : IsInput(q[i].event) /\ q[i].event.epoch = n =>
        \A k \in StandsFor(U, q[i].event) : q[i].entered <= off[k].arrived

\* The inductive invariant of what is under way.
Shipped == Gone(delivered) \cup Own(outbox.items, epoch)
OnTheWay == Shipped \cup Own(queue.items, epoch)

WayInv ==
    epoch # 0 /\ ~queue.failed /\ ~outbox.failed =>
        /\ Ordered(delivered, outbox.items, queue.items, epoch)
        /\ TellAll(OnTheWay, offered)
        /\ Aged(OnTheWay, queue.items, epoch, offered)

\* The definitions of the model are these functions of its state.
LEMMA Bridge ==
    ASSUME Typed, EpochInv
    PROVE  /\ Sent = Gone(delivered) /\ MineIn(outbox.items) = Own(outbox.items, epoch)
           /\ MineIn(queue.items) = Own(queue.items, epoch)
           /\ Boarded = Shipped /\ Under = OnTheWay
           /\ OnTheWay \subseteq Inputs
           /\ Gone(delivered) \subseteq Inputs /\ Own(outbox.items, epoch) \subseteq Inputs
           /\ Own(queue.items, epoch) \subseteq Inputs
           /\ offered \in Seq(Offers) /\ Len(offered) \in Nat
           /\ delivered \in Seq(Inputs) /\ Len(delivered) \in Nat
<1>1. /\ delivered \in Seq(Inputs) /\ Len(delivered) \in Nat
      /\ DOMAIN delivered = 1 .. Len(delivered)
      /\ \A i \in 1 .. Len(delivered) : delivered[i] \in Inputs
  BY LenProperties, ElementOfSeq DEF EpochInv
<1>2. Sent = Gone(delivered) /\ Gone(delivered) \subseteq Inputs
  BY <1>1 DEF Sent, Gone
<1>3. MineIn(outbox.items) = Own(outbox.items, epoch) /\ Own(outbox.items, epoch) \subseteq Inputs
  BY ItemTypes DEF MineIn, Own, Mine
<1>4. MineIn(queue.items) = Own(queue.items, epoch) /\ Own(queue.items, epoch) \subseteq Inputs
  BY ItemTypes DEF MineIn, Own, Mine
<1>5. offered \in Seq(Offers) /\ Len(offered) \in Nat BY LenProperties DEF EpochInv
<1>. QED BY <1>1, <1>2, <1>3, <1>4, <1>5 DEF Boarded, Under, OnTheWay, Shipped
-------------------------------------------------------------------------------
\* What the steps of the two queues do to these functions.

\* The head leaves.
LEMMA OwnTail ==
    ASSUME NEW T, NEW s \in Seq(T), s # <<>>, NEW n
    PROVE  /\ Own(s, n) = Own(Tail(s), n)
                  \cup (IF IsInput(s[1].event) /\ s[1].event.epoch = n THEN {s[1].event} ELSE {})
           /\ Climbs(s, n) => Climbs(Tail(s), n)
           /\ Climbs(s, n) /\ IsInput(s[1].event) /\ s[1].event.epoch = n
                  => \A e \in Own(Tail(s), n) : s[1].event.seq < e.seq
           /\ Len(Tail(s)) = Len(s) - 1 /\ Len(s) \in Nat \ {0}
           /\ \A i \in 1 .. Len(Tail(s)) : i + 1 \in 1 .. Len(s) /\ Tail(s)[i] = s[i + 1]
<1>1. /\ Len(s) \in Nat \ {0} /\ Len(Tail(s)) = Len(s) - 1
      /\ \A i \in 1 .. Len(Tail(s)) : i + 1 \in 1 .. Len(s) /\ Tail(s)[i] = s[i + 1]
  BY HeadTailProperties, LenProperties, EmptySeq
<1>2. \A i \in 1 .. Len(s) : i = 1 \/ (i - 1 \in 1 .. Len(Tail(s)) /\ s[i] = Tail(s)[i - 1])
  <2>. TAKE i \in 1 .. Len(s)
  <2>1. i # 1 => i - 1 \in 1 .. Len(Tail(s)) /\ (i - 1) + 1 = i BY <1>1
  <2>. QED BY <1>1, <2>1
<1>3. Own(s, n) = Own(Tail(s), n)
          \cup (IF IsInput(s[1].event) /\ s[1].event.epoch = n THEN {s[1].event} ELSE {})
  <2>1. 1 \in 1 .. Len(s) BY <1>1
  <2>2. \A e : e \in {s[i].event : i \in 1 .. Len(s)} <=>
                   e \in {Tail(s)[i].event : i \in 1 .. Len(Tail(s))} \/ e = s[1].event
    <3>. TAKE e
    <3>1. ASSUME NEW i \in 1 .. Len(s), e = s[i].event
          PROVE  e \in {Tail(s)[k].event : k \in 1 .. Len(Tail(s))} \/ e = s[1].event
      BY <1>2, <3>1
    <3>2. ASSUME NEW i \in 1 .. Len(Tail(s)), e = Tail(s)[i].event
          PROVE  e \in {s[k].event : k \in 1 .. Len(s)}
      BY <1>1, <3>2
    <3>. QED BY <2>1, <3>1, <3>2
  <2>. QED BY <2>2 DEF Own
<1>4. Climbs(s, n) => Climbs(Tail(s), n)
  <2>. SUFFICES ASSUME Climbs(s, n), NEW i \in 1 .. Len(Tail(s)), NEW j \in 1 .. Len(Tail(s)),
                       i < j,
                       IsInput(Tail(s)[i].event), Tail(s)[i].event.epoch = n,
                       IsInput(Tail(s)[j].event), Tail(s)[j].event.epoch = n
                PROVE  Tail(s)[i].event.seq < Tail(s)[j].event.seq
    BY DEF Climbs
  <2>1. i + 1 \in 1 .. Len(s) /\ j + 1 \in 1 .. Len(s) /\ i + 1 < j + 1 BY <1>1
  <2>. QED BY <1>1, <2>1 DEF Climbs
<1>5. ASSUME Climbs(s, n), IsInput(s[1].event), s[1].event.epoch = n, NEW e \in Own(Tail(s), n)
      PROVE  s[1].event.seq < e.seq
  <2>1. PICK i \in 1 .. Len(Tail(s)) : e = Tail(s)[i].event /\ IsInput(e) /\ e.epoch = n
    BY DEF Own
  <2>2. i + 1 \in 1 .. Len(s) /\ 1 \in 1 .. Len(s) /\ 1 < i + 1 /\ e = s[i + 1].event
    BY <1>1, <2>1
  <2>. QED BY <1>5, <2>1, <2>2 DEF Climbs
<1>. QED BY <1>1, <1>3, <1>4, <1>5

\* An item joins the others.
LEMMA OwnAppend ==
    ASSUME NEW T, NEW s \in Seq(T), NEW x \in T, NEW n
    PROVE  /\ Own(Append(s, x), n) = Own(s, n)
                  \cup (IF IsInput(x.event) /\ x.event.epoch = n THEN {x.event} ELSE {})
           /\ Climbs(s, n)
              /\ (IsInput(x.event) /\ x.event.epoch = n
                      => \A e \in Own(s, n) : e.seq < x.event.seq)
                  => Climbs(Append(s, x), n)
           /\ Len(Append(s, x)) = Len(s) + 1 /\ Len(s) \in Nat /\ Append(s, x)[Len(s) + 1] = x
           /\ \A i \in 1 .. Len(s) : Append(s, x)[i] = s[i]
           /\ \A i \in 1 .. Len(Append(s, x)) : i \in 1 .. Len(s) \/ i = Len(s) + 1
<1>. DEFINE t == Append(s, x)
<1>1. /\ Len(t) = Len(s) + 1 /\ Len(s) \in Nat /\ t[Len(s) + 1] = x
      /\ \A i \in 1 .. Len(s) : t[i] = s[i]
  BY AppendProperties, LenProperties
<1>2. \A i \in 1 .. Len(t) : i \in 1 .. Len(s) \/ i = Len(s) + 1 BY <1>1
<1>3. Len(s) + 1 \in 1 .. Len(t) /\ \A i \in 1 .. Len(s) : i \in 1 .. Len(t) BY <1>1
<1>. HIDE DEF t
<1>4. Own(t, n) = Own(s, n)
          \cup (IF IsInput(x.event) /\ x.event.epoch = n THEN {x.event} ELSE {})
  <2>1. \A e : e \in {t[i].event : i \in 1 .. Len(t)} <=>
                   e \in {s[i].event : i \in 1 .. Len(s)} \/ e = x.event
    <3>. TAKE e
    <3>1. ASSUME NEW i \in 1 .. Len(t), e = t[i].event
          PROVE  e \in {s[k].event : k \in 1 .. Len(s)} \/ e = x.event
      BY <1>1, <1>2, <3>1
    <3>2. ASSUME NEW i \in 1 .. Len(s), e = s[i].event
          PROVE  e \in {t[k].event : k \in 1 .. Len(t)}
      BY <1>1, <1>3, <3>2
    <3>. QED BY <1>1, <1>3, <3>1, <3>2
  <2>. QED BY <2>1 DEF Own
<1>5. ASSUME Climbs(s, n),
             IsInput(x.event) /\ x.event.epoch = n => \A e \in Own(s, n) : e.seq < x.event.seq
      PROVE  Climbs(t, n)
  <2>. SUFFICES ASSUME NEW i \in 1 .. Len(t), NEW j \in 1 .. Len(t), i < j,
                       IsInput(t[i].event), t[i].event.epoch = n,
                       IsInput(t[j].event), t[j].event.epoch = n
                PROVE  t[i].event.seq < t[j].event.seq
    BY DEF Climbs
  <2>1. i \in 1 .. Len(s) BY <1>1, <1>2
  <2>2. CASE j \in 1 .. Len(s) BY <1>1, <1>5, <2>1, <2>2 DEF Climbs
  <2>3. CASE j = Len(s) + 1
    <3>1. t[i].event \in Own(s, n) BY <1>1, <2>1 DEF Own
    <3>2. t[j] = x BY <1>1, <2>3
    <3>. QED BY <1>5, <3>1, <3>2
  <2>. QED BY <1>2, <2>2, <2>3
<1>. QED BY <1>1, <1>2, <1>4, <1>5 DEF t
\* The last item, of the epoch m, is replaced by one of that epoch and a later number.
LEMMA OwnReplace ==
    ASSUME NEW T, NEW s \in Seq(T), s # <<>>, NEW c \in T, NEW n,
           \A y \in T : y.event.seq \in Nat,
           IsInput(s[Len(s)].event), IsInput(c.event),
           s[Len(s)].event.epoch = c.event.epoch,
           Climbs(s, n), c.event.epoch = n => s[Len(s)].event.seq <= c.event.seq
    PROVE  LET t == [s EXCEPT ![Len(s)] = c] IN
           /\ c.event.epoch # n => Own(t, n) = Own(s, n)
           /\ c.event.epoch = n =>
                 /\ Own(t, n) = (Own(s, n) \ {s[Len(s)].event}) \cup {c.event}
                 /\ s[Len(s)].event \in Own(s, n)
                 /\ \A e \in Own(s, n) \ {s[Len(s)].event} : e.seq < s[Len(s)].event.seq
           /\ Climbs(t, n) /\ t \in Seq(T)
           /\ Len(t) = Len(s) /\ Len(s) \in Nat \ {0} /\ t[Len(s)] = c
           /\ \A i \in 1 .. Len(s) : i # Len(s) => t[i] = s[i]
<1>. DEFINE t == [s EXCEPT ![Len(s)] = c]
            z == Len(s)
            x == s[z].event
<1>1. z \in Nat \ {0} /\ \A i \in 1 .. z : s[i] \in T
  BY LenProperties, EmptySeq, ElementOfSeq
<1>2. z \in 1 .. z BY <1>1
<1>3. /\ t \in Seq(T) /\ Len(t) = z /\ t[z] = c
      /\ \A i \in 1 .. z : i # z => t[i] = s[i]
  BY <1>1, <1>2, ExceptSeq
<1>4. ASSUME NEW e
      PROVE  e \in Own(t, n) <=>
                 \/ e = c.event /\ c.event.epoch = n
                 \/ \E i \in 1 .. z : i # z /\ e = s[i].event /\ IsInput(e) /\ e.epoch = n
  <2>. HIDE DEF t, z
  <2>1. e \in Own(t, n) => \E i \in 1 .. z : e = t[i].event /\ IsInput(e) /\ e.epoch = n
    BY <1>3 DEF Own
  <2>2. (\E i \in 1 .. z : e = t[i].event /\ IsInput(e) /\ e.epoch = n) => e \in Own(t, n)
    BY <1>3 DEF Own
  <2>. QED BY <1>2, <1>3, <2>1, <2>2
<1>5. ASSUME NEW e
      PROVE  e \in Own(s, n) <=>
                 \/ e = x /\ c.event.epoch = n
                 \/ \E i \in 1 .. z : i # z /\ e = s[i].event /\ IsInput(e) /\ e.epoch = n
  BY <1>2 DEF Own
<1>6. ASSUME c.event.epoch # n PROVE Own(t, n) = Own(s, n) BY <1>4, <1>5, <1>6
<1>7. ASSUME c.event.epoch = n, NEW i \in 1 .. z, i # z, IsInput(s[i].event),
             s[i].event.epoch = n
      PROVE  s[i].event.seq < x.seq
  <2>1. i < z BY <1>1, <1>7
  <2>. QED BY <1>2, <1>7, <2>1 DEF Climbs
<1>8. x.seq \in Nat /\ c.event.seq \in Nat BY <1>1, <1>2
<1>9. ASSUME c.event.epoch = n
      PROVE  /\ Own(t, n) = (Own(s, n) \ {x}) \cup {c.event}
             /\ x \in Own(s, n) /\ \A e \in Own(s, n) \ {x} : e.seq < x.seq
  <2>1. \A e \in Own(s, n) \ {x} : e.seq < x.seq BY <1>5, <1>7, <1>9
  <2>2. x \in Own(s, n) BY <1>5, <1>9
  <2>3. ASSUME NEW i \in 1 .. z, i # z, IsInput(s[i].event), s[i].event.epoch = n
        PROVE  s[i].event # x
    BY <1>7, <1>8, <1>9, <2>3
  <2>. HIDE DEF t, x
  <2>4. \A e : e \in Own(t, n) <=> e \in (Own(s, n) \ {x}) \cup {c.event}
    BY <1>4, <1>5, <1>9, <2>3
  <2>. QED BY <2>1, <2>2, <2>4
<1>10. Climbs(t, n)
  <2>. SUFFICES ASSUME NEW i \in 1 .. Len(t), NEW j \in 1 .. Len(t), i < j,
                       IsInput(t[i].event), t[i].event.epoch = n,
                       IsInput(t[j].event), t[j].event.epoch = n
                PROVE  t[i].event.seq < t[j].event.seq
    BY DEF Climbs
  <2>. HIDE DEF t
  <2>1. i \in 1 .. z /\ i # z /\ t[i] = s[i] /\ j \in 1 .. z BY <1>1, <1>3
  <2>2. CASE j # z
    <3>1. t[j] = s[j] BY <1>3, <2>1, <2>2
    <3>. QED BY <2>1, <3>1 DEF Climbs
  <2>3. CASE j = z
    <3>1. c.event.epoch = n BY <1>3, <2>3
    <3>2. s[i].event.seq < x.seq /\ x.seq <= c.event.seq BY <1>7, <2>1, <3>1
    <3>3. s[i].event.seq \in Nat BY <1>1, <2>1
    <3>4. t[i].event.seq = s[i].event.seq /\ t[j].event.seq = c.event.seq
      BY <1>3, <2>1, <2>3
    <3>. HIDE DEF x
    <3>. QED BY <1>8, <3>2, <3>3, <3>4
  <2>. QED BY <2>2, <2>3
<1>. QED BY <1>1, <1>3, <1>6, <1>9, <1>10
-------------------------------------------------------------------------------
\* What an input adds to what is under way.

\* The older events stand for what they stood for.
LEMMA OlderStandFor ==
    ASSUME NEW U \in SUBSET Inputs, NEW V \in SUBSET Inputs, NEW m \in Nat, NEW W,
           W \subseteq U, W \subseteq V, \A e \in W : e.seq <= m,
           \A e \in U \ W : e.seq >= m, \A e \in V \ W : e.seq > m,
           NEW off \in Seq(Offers), NEW o \in Offers, Len(off) = m,
           NEW y \in W, Tells(U, off, y), \A e \in U \ W : y.seq < e.seq
    PROVE  Tells(V, Append(off, o), y) /\ StandsFor(V, y) = StandsFor(U, y)
<1>. DEFINE new == Append(off, o)
<1>1. /\ Len(new) = m + 1 /\ \A k \in 1 .. m : new[k] = off[k]
  BY AppendProperties
<1>. HIDE DEF new
<1>2. y.seq \in 1 .. m /\ \A e \in U \cup V : e.seq \in Nat BY DEF Tells, Inputs
<1>3. \A e \in U \ W : e.seq >= y.seq BY <1>2
<1>4. \A e \in V \ W : e.seq >= y.seq BY <1>2
<1>5. StandsFor(V, y) = StandsFor(U, y) BY <1>3, <1>4 DEF StandsFor
<1>6. ASSUME NEW k \in StandsFor(V, y), k - 1 \in {0} \cup {e.seq : e \in V}
      PROVE  k - 1 \in {0} \cup {e.seq : e \in U}
  <2>1. k \in 1 .. y.seq BY DEF StandsFor
  <2>2. \A e \in V \ W : e.seq # k - 1 BY <1>2, <2>1
  <2>. QED BY <1>6, <2>2
<1>7. \A k \in StandsFor(V, y) : k \in 1 .. m /\ WayOf(new, k - 1) = WayOf(off, k - 1)
  <2>. TAKE k \in StandsFor(V, y)
  <2>1. k \in 1 .. y.seq BY DEF StandsFor
  <2>2. k \in 1 .. m BY <1>2, <2>1
  <2>3. k - 1 # 0 => k - 1 \in 1 .. m BY <2>2
  <2>. QED BY <1>1, <2>2, <2>3 DEF WayOf
<1>8. WayOf(new, y.seq) = WayOf(off, y.seq) /\ new[y.seq] = off[y.seq] /\ y.seq \in 1 .. Len(new)
  BY <1>1, <1>2 DEF WayOf
<1>9. ASSUME NEW k \in StandsFor(V, y)
      PROVE  /\ k # y.seq => new[k].event.op = "MOVE" /\ y.op = "MOVE"
             /\ k - 1 \in {0} \cup {e.seq : e \in V}
                   => y.move = WayOf(new, y.seq) - WayOf(new, k - 1)
  <2>1. k \in StandsFor(U, y) /\ new[k] = off[k] BY <1>1, <1>5, <1>7
  <2>. QED BY <1>6, <1>7, <1>8, <2>1 DEF Tells
<1>10. y = [new[y.seq].event EXCEPT !.move = y.move] BY <1>8 DEF Tells
<1>. QED BY <1>5, <1>8, <1>9, <1>10 DEF Tells, new

\* It joins alone.
LEMMA TellAlone ==
    ASSUME NEW U \in SUBSET Inputs, NEW off \in Seq(Offers), TellAll(U, off),
           NEW o \in Offers, o.event.seq = Len(off) + 1,
           o.way = WayOf(off, Len(off)) + o.event.move
    PROVE  /\ TellAll(U \cup {o.event}, Append(off, o))
           /\ StandsFor(U \cup {o.event}, o.event) = {Len(off) + 1}
           /\ \A y \in U : StandsFor(U \cup {o.event}, y) = StandsFor(U, y)
           /\ \A y \in U : y.seq <= Len(off)
<1>. DEFINE m == Len(off)
            e == o.event
            V == U \cup {e}
            new == Append(off, o)
<1>1. /\ m \in Nat /\ Len(new) = m + 1 /\ new[m + 1] = o /\ \A k \in 1 .. m : new[k] = off[k]
  BY AppendProperties, LenProperties
<1>2. e \in Inputs /\ e.move \in Int /\ e.seq = m + 1
  <2>1. o.event \in Inputs BY DEF Offers
  <2>. QED BY <2>1, Limits DEF Inputs
<1>3. \A y \in U : y.seq \in 1 .. m BY DEF TellAll, Tells
<1>4. WayOf(off, m) \in Int
  <2>1. m # 0 => off[m] \in Offers BY <1>1, ElementOfSeq
  <2>. QED BY <2>1 DEF WayOf, Offers
<1>. HIDE DEF m, new, e
<1>5. \A y \in V \ U : y.seq > m BY <1>1, <1>2
<1>6. \A y \in U : y.seq <= m BY <1>1, <1>3
<1>7. ASSUME NEW y \in U PROVE Tells(V, new, y) /\ StandsFor(V, y) = StandsFor(U, y)
  <2>1. V \in SUBSET Inputs BY <1>2
  <2>2. Tells(U, off, y) BY DEF TellAll
  <2>. HIDE DEF V
  <2>. QED BY <1>1, <1>5, <1>6, <2>1, <2>2, OlderStandFor DEF V, new, m
<1>8. StandsFor(V, e) = {m + 1}
  <2>1. ASSUME NEW k \in StandsFor(V, e) PROVE k = m + 1
    <3>1. k \in 1 .. m + 1 /\ \A y \in U : y.seq < k \/ y.seq >= m + 1
      BY <1>2 DEF StandsFor
    <3>2. m # 0 => \E y \in U : y.seq = m BY DEF TellAll, Newest, m
    <3>. QED BY <1>1, <3>1, <3>2
  <2>2. \A y \in V : y.seq < m + 1 \/ y.seq >= e.seq BY <1>1, <1>2, <1>6, <1>3
  <2>3. m + 1 \in 1 .. e.seq BY <1>1, <1>2
  <2>4. m + 1 \in StandsFor(V, e) BY <1>2, <2>2, <2>3 DEF StandsFor
  <2>. QED BY <2>1, <2>4
<1>9. Tells(V, new, e)
  <2>1. WayOf(new, m + 1) = WayOf(off, m) + e.move BY <1>1 DEF WayOf, m, e
  <2>2. WayOf(new, m) = WayOf(off, m) BY <1>1 DEF WayOf
  <2>3. e.move = WayOf(new, m + 1) - WayOf(new, (m + 1) - 1)
    BY <1>1, <1>2, <1>4, <2>1, <2>2
  <2>4. e = [new[e.seq].event EXCEPT !.move = e.move] BY <1>1, <1>2 DEF e, Inputs
  <2>5. e.seq \in 1 .. Len(new) BY <1>1, <1>2
  <2>6. \A k \in StandsFor(V, e) : k = e.seq /\ e.move = WayOf(new, e.seq) - WayOf(new, k - 1)
    BY <1>2, <1>8, <2>3
  <2>. HIDE DEF V
  <2>. QED BY <2>4, <2>5, <2>6 DEF Tells
<1>10. Newest(V, new) BY <1>1, <1>2 DEF Newest
<1>. QED BY <1>6, <1>7, <1>8, <1>9, <1>10 DEF TellAll, m, e, new
\* It, o, joins the newest event x, a move, which makes it c.
Joins(U, off, x, o, c, V) ==
    /\ U \in SUBSET Inputs /\ off \in Seq(Offers) /\ TellAll(U, off)
    /\ x \in U /\ (\A y \in U \ {x} : y.seq < x.seq) /\ x.op = "MOVE"
    /\ o \in Offers /\ o.event.seq = Len(off) + 1 /\ o.event.op = "MOVE"
    /\ o.way = WayOf(off, Len(off)) + o.event.move
    /\ c \in Inputs /\ c.op = "MOVE" /\ c.epoch = o.event.epoch
    /\ c.seq = o.event.seq /\ c.move = x.move + o.event.move
    /\ V = (U \ {x}) \cup {c}

LEMMA TellMerged ==
    ASSUME NEW U, NEW off, NEW x, NEW o, NEW c, NEW V, Joins(U, off, x, o, c, V)
    PROVE  /\ TellAll(V, Append(off, o))
           /\ x.seq = Len(off) /\ Len(off) \in StandsFor(U, x)
           /\ StandsFor(V, c) = StandsFor(U, x) \cup {Len(off) + 1}
           /\ \A y \in U \ {x} : StandsFor(V, y) = StandsFor(U, y)
<1>. USE DEF Joins
<1>. DEFINE m == Len(off)
            e == o.event
            W == U \ {x}
            new == Append(off, o)
<1>1. /\ m \in Nat /\ Len(new) = m + 1 /\ new[m + 1] = o /\ \A k \in 1 .. m : new[k] = off[k]
  BY AppendProperties, LenProperties
<1>2. /\ e \in Inputs /\ e.move \in Int /\ e.seq = m + 1 /\ c.seq = m + 1 /\ c.op = "MOVE"
      /\ c.move = x.move + e.move /\ x.move \in Int
  <2>1. o.event \in Inputs BY DEF Offers
  <2>. QED BY <2>1, Limits DEF Inputs
<1>3. \A y \in U : y.seq \in 1 .. m BY DEF TellAll, Tells
<1>4. x.seq = m /\ m # 0
  <2>1. x.seq \in 1 .. m BY <1>3
  <2>2. m # 0 BY <1>1, <2>1
  <2>3. \E y \in U : y.seq = m BY <2>2 DEF TellAll, Newest, m
  <2>. HIDE DEF m
  <2>. QED BY <1>1, <1>3, <2>1, <2>2, <2>3
<1>5. \A k \in 1 .. m : WayOf(off, k) \in Int /\ WayOf(new, k) = WayOf(off, k)
  <2>1. \A k \in 1 .. m : off[k] \in Offers BY <1>1, ElementOfSeq
  <2>. HIDE DEF m, new
  <2>. QED BY <1>1, <2>1 DEF WayOf, Offers
<1>6. WayOf(off, 0) \in Int /\ WayOf(new, 0) = WayOf(off, 0) BY DEF WayOf
<1>. HIDE DEF m, new, e, W
<1>7. \A y \in W : y \in U /\ y.seq < m BY <1>4 DEF W
<1>8. \A y \in V : (y \in W /\ y.seq \in 1 .. m /\ y.seq < m) \/ y.seq = m + 1
  <2>1. \A y \in V : y \in W \/ y = c BY DEF W
  <2>. QED BY <1>2, <1>3, <1>7, <2>1
<1>9. \A y \in U \ W : y.seq = m BY <1>4 DEF W
<1>10. ASSUME NEW y \in W PROVE Tells(V, new, y) /\ StandsFor(V, y) = StandsFor(U, y)
  <2>1. V \in SUBSET Inputs /\ W \subseteq U /\ W \subseteq V BY DEF W
  <2>2. Tells(U, off, y) BY <1>7 DEF TellAll
  <2>3. \A z \in V \ W : z.seq > m BY <1>1, <1>8
  <2>4. (\A z \in W : z.seq <= m) /\ \A z \in U \ W : z.seq >= m /\ y.seq < z.seq
    BY <1>1, <1>3, <1>7, <1>9
  <2>. QED BY <1>1, <2>1, <2>2, <2>3, <2>4, OlderStandFor DEF new, m
<1>11. m \in StandsFor(U, x) BY <1>1, <1>3, <1>4, <1>7, <1>9 DEF StandsFor
<1>12. StandsFor(V, c) = StandsFor(U, x) \cup {m + 1}
  <2>1. ASSUME NEW k \in StandsFor(V, c), k # m + 1 PROVE k \in StandsFor(U, x)
    <3>1. k \in 1 .. m + 1 BY <1>2 DEF StandsFor
    <3>2. k \in 1 .. m BY <1>1, <2>1, <3>1
    <3>3. ASSUME NEW y \in W PROVE y.seq < k
      <4>1. c \in V /\ y \in V BY DEF W
      <4>2. y.seq < k \/ y.seq >= m + 1 BY <1>2, <4>1 DEF StandsFor
      <4>. QED BY <1>1, <1>3, <1>7, <4>2
    <3>4. \A y \in U : y.seq < k \/ y.seq >= x.seq BY <1>1, <1>4, <1>9, <3>3
    <3>. QED BY <1>4, <3>2, <3>4 DEF StandsFor
  <2>2. ASSUME NEW k \in StandsFor(U, x) PROVE k \in StandsFor(V, c)
    <3>1. k \in 1 .. m /\ \A y \in U : y.seq < k \/ y.seq >= m BY <1>4 DEF StandsFor
    <3>2. ASSUME NEW y \in W PROVE y.seq < k
      <4>1. y \in U /\ y.seq < m /\ y.seq \in Nat BY <1>3, <1>7
      <4>. QED BY <1>1, <3>1, <4>1
    <3>3. k \in 1 .. c.seq BY <1>1, <1>2, <3>1
    <3>4. \A y \in V : y.seq < k \/ y.seq >= c.seq
      <4>. QED BY <1>1, <1>2, <1>8, <3>2
    <3>. QED BY <3>3, <3>4 DEF StandsFor
  <2>3. m + 1 \in StandsFor(V, c)
    <3>1. \A y \in V : y.seq < m + 1 \/ y.seq >= c.seq
      <4>. QED BY <1>1, <1>2, <1>8
    <3>2. m + 1 \in 1 .. c.seq BY <1>1, <1>2
    <3>. QED BY <3>1, <3>2 DEF StandsFor
  <2>. QED BY <2>1, <2>2, <2>3
<1>13. WayOf(new, m + 1) = WayOf(off, m) + e.move BY <1>1 DEF WayOf, m, e
<1>14. ASSUME NEW k \in StandsFor(V, c)
       PROVE  /\ k # c.seq => new[k].event.op = "MOVE"
              /\ k - 1 \in {0} \cup {y.seq : y \in V}
                    => c.move = WayOf(new, c.seq) - WayOf(new, k - 1)
  <2>1. CASE k = m + 1
    <3>1. k - 1 = m BY <1>1, <2>1
    <3>2. \A y \in V : y.seq # m BY <1>1, <1>8
    <3>3. k - 1 \notin {0} \cup {y.seq : y \in V} BY <1>4, <3>1, <3>2
    <3>. QED BY <1>2, <2>1, <3>3
  <2>2. CASE k \in StandsFor(U, x)
    <3>1. k \in 1 .. m BY <1>4, <2>2 DEF StandsFor
    <3>2. new[k] = off[k] BY <1>1, <3>1
    <3>3. Tells(U, off, x) BY DEF TellAll
    <3>4. off[k].event.op = "MOVE"
      <4>1. CASE k # m BY <1>4, <2>2, <3>3, <4>1 DEF Tells
      <4>2. CASE k = m
        <5>1. x = [off[m].event EXCEPT !.move = x.move] BY <1>4, <3>3 DEF Tells
        <5>2. off[m] \in Offers BY <1>1, <3>1, <4>2, ElementOfSeq DEF m
        <5>3. off[m].event.op = x.op BY <5>1, <5>2 DEF Offers, Inputs
        <5>. QED BY <4>2, <5>3
      <4>. QED BY <4>1, <4>2
    <3>5. ASSUME k - 1 \in {0} \cup {y.seq : y \in V}
          PROVE  c.move = WayOf(new, c.seq) - WayOf(new, k - 1)
      <4>1. k - 1 # c.seq BY <1>1, <1>2, <3>1
      <4>2. k - 1 \in {0} \cup {y.seq : y \in U} BY <1>7, <3>5, <4>1
      <4>3. x.move = WayOf(off, m) - WayOf(off, k - 1)
        BY <1>4, <2>2, <3>3, <4>2 DEF Tells
      <4>4. k - 1 = 0 \/ k - 1 \in 1 .. m BY <1>1, <3>1
      <4>5. WayOf(off, k - 1) \in Int /\ WayOf(new, k - 1) = WayOf(off, k - 1)
        BY <1>5, <1>6, <4>4
      <4>6. WayOf(off, m) \in Int BY <1>1, <1>4, <1>5
      <4>. QED BY <1>2, <1>13, <4>3, <4>5, <4>6
    <3>. QED BY <3>2, <3>4, <3>5
  <2>. QED BY <1>12, <2>1, <2>2
<1>15. Tells(V, new, c)
  <2>1. c = [new[c.seq].event EXCEPT !.move = c.move] BY <1>1, <1>2 DEF e, Inputs
  <2>2. c.seq \in 1 .. Len(new) BY <1>1, <1>2
  <2>. QED BY <1>2, <1>14, <2>1, <2>2 DEF Tells
<1>16. Newest(V, new) BY <1>1, <1>2 DEF Newest
<1>. QED BY <1>4, <1>10, <1>11, <1>12, <1>15, <1>16 DEF TellAll, m, e, new, W
-------------------------------------------------------------------------------
\* The steps.

LEMMA WayQuiet ==
    ASSUME WayInv, UNCHANGED <<epoch, queue, outbox, offered, delivered>> PROVE WayInv'
  BY DEF WayInv, OnTheWay, Shipped

LEMMA WayEnds == ASSUME epoch' = 0 PROVE WayInv'
  BY DEF WayInv

\* The epoch has no input yet.
NoneYet ==
    offered = <<>> /\ delivered = <<>> /\ NoneQueued(epoch) /\ NoneBoxed(epoch)

LEMMA WayBegins == NoneYet => WayInv
<1>. SUFFICES ASSUME NoneYet PROVE WayInv OBVIOUS
<1>1. /\ offered = <<>> /\ delivered = <<>> /\ Len(offered) = 0 /\ Len(delivered) = 0
  BY Empties DEF NoneYet
<1>2. \A i \in 1 .. Len(queue.items) : queue.items[i].event.epoch # epoch
  BY DEF NoneYet, NoneQueued
<1>3. \A i \in 1 .. Len(outbox.items) :
          IsInput(outbox.items[i].event) => outbox.items[i].event.epoch # epoch
  BY DEF NoneYet, NoneBoxed
<1>4. /\ Own(queue.items, epoch) = {} /\ Own(outbox.items, epoch) = {}
      /\ Gone(delivered) = {}
  BY <1>1, <1>2, <1>3 DEF Own, Gone
<1>5. Climbs(queue.items, epoch) /\ Climbs(outbox.items, epoch)
  BY <1>2, <1>3 DEF Climbs
<1>6. Ordered(delivered, outbox.items, queue.items, epoch)
  BY <1>1, <1>4, <1>5 DEF Ordered, Behind
<1>7. TellAll({}, offered) BY <1>1 DEF TellAll, Newest
<1>8. Aged({}, queue.items, epoch, offered) BY <1>2 DEF Aged
<1>9. OnTheWay = {} BY <1>4 DEF OnTheWay, Shipped
<1>. QED BY <1>6, <1>7, <1>8, <1>9 DEF WayInv

LEMMA WayBeginsNext == NoneYet' => WayInv'
  BY WayBegins, PTL

\* A frame that is no input joins the outbox.
LEMMA WayBesides ==
    ASSUME Typed, WayInv, NEW f \in Frames, ~IsInput(f), SendOut(f),
           UNCHANGED <<epoch, queue, offered, delivered>>
    PROVE  WayInv'
<1>. SUFFICES ASSUME epoch # 0, ~queue.failed, ~outbox'.failed
              PROVE  /\ Ordered(delivered, outbox'.items, queue.items, epoch)
                     /\ TellAll(OnTheWay', offered)
                     /\ Aged(OnTheWay', queue.items, epoch, offered)
  BY DEF WayInv
<1>. DEFINE item == [event |-> f, entered |-> clock]
<1>1. ~outbox.failed /\ outbox'.items = Append(outbox.items, item)
  BY BoxedSucceeds DEF SendOut, Typed
<1>2. item \in FrameItems /\ outbox.items \in Seq(FrameItems)
  BY ItemTypes DEF FrameItems, Typed
<1>3. ~IsInput(item.event) OBVIOUS
<1>. HIDE DEF item
<1>4. Own(outbox'.items, epoch) = Own(outbox.items, epoch)
      /\ (Climbs(outbox.items, epoch) => Climbs(outbox'.items, epoch))
  <2>. DEFINE new == Append(outbox.items, item)
  <2>1. /\ Own(new, epoch) = Own(outbox.items, epoch)
               \cup (IF IsInput(item.event) /\ item.event.epoch = epoch THEN {item.event} ELSE {})
        /\ Climbs(outbox.items, epoch)
              /\ (IsInput(item.event) /\ item.event.epoch = epoch
                      => \A y \in Own(outbox.items, epoch) : y.seq < item.event.seq)
              => Climbs(new, epoch)
    BY <1>2, OwnAppend
  <2>. QED BY <1>1, <1>3, <2>1
<1>5. OnTheWay' = OnTheWay
  BY <1>4 DEF OnTheWay, Shipped
<1>. QED BY <1>1, <1>4, <1>5 DEF WayInv, Ordered

\* The sender takes the head of the queue, and passes it on or drops it.
LEMMA WayPops ==
    ASSUME Typed, EpochInv, WayInv, SenderPops
    PROVE  /\ WayInv'
           /\ \A e \in Shipped' \ Shipped : \A k \in StandsFor(OnTheWay, e) :
                 clock - offered[k].arrived <= MaxQueueAge
<1>. DEFINE head == queue.items[1]
            e == head.event
            item == [event |-> e, entered |-> clock]
<1>1. UNCHANGED <<clock, epoch, offered, delivered>> BY DEF SenderPops, inputs
<1>2. CASE queue' = FailedQueue /\ UNCHANGED outbox
  BY <1>1, <1>2, Empties DEF WayInv, Shipped
<1>3. CASE UNCHANGED <<queue, outbox>> BY <1>1, <1>3, WayQuiet DEF Shipped
<1>4. CASE ~PopFails(queue, clock) /\ queue.items # <<>> /\ queue' = Popped(queue)
  <2>. DEFINE tail == Tail(queue.items)
  <2>1. /\ ~queue.failed /\ ~queue'.failed /\ queue'.items = tail
    BY <1>4 DEF PopFails, Popped, Typed, Queues
  <2>2. /\ queue.items \in Seq(InputItems) /\ outbox.items \in Seq(FrameItems)
        /\ head = Head(queue.items)
    BY <1>4, ItemTypes, HeadTailProperties
  <2>3. /\ Own(queue.items, epoch) = Own(tail, epoch)
                  \cup (IF IsInput(e) /\ e.epoch = epoch THEN {e} ELSE {})
        /\ Climbs(queue.items, epoch) => Climbs(tail, epoch)
        /\ Climbs(queue.items, epoch) /\ IsInput(e) /\ e.epoch = epoch
                  => \A y \in Own(tail, epoch) : e.seq < y.seq
        /\ Len(tail) = Len(queue.items) - 1 /\ Len(queue.items) \in Nat \ {0}
        /\ \A i \in 1 .. Len(tail) :
               i + 1 \in 1 .. Len(queue.items) /\ tail[i] = queue.items[i + 1]
    BY <1>4, <2>2, OwnTail
  <2>4. 1 \in 1 .. Len(queue.items) BY <2>3
  <2>5. e \in Inputs /\ IsInput(e) /\ head.entered \in Ticks
    BY <2>4, ItemTypes DEF Inputs, IsInput
  <2>. HIDE DEF tail, head
  <2>6. ASSUME NEW U, Aged(U, queue.items, epoch, offered) PROVE Aged(U, tail, epoch, offered)
    BY <2>3, <2>6 DEF Aged
  <2>7. CASE ~Passes(e) /\ UNCHANGED outbox
    <3>. SUFFICES ASSUME epoch # 0, ~outbox.failed PROVE WayInv'
      BY <1>1, <2>7 DEF WayInv, Shipped
    <3>1. e.epoch # epoch BY <2>7 DEF Passes
    <3>2. Own(queue'.items, epoch) = Own(queue.items, epoch) BY <2>1, <2>3, <3>1
    <3>3. OnTheWay' = OnTheWay BY <1>1, <2>7, <3>2 DEF OnTheWay, Shipped
    <3>. QED BY <1>1, <2>1, <2>3, <2>6, <2>7, <3>2, <3>3 DEF WayInv, Ordered
  <2>8. CASE Passes(e) /\ SendOut(e)
    <3>1. e.epoch = epoch /\ epoch # 0 BY <2>8 DEF Passes
    <3>2. outbox' = Boxed(outbox, e, clock) BY <2>8 DEF SendOut
    <3>3. CASE outbox'.failed
      <4>1. outbox'.items = <<>> \/ outbox' = outbox
        BY <3>2, <3>3, Empties DEF Boxed, BoxOverflowed, Typed, Boxes
      <4>2. outbox'.items = <<>> => Own(outbox'.items, epoch) = {}
        BY Empties DEF Own
      <4>. QED BY <1>1, <3>3, <4>1, <4>2 DEF WayInv, Shipped
    <3>4. CASE ~outbox'.failed
      <4>1. ~outbox.failed /\ outbox'.items = Append(outbox.items, item)
        BY <3>2, <3>4, BoxedSucceeds DEF Typed
      <4>2. item \in FrameItems BY <2>5 DEF FrameItems, Frames, Typed
      <4>3. item.event = e OBVIOUS
      <4>. HIDE DEF item, e
      <4>4. /\ Ordered(delivered, outbox.items, queue.items, epoch)
            /\ TellAll(OnTheWay, offered)
            /\ Aged(OnTheWay, queue.items, epoch, offered)
        BY <2>1, <3>1, <4>1 DEF WayInv
      <4>5. e \in Own(queue.items, epoch) BY <2>3, <2>5, <3>1
      <4>6. \A y \in Own(outbox.items, epoch) \cup Gone(delivered) : y.seq < e.seq
        BY <4>4, <4>5 DEF Ordered, Behind
      <4>7. Own(outbox'.items, epoch) = Own(outbox.items, epoch) \cup {e}
            /\ Climbs(outbox'.items, epoch)
        BY <2>2, <2>5, <3>1, <4>1, <4>2, <4>3, <4>4, <4>6, OwnAppend DEF Ordered
      <4>8. Own(queue.items, epoch) = Own(tail, epoch) \cup {e} /\ Climbs(tail, epoch)
            /\ \A y \in Own(tail, epoch) : e.seq < y.seq
        BY <2>3, <2>5, <3>1, <4>4 DEF Ordered
      <4>9. OnTheWay' = OnTheWay BY <1>1, <2>1, <4>7, <4>8 DEF OnTheWay, Shipped
      <4>10. Ordered(delivered, outbox'.items, tail, epoch)
        BY <4>4, <4>6, <4>7, <4>8 DEF Ordered, Behind
      <4>11. WayInv' BY <1>1, <2>1, <2>6, <4>4, <4>9, <4>10 DEF WayInv
      <4>12. \A k \in StandsFor(OnTheWay, e) : clock - offered[k].arrived <= MaxQueueAge
        <5>. TAKE k \in StandsFor(OnTheWay, e)
        <5>1. head.entered <= offered[k].arrived
          BY <2>4, <2>5, <3>1, <4>4 DEF Aged, head, e
        <5>2. clock - head.entered <= MaxQueueAge
          BY <1>4, <2>2, <2>5, Limits DEF PopFails, Overdue, Typed, Ticks
        <5>3. k \in 1 .. Len(offered)
          <6>1. e \in OnTheWay BY <4>5 DEF OnTheWay, Shipped
          <6>2. e.seq \in 1 .. Len(offered) BY <4>4, <6>1 DEF TellAll, Tells
          <6>3. k \in 1 .. e.seq BY DEF StandsFor
          <6>. QED BY <6>2, <6>3
        <5>4. offered[k] \in Offers BY <5>3 DEF EpochInv
        <5>. QED BY <2>5, <5>1, <5>2, <5>4, Limits DEF Offers, Typed, Ticks
      <4>. QED BY <1>1, <4>7, <4>11, <4>12 DEF Shipped
    <3>. QED BY <3>3, <3>4
  <2>9. (Passes(e) /\ SendOut(e)) \/ (~Passes(e) /\ UNCHANGED outbox)
    BY <1>4, <2>2 DEF SenderPops
  <2>10. ~Passes(e) /\ UNCHANGED outbox =>
            Shipped' = Shipped
    BY <1>1 DEF Shipped
  <2>. QED BY <2>7, <2>8, <2>9, <2>10
<1>5. \/ queue' = FailedQueue /\ UNCHANGED outbox
      \/ UNCHANGED <<queue, outbox>>
      \/ ~PopFails(queue, clock) /\ queue.items # <<>> /\ queue' = Popped(queue)
  BY DEF SenderPops
<1>6. UNCHANGED outbox => Shipped' = Shipped BY <1>1 DEF Shipped
<1>. QED BY <1>2, <1>3, <1>4, <1>5, <1>6
\* The writer sends the head of the outbox.
LEMMA WaySends ==
    ASSUME Typed, EpochInv, WayInv, WriterSends
    PROVE  /\ WayInv'
           /\ Shipped' = Shipped
<1>. DEFINE e == outbox.items[1].event
            tail == Tail(outbox.items)
<1>1. /\ UNCHANGED <<epoch, queue, offered>> /\ outbox.items # <<>> /\ ~outbox.failed
      /\ outbox'.items = tail /\ ~outbox'.failed
  BY DEF WriterSends, Popped, Typed, Boxes
<1>2. outbox.items \in Seq(FrameItems) /\ e = Head(outbox.items).event
  BY <1>1, ItemTypes, HeadTailProperties
<1>3. /\ Own(outbox.items, epoch) = Own(tail, epoch)
                \cup (IF IsInput(e) /\ e.epoch = epoch THEN {e} ELSE {})
      /\ Climbs(outbox.items, epoch) => Climbs(tail, epoch)
      /\ Climbs(outbox.items, epoch) /\ IsInput(e) /\ e.epoch = epoch
                => \A y \in Own(tail, epoch) : e.seq < y.seq
  BY <1>1, <1>2, OwnTail
<1>4. delivered' = IF IsInput(e) /\ e.epoch = epoch THEN Append(delivered, e) ELSE delivered
  BY <1>2 DEF WriterSends
<1>. HIDE DEF e, tail
<1>5. CASE ~(IsInput(e) /\ e.epoch = epoch)
  <2>1. delivered' = delivered /\ Own(outbox'.items, epoch) = Own(outbox.items, epoch)
    BY <1>1, <1>3, <1>4, <1>5
  <2>2. OnTheWay' = OnTheWay BY <1>1, <2>1 DEF OnTheWay, Shipped
  <2>. QED BY <1>1, <1>3, <2>1, <2>2 DEF WayInv, Ordered, Shipped
<1>6. CASE IsInput(e) /\ e.epoch = epoch
  <2>1. /\ delivered \in Seq(Inputs) /\ Len(delivered) \in Nat
        /\ Own(outbox.items, epoch) \subseteq Inputs /\ e \in Own(outbox.items, epoch)
    BY <1>3, <1>6, Bridge
  <2>2. /\ Len(delivered') = Len(delivered) + 1 /\ delivered'[Len(delivered) + 1] = e
        /\ \A i \in 1 .. Len(delivered) : delivered'[i] = delivered[i]
    BY <1>4, <1>6, <2>1, AppendProperties
  <2>3. \A i \in 1 .. Len(delivered') : i \in 1 .. Len(delivered) \/ i = Len(delivered) + 1
    BY <2>1, <2>2
  <2>4. Gone(delivered') = Gone(delivered) \cup {e}
    <3>1. \A i \in 1 .. Len(delivered) : i \in 1 .. Len(delivered') BY <2>1, <2>2
    <3>2. Len(delivered) + 1 \in 1 .. Len(delivered') BY <2>1, <2>2
    <3>. QED BY <2>2, <2>3, <3>1, <3>2 DEF Gone
  <2>5. Shipped' = Shipped BY <1>1, <1>3, <1>6, <2>4 DEF Shipped
  <2>6. OnTheWay' = OnTheWay BY <1>1, <2>5 DEF OnTheWay, Shipped
  <2>7. ASSUME Ordered(delivered, outbox.items, queue.items, epoch)
        PROVE  Ordered(delivered', outbox'.items, queue.items, epoch)
    <3>1. Climbs(tail, epoch) /\ \A y \in Own(tail, epoch) : e.seq < y.seq
      BY <1>3, <1>6, <2>7 DEF Ordered
    <3>2. \A y \in Gone(delivered) : y.seq < e.seq BY <2>1, <2>7 DEF Ordered, Behind
    <3>3. Behind(Own(tail, epoch), Gone(delivered'))
      BY <1>3, <2>4, <2>7, <3>1 DEF Ordered, Behind
    <3>4. Behind(Own(queue.items, epoch), Gone(delivered') \cup Own(tail, epoch))
      BY <1>1, <1>3, <1>6, <2>4, <2>7 DEF Ordered
    <3>5. ASSUME NEW i \in 1 .. Len(delivered'), NEW j \in 1 .. Len(delivered'), i < j
          PROVE  delivered'[i].seq < delivered'[j].seq
      <4>1. i \in 1 .. Len(delivered) BY <2>1, <2>3, <3>5
      <4>2. CASE j \in 1 .. Len(delivered)
        BY <2>2, <2>7, <3>5, <4>1, <4>2 DEF Ordered
      <4>3. CASE j = Len(delivered) + 1
        <5>1. delivered[i] \in Gone(delivered) BY <4>1 DEF Gone
        <5>. QED BY <2>2, <3>2, <4>1, <4>3, <5>1
      <4>. QED BY <2>3, <4>2, <4>3
    <3>. QED BY <1>1, <2>7, <3>1, <3>3, <3>4, <3>5 DEF Ordered
  <2>. QED BY <1>1, <2>5, <2>6, <2>7 DEF WayInv
<1>. QED BY <1>5, <1>6, <1>1

\* An input enters the queue.
LEMMA WayPuts == Typed /\ EpochInv /\ WayInv /\ PutInput => WayInv'
<1>. SUFFICES ASSUME Typed, EpochInv, WayInv, PutInput, epoch # 0, ~queue'.failed,
                     ~outbox'.failed
              PROVE  /\ Ordered(delivered', outbox'.items, queue'.items, epoch')
                     /\ TellAll(OnTheWay', offered')
                     /\ Aged(OnTheWay', queue'.items, epoch', offered')
  BY DEF WayInv, PutInput
<1>1. PICK op \in InputOps, move \in Moves, read \in {checked, epoch} :
         LET event == [op |-> op, epoch |-> read, seq |-> Len(offered) + 1,
                       move |-> IF op = "MOVE" THEN move ELSE 0]
         IN  /\ queue' = Put(queue, event, clock)
             /\ offered' = IF epoch # 0 /\ read = epoch
                           THEN Append(offered, [event |-> event, arrived |-> clock,
                                                 way |-> Way(Len(offered)) + event.move])
                           ELSE offered
  BY DEF PutInput
<1>. DEFINE event == [op |-> op, epoch |-> read, seq |-> Len(offered) + 1,
                      move |-> IF op = "MOVE" THEN move ELSE 0]
            offer == [event |-> event, arrived |-> clock, way |-> Way(Len(offered)) + event.move]
            item == [event |-> event, entered |-> clock]
            x == queue.items[Len(queue.items)]
            c == Coalesced(queue, event, clock)
            m == Len(offered)
<1>2. UNCHANGED <<clock, epoch, outbox, delivered>> BY DEF PutInput
<1>3. event \in Inputs /\ IsInput(event) /\ event.op = op /\ event.epoch = read
      /\ event.seq = m + 1
  BY Limits DEF Typed, Inputs, IsInput
<1>4. m \in Nat /\ clock \in Ticks /\ queue \in Queues BY DEF Typed
<1>5. offer \in Offers /\ offer.event = event /\ offer.arrived = clock
      /\ offer.way = WayOf(offered, m) + event.move
  <2>1. Way(m) = WayOf(offered, m) BY DEF Way, WayOf
  <2>2. m # 0 => offered[m] \in Offers BY <1>4, ElementOfSeq DEF EpochInv
  <2>3. WayOf(offered, m) \in Int BY <2>2 DEF WayOf, Offers
  <2>4. event.move \in Int BY <1>3, Limits DEF Inputs
  <2>. HIDE DEF event, m
  <2>. QED BY <1>3, <1>4, <2>1, <2>3, <2>4 DEF Offers, m
<1>6. /\ queue' = Put(queue, event, clock)
      /\ offered' = IF read = epoch THEN Append(offered, offer) ELSE offered
  BY <1>1
<1>. HIDE DEF event, offer
<1>7. /\ ~queue.failed
      /\ \/ Adjacent(queue, event) /\ queue'.items = [queue.items EXCEPT ![Len(queue.items)] = c]
         \/ queue'.items = Append(queue.items, item)
  BY <1>3, <1>4, <1>6, PutSucceeds
<1>8. queue.items \in Seq(InputItems) /\ item \in InputItems /\ item.event = event
      /\ item.entered = clock
  BY <1>3, <1>4, ItemTypes DEF InputItems
<1>9. /\ Ordered(delivered, outbox.items, queue.items, epoch)
      /\ TellAll(OnTheWay, offered)
      /\ Aged(OnTheWay, queue.items, epoch, offered)
      /\ OnTheWay = Shipped \cup Own(queue.items, epoch)
      /\ OnTheWay' = Shipped \cup Own(queue'.items, epoch)
  BY <1>2, <1>7 DEF WayInv, OnTheWay, Shipped
<1>10. /\ OnTheWay \in SUBSET Inputs /\ offered \in Seq(Offers)
       /\ Own(queue.items, epoch) \subseteq Inputs
  BY Bridge
<1>. HIDE DEF item, c, x
<1>11. CASE queue'.items = Append(queue.items, item) /\ read # epoch
  <2>1. Own(queue'.items, epoch) = Own(queue.items, epoch) /\ Climbs(queue'.items, epoch)
    <3>. DEFINE new == Append(queue.items, item)
    <3>1. /\ Own(new, epoch) = Own(queue.items, epoch)
                 \cup (IF IsInput(item.event) /\ item.event.epoch = epoch
                      THEN {item.event} ELSE {})
          /\ Climbs(queue.items, epoch)
                /\ (IsInput(item.event) /\ item.event.epoch = epoch
                        => \A y \in Own(queue.items, epoch) : y.seq < item.event.seq)
                => Climbs(new, epoch)
      BY <1>8, OwnAppend
    <3>2. item.event.epoch # epoch BY <1>3, <1>8, <1>11
    <3>3. Climbs(queue.items, epoch) BY <1>9 DEF Ordered
    <3>. HIDE DEF new
    <3>4. Own(new, epoch) = Own(queue.items, epoch) /\ Climbs(new, epoch)
      BY <3>1, <3>2, <3>3
    <3>. QED BY <1>11, <3>4 DEF new
  <2>2. Aged(OnTheWay, queue'.items, epoch, offered)
    <3>1. /\ Len(queue'.items) = Len(queue.items) + 1
          /\ queue'.items[Len(queue.items) + 1] = item
          /\ \A i \in 1 .. Len(queue.items) : queue'.items[i] = queue.items[i]
          /\ \A i \in 1 .. Len(queue'.items) :
                 i \in 1 .. Len(queue.items) \/ i = Len(queue.items) + 1
      BY <1>8, <1>11, OwnAppend
    <3>. QED BY <1>3, <1>8, <1>9, <1>11, <3>1 DEF Aged
  <2>. QED BY <1>2, <1>6, <1>9, <1>11, <2>1, <2>2 DEF Ordered
<1>12. CASE queue'.items = Append(queue.items, item) /\ read = epoch
  <2>1. /\ TellAll(OnTheWay \cup {event}, offered')
        /\ StandsFor(OnTheWay \cup {event}, event) = {m + 1}
        /\ \A y \in OnTheWay : StandsFor(OnTheWay \cup {event}, y) = StandsFor(OnTheWay, y)
        /\ \A y \in OnTheWay : y.seq <= m
    <3>. DEFINE U == OnTheWay
    <3>1. U \in SUBSET Inputs /\ TellAll(U, offered) BY <1>9, <1>10
    <3>2. offer.event.seq = Len(offered) + 1 /\ offer.way = WayOf(offered, Len(offered)) + offer.event.move
      BY <1>3, <1>5
    <3>. HIDE DEF U
    <3>3. /\ TellAll(U \cup {offer.event}, Append(offered, offer))
          /\ StandsFor(U \cup {offer.event}, offer.event) = {Len(offered) + 1}
          /\ \A y \in U : StandsFor(U \cup {offer.event}, y) = StandsFor(U, y)
          /\ \A y \in U : y.seq <= Len(offered)
      BY <1>5, <1>10, <3>1, <3>2, TellAlone
    <3>. QED BY <1>5, <1>6, <1>12, <3>3 DEF U
  <2>2. \A y \in OnTheWay : y.seq < event.seq BY <1>3, <1>4, <1>10, <2>1 DEF Inputs
  <2>3. /\ Own(queue'.items, epoch) = Own(queue.items, epoch) \cup {event}
        /\ Climbs(queue'.items, epoch)
    BY <1>3, <1>8, <1>9, <1>12, <2>2, OwnAppend DEF Ordered
  <2>4. OnTheWay' = OnTheWay \cup {event} BY <1>9, <2>3
  <2>5. Ordered(delivered, outbox.items, queue'.items, epoch)
    BY <1>9, <2>2, <2>3 DEF Ordered, Behind, Shipped
  <2>6. Aged(OnTheWay', queue'.items, epoch, offered')
    <3>. SUFFICES ASSUME NEW i \in 1 .. Len(queue'.items), IsInput(queue'.items[i].event),
                         queue'.items[i].event.epoch = epoch,
                         NEW k \in StandsFor(OnTheWay', queue'.items[i].event)
                  PROVE  queue'.items[i].entered <= offered'[k].arrived
      BY DEF Aged
    <3>1. /\ Len(queue'.items) = Len(queue.items) + 1
          /\ queue'.items[Len(queue.items) + 1] = item
          /\ \A j \in 1 .. Len(queue.items) : queue'.items[j] = queue.items[j]
          /\ \A j \in 1 .. Len(queue'.items) :
                 j \in 1 .. Len(queue.items) \/ j = Len(queue.items) + 1
      BY <1>8, <1>12, OwnAppend
    <3>2. /\ offered'[m + 1] = offer /\ \A j \in 1 .. m : offered'[j] = offered[j]
      BY <1>5, <1>6, <1>10, <1>12, AppendProperties
    <3>3. CASE i = Len(queue.items) + 1
      <4>1. k = m + 1 BY <1>8, <2>1, <2>4, <3>1, <3>3
      <4>. QED BY <1>4, <1>5, <1>8, <3>1, <3>2, <3>3, <4>1 DEF Ticks
    <3>4. CASE i \in 1 .. Len(queue.items)
      <4>1. queue.items[i].event \in OnTheWay BY <1>9, <3>1, <3>4 DEF Own
      <4>2. k \in StandsFor(OnTheWay, queue.items[i].event)
        BY <2>1, <2>4, <3>1, <3>4, <4>1
      <4>3. queue.items[i].event.seq \in 1 .. m BY <1>9, <4>1 DEF TellAll, Tells
      <4>4. k \in 1 .. m BY <4>2, <4>3 DEF StandsFor
      <4>. QED BY <1>9, <3>1, <3>2, <3>4, <4>2, <4>4 DEF Aged
    <3>. QED BY <3>1, <3>3, <3>4
  <2>. QED BY <1>2, <2>1, <2>4, <2>5, <2>6
<1>13. ASSUME Adjacent(queue, event), queue'.items = [queue.items EXCEPT ![Len(queue.items)] = c]
       PROVE  /\ queue.items # <<>> /\ event.op = "MOVE" /\ x.event.op = "MOVE"
              /\ x.event.epoch = event.epoch /\ IsInput(x.event) /\ c.entered = x.entered
              /\ x.entered \in Ticks /\ x.event \in Inputs
              /\ c.event = [event EXCEPT !.move = x.event.move + event.move]
              /\ c \in InputItems /\ IsInput(c.event) /\ c.event.epoch = read
              /\ c.event.seq = m + 1
  <2>1. Len(queue.items) \in 1 .. Len(queue.items)
    BY <1>8, <1>13, EmptySeq, LenProperties DEF Adjacent
  <2>2. queue.items[Len(queue.items)] \in InputItems BY <1>8, <2>1, ElementOfSeq
  <2>3. queue' \in Queues /\ Len(queue'.items) = Len(queue.items)
        /\ queue'.items[Len(queue.items)] = c
    BY <1>3, <1>4, <1>6, <1>8, <1>13, <2>1, PutKeeps DEF Typed
  <2>4. c \in InputItems BY <2>1, <2>3, ElementOfSeq DEF Queues
  <2>. QED
    BY <1>3, <1>13, <2>2, <2>4
       DEF Adjacent, LastItem, Coalesced, Merged, Arrival, x, c, InputItems, Inputs, IsInput
<1>14. ASSUME Adjacent(queue, event), queue'.items = [queue.items EXCEPT ![Len(queue.items)] = c]
       PROVE  /\ Len(queue'.items) = Len(queue.items) /\ Len(queue.items) \in Nat \ {0}
              /\ queue'.items[Len(queue.items)] = c
              /\ \A i \in 1 .. Len(queue.items) :
                     i # Len(queue.items) => queue'.items[i] = queue.items[i]
  <2>1. Len(queue.items) \in Nat \ {0}
    BY <1>8, <1>13, <1>14, EmptySeq, LenProperties
  <2>2. Len(queue.items) \in 1 .. Len(queue.items) BY <2>1
  <2>. QED BY <1>8, <1>13, <1>14, <2>1, <2>2, ExceptSeq
<1>15. CASE Adjacent(queue, event) /\ read # epoch
            /\ queue'.items = [queue.items EXCEPT ![Len(queue.items)] = c]
  <2>1. Own(queue'.items, epoch) = Own(queue.items, epoch) /\ Climbs(queue'.items, epoch)
    <3>1. \A y \in InputItems : y.event.seq \in Nat BY DEF InputItems, Inputs
    <3>2. Climbs(queue.items, epoch) BY <1>9 DEF Ordered
    <3>3. x.event.epoch = c.event.epoch /\ c.event.epoch # epoch
      BY <1>3, <1>13, <1>15
    <3>4. IsInput(x.event) /\ IsInput(c.event) /\ c \in InputItems /\ queue.items # <<>>
      BY <1>13, <1>15
    <3>. QED BY <1>8, <1>15, <3>1, <3>2, <3>3, <3>4, OwnReplace DEF x
  <2>2. Aged(OnTheWay, queue'.items, epoch, offered)
    <3>. SUFFICES ASSUME NEW i \in 1 .. Len(queue'.items), IsInput(queue'.items[i].event),
                         queue'.items[i].event.epoch = epoch,
                         NEW k \in StandsFor(OnTheWay, queue'.items[i].event)
                  PROVE  queue'.items[i].entered <= offered[k].arrived
      BY DEF Aged
    <3>1. i \in 1 .. Len(queue.items) /\ i # Len(queue.items)
      BY <1>13, <1>14, <1>15
    <3>2. queue'.items[i] = queue.items[i] BY <1>14, <1>15, <3>1
    <3>. QED BY <1>9, <3>1, <3>2 DEF Aged
  <2>. QED BY <1>2, <1>6, <1>9, <1>15, <2>1, <2>2 DEF Ordered
<1>16. CASE Adjacent(queue, event) /\ read = epoch
            /\ queue'.items = [queue.items EXCEPT ![Len(queue.items)] = c]
  <2>. DEFINE U == OnTheWay
              V == (U \ {x.event}) \cup {c.event}
  <2>1. Len(queue.items) \in 1 .. Len(queue.items) BY <1>14, <1>16
  <2>2. x.event \in Own(queue.items, epoch)
    BY <1>3, <1>13, <1>16, <2>1 DEF Own, x
  <2>3. x.event \in U /\ x.event.seq \in 1 .. m
    BY <1>9, <2>2 DEF TellAll, Tells
  <2>4. /\ Own(queue'.items, epoch) = (Own(queue.items, epoch) \ {x.event}) \cup {c.event}
        /\ Climbs(queue'.items, epoch)
        /\ \A y \in Own(queue.items, epoch) \ {x.event} : y.seq < x.event.seq
    <3>1. \A y \in InputItems : y.event.seq \in Nat BY DEF InputItems, Inputs
    <3>2. Climbs(queue.items, epoch) BY <1>9 DEF Ordered
    <3>3. x.event.epoch = c.event.epoch /\ c.event.epoch = epoch
      BY <1>3, <1>13, <1>16
    <3>4. IsInput(x.event) /\ IsInput(c.event) /\ c \in InputItems /\ queue.items # <<>>
      BY <1>13, <1>16
    <3>5. x.event.seq <= c.event.seq BY <1>4, <1>13, <1>16, <2>3
    <3>. QED BY <1>8, <1>16, <3>1, <3>2, <3>3, <3>4, <3>5, OwnReplace DEF x
  <2>5. \A y \in Shipped : y.seq < x.event.seq
    BY <1>9, <2>2 DEF Ordered, Behind, Shipped
  <2>6. \A y \in U \ {x.event} : y.seq < x.event.seq BY <1>9, <2>4, <2>5
  <2>7. x.event \notin Shipped
    <3>1. x.event.seq \in Nat BY <1>4, <2>3
    <3>. QED BY <2>5, <3>1
  <2>8. OnTheWay' = V BY <1>9, <2>4, <2>7
  <2>9. /\ U \in SUBSET Inputs /\ TellAll(U, offered) /\ offered \in Seq(Offers)
        /\ x.event.op = "MOVE" /\ offer \in Offers /\ offer.event.seq = Len(offered) + 1
        /\ offer.event.op = "MOVE" /\ offer.way = WayOf(offered, Len(offered)) + offer.event.move
        /\ c.event \in Inputs
        /\ c.event = [offer.event EXCEPT !.move = x.event.move + offer.event.move]
    BY <1>3, <1>5, <1>9, <1>10, <1>13, <1>16 DEF InputItems
  <2>. HIDE DEF U
  <2>10. /\ TellAll(V, Append(offered, offer))
         /\ x.event.seq = Len(offered) /\ Len(offered) \in StandsFor(U, x.event)
         /\ StandsFor(V, c.event) = StandsFor(U, x.event) \cup {Len(offered) + 1}
         /\ \A y \in U \ {x.event} : StandsFor(V, y) = StandsFor(U, y)
    <3>. DEFINE old == x.event
                sum == c.event
    <3>1. /\ old \in U /\ (\A y \in U \ {old} : y.seq < old.seq) /\ old.op = "MOVE"
          /\ sum \in Inputs /\ sum.op = "MOVE" /\ sum.epoch = offer.event.epoch
          /\ sum.seq = offer.event.seq /\ sum.move = old.move + offer.event.move
      BY <2>3, <2>6, <2>9 DEF Offers, Inputs
    <3>3. /\ U \in SUBSET Inputs /\ TellAll(U, offered) /\ offered \in Seq(Offers)
          /\ offer \in Offers /\ offer.event.seq = Len(offered) + 1
          /\ offer.event.op = "MOVE" /\ offer.way = WayOf(offered, Len(offered)) + offer.event.move
      BY <2>9
    <3>4. V = (U \ {old}) \cup {sum} BY DEF old, sum
    <3>. HIDE DEF old, sum
    <3>. HIDE DEF V
    <3>2. /\ TellAll(V, Append(offered, offer))
          /\ old.seq = Len(offered) /\ Len(offered) \in StandsFor(U, old)
          /\ StandsFor(V, sum) = StandsFor(U, old) \cup {Len(offered) + 1}
          /\ \A y \in U \ {old} : StandsFor(V, y) = StandsFor(U, y)
      <4>1. Joins(U, offered, old, offer, sum, V) BY <3>1, <3>3, <3>4 DEF Joins
      <4>. QED BY <4>1, TellMerged
    <3>. QED BY <3>2 DEF old, sum
  <2>11. Ordered(delivered, outbox.items, queue'.items, epoch)
    <3>1. \A y \in Shipped : y.seq < c.event.seq /\ y \in U
      <4>1. c.event.seq = m + 1 BY <1>13, <1>16
      <4>2. \A y \in Shipped : y \in U /\ y.seq \in Nat BY <1>9, <2>9 DEF U, Inputs
      <4>. QED BY <1>4, <2>3, <2>5, <4>1, <4>2
    <3>2. Behind(Own(queue'.items, epoch), Shipped)
      BY <1>9, <2>4, <3>1 DEF Ordered, Behind, Shipped
    <3>. QED BY <1>9, <2>4, <3>2 DEF Ordered, Shipped
  <2>12. Aged(V, queue'.items, epoch, offered')
    <3>. SUFFICES ASSUME NEW i \in 1 .. Len(queue'.items), IsInput(queue'.items[i].event),
                         queue'.items[i].event.epoch = epoch,
                         NEW k \in StandsFor(V, queue'.items[i].event)
                  PROVE  queue'.items[i].entered <= offered'[k].arrived
      BY DEF Aged
    <3>1. /\ offered' = Append(offered, offer) /\ offered'[m + 1] = offer
          /\ \A j \in 1 .. m : offered'[j] = offered[j]
      BY <1>5, <1>6, <1>10, <1>16, AppendProperties
    <3>2. \A j \in 1 .. Len(queue.items) :
              IsInput(queue.items[j].event) /\ queue.items[j].event.epoch = epoch =>
                  \A l \in StandsFor(U, queue.items[j].event) :
                      /\ l \in 1 .. m /\ queue.items[j].entered <= offered[l].arrived
      <4>. TAKE j \in 1 .. Len(queue.items)
      <4>. HAVE IsInput(queue.items[j].event) /\ queue.items[j].event.epoch = epoch
      <4>. TAKE l \in StandsFor(U, queue.items[j].event)
      <4>1. queue.items[j].event \in U BY <1>9 DEF Own, U
      <4>2. queue.items[j].event.seq \in 1 .. m BY <2>9, <4>1 DEF TellAll, Tells
      <4>3. l \in 1 .. m BY <4>2 DEF StandsFor
      <4>. QED BY <1>9, <4>3 DEF Aged, U
    <3>3. CASE i # Len(queue.items)
      <4>1. i \in 1 .. Len(queue.items) /\ queue'.items[i] = queue.items[i]
        BY <1>14, <1>16, <3>3
      <4>2. queue.items[i].event \in U /\ queue.items[i].event \in Own(queue.items, epoch)
        BY <1>9, <4>1 DEF Own, U
      <4>3. queue.items[i].event # x.event
        <5>1. i < Len(queue.items) BY <1>14, <1>16, <3>3
        <5>2. queue.items[i].event.seq < x.event.seq
          BY <1>9, <2>1, <2>2, <4>1, <5>1 DEF Ordered, Climbs, Own, x
        <5>. QED BY <1>4, <2>3, <5>2
      <4>4. k \in StandsFor(U, queue.items[i].event) BY <2>10, <4>1, <4>2, <4>3
      <4>. QED BY <3>1, <3>2, <4>1, <4>4
    <3>4. CASE i = Len(queue.items)
      <4>1. queue'.items[i].event = c.event /\ queue'.items[i].entered = x.entered
        BY <1>13, <1>14, <1>16, <3>4
      <4>2. IsInput(x.event) /\ x.event.epoch = epoch BY <1>3, <1>13, <1>16
      <4>3. \A l \in StandsFor(U, x.event) : l \in 1 .. m /\ x.entered <= offered[l].arrived
        BY <2>1, <3>2, <4>2 DEF x
      <4>4. CASE k \in StandsFor(U, x.event) BY <3>1, <4>1, <4>3, <4>4
      <4>5. CASE k = m + 1
        <5>1. m \in 1 .. m /\ x.entered <= offered[m].arrived BY <2>10, <4>3
        <5>2. offered[m].arrived <= clock /\ offered[m] \in Offers
          BY <5>1 DEF EpochInv
        <5>4. x.entered \in Nat /\ offered[m].arrived \in Nat /\ clock \in Nat
          <6>1. x.entered \in Ticks BY <1>13, <1>16
          <6>2. offered[m].arrived \in Ticks BY <5>2 DEF Offers
          <6>. QED BY <1>4, <6>1, <6>2, Limits DEF Ticks
        <5>3. x.entered <= clock BY <5>1, <5>2, <5>4
        <5>. QED BY <1>5, <3>1, <4>1, <4>5, <5>3
      <4>. QED BY <2>10, <4>1, <4>4, <4>5
    <3>. QED BY <3>3, <3>4
  <2>13. offered' = Append(offered, offer) BY <1>6, <1>16
  <2>. QED BY <1>2, <2>8, <2>10, <2>11, <2>12, <2>13
<1>. QED BY <1>7, <1>11, <1>12, <1>15, <1>16
LEMMA WaySteps == Typed /\ TakingInv /\ EpochInv /\ WayInv /\ [Next]_vars => WayInv'
<1>. SUFFICES ASSUME Typed, TakingInv, EpochInv, WayInv, [Next]_vars PROVE WayInv'
  OBVIOUS
<1>1. CASE \/ Enqueue \/ SenderStarts \/ WriterStarts \/ WriterSleeps \/ WriterFails
           \/ Connect \/ Advance \/ UNCHANGED vars
           \/ StopPending \/ StopSchedule \/ Load \/ Taken
  BY <1>1, WayQuiet
     DEF Enqueue, SenderStarts, WriterStarts, WriterSleeps, WriterFails,
     Connect, Advance, vars, session, inputs, StopPending, StopSchedule, KeepLoop,
     Load, Taken
<1>2. CASE StopEpoch \/ LoopStop \/ SenderStops \/ Disconnect \/ Activate
  BY <1>2, WayEnds DEF StopEpoch, LoopStop, SenderStops, StopControl, Disconnect, Activate
<1>8. CASE StopQueue
  <2>1. /\ UNCHANGED <<epoch, outbox, offered, delivered>> /\ queue' = EmptyQueue /\ Stops
    BY <1>8 DEF StopQueue, KeepLoop, inputs, Stops
  <2>2. Len(queue'.items) = 0 BY <2>1, Empties
  <2>3. CASE epoch # 0
    <3>1. epoch = epochs BY <2>3 DEF TakingInv
    <3>2. NoneYet'
      BY <2>1, <2>2, <2>3, <3>1 DEF EpochInv, NoneYet, NoneQueued, NoneBoxed, IsInput
    <3>. QED BY <3>2, WayBeginsNext
  <2>. QED BY <2>1, <2>3, WayEnds
<1>4. CASE Take
  <2>1. UNCHANGED <<queue, outbox, offered, delivered>> /\ epoch' = loaded
    BY <1>4 DEF Take, inputs
  <2>2. CASE loaded # 0
    <3>1. epoch = 0 /\ Coming /\ loaded = epochs BY <2>2 DEF TakingInv, Coming
    <3>2. NoneYet'
      BY <2>1, <3>1 DEF EpochInv, NoneYet, NoneQueued, NoneBoxed, IsInput
    <3>. QED BY <3>2, WayBeginsNext
  <2>. QED BY <2>1, <2>2, WayEnds
<1>3. CASE PutInput BY <1>3, WayPuts
<1>5. CASE Activated \/ SendReset
  <2>. DEFINE f == Frame("RESET", stopped)
  <2>1. stopped \in Nat BY DEF Typed
  <2>2. f \in Frames /\ f.op = "RESET" BY <2>1, FrameType
  <2>3. UNCHANGED <<epoch, queue, offered, delivered>>
        /\ (SendOut(f) \/ UNCHANGED <<outbox, boxReady>>)
    BY <1>5 DEF Activated, SendReset, inputs
  <2>. HIDE DEF f
  <2>4. ~IsInput(f) BY <2>2, Limits DEF IsInput
  <2>. QED BY <2>2, <2>3, <2>4, WayBesides, WayQuiet
<1>6. CASE SenderPops BY <1>6, WayPops
<1>7. CASE WriterSends BY <1>7, WaySends
<1>. QED
  BY <1>1, <1>2, <1>3, <1>4, <1>5, <1>6, <1>7, <1>8
     DEF Next, Hook, HookStops, Loop, TakeEpoch, Sender, Writer

\* What the invariant says in the words of the model.
LEMMA WayIsLossless == Typed /\ EpochInv /\ WayInv => Lossless
<1>. SUFFICES ASSUME Typed, EpochInv, WayInv, epoch # 0, ~queue.failed, ~outbox.failed
              PROVE  InOrder /\ Complete /\ \A event \in Under : Faithful(event)
  BY DEF Lossless
<1>1. /\ Ordered(delivered, outbox.items, queue.items, epoch) /\ TellAll(Under, offered)
  BY Bridge DEF WayInv
<1>2. DOMAIN delivered = 1 .. Len(delivered) /\ DOMAIN offered = 1 .. Len(offered)
  BY Bridge, LenProperties
<1>3. Rising(outbox.items) /\ Rising(queue.items)
  BY <1>1, ItemTypes DEF Ordered, Climbs, Rising, Mine
<1>4. InOrder BY <1>1, <1>2, <1>3, Bridge DEF InOrder, Ordered, Boarded
<1>5. Complete
  <2>1. offered # <<>> => Len(offered) # 0 BY Bridge, EmptySeq
  <2>. QED BY <1>1, <2>1 DEF Complete, TellAll, Newest
<1>6. ASSUME NEW event \in Under PROVE Faithful(event)
  <2>1. Tells(Under, offered, event) BY <1>1 DEF TellAll
  <2>2. Carried(event) = StandsFor(Under, event) BY DEF Carried, StandsFor
  <2>3. \A n : Way(n) = WayOf(offered, n) BY DEF Way, WayOf
  <2>. QED BY <1>2, <2>1, <2>2, <2>3 DEF Faithful, Tells
<1>. QED BY <1>4, <1>5, <1>6

\* What enters the outbox, in a step within an epoch, comes from the queue.
LEMMA ShippedBesides ==
    ASSUME Typed, NEW f \in Frames, ~IsInput(f), SendOut(f), UNCHANGED <<epoch, delivered>>
    PROVE  Shipped' \subseteq Shipped
<1>. DEFINE item == [event |-> f, entered |-> clock]
            new == Append(outbox.items, item)
<1>1. outbox' = Boxed(outbox, f, clock) /\ outbox \in Boxes BY DEF SendOut, Typed
<1>2. CASE outbox'.failed
  <2>1. outbox'.items = <<>> \/ outbox' = outbox
    BY <1>1, <1>2, Empties DEF Boxed, BoxOverflowed, Boxes
  <2>2. outbox'.items = <<>> => Own(outbox'.items, epoch) = {} BY Empties DEF Own
  <2>. QED BY <2>1, <2>2 DEF Shipped
<1>3. CASE ~outbox'.failed
  <2>1. outbox'.items = new BY <1>1, <1>3, BoxedSucceeds
  <2>2. item \in FrameItems /\ outbox.items \in Seq(FrameItems) /\ ~IsInput(item.event)
    BY ItemTypes DEF FrameItems, Typed
  <2>. HIDE DEF item
  <2>3. Own(new, epoch) = Own(outbox.items, epoch)
            \cup (IF IsInput(item.event) /\ item.event.epoch = epoch THEN {item.event} ELSE {})
    BY <2>2, OwnAppend
  <2>. HIDE DEF new
  <2>4. Own(outbox'.items, epoch) = Own(outbox.items, epoch) BY <2>1, <2>2, <2>3
  <2>. QED BY <2>4 DEF Shipped
<1>. QED BY <1>2, <1>3

LEMMA ShippedSteps ==
    ASSUME Typed, EpochInv, WayInv, [Next]_vars, epoch' = epoch,
           NEW e \in Shipped' \ Shipped, NEW k \in StandsFor(OnTheWay, e)
    PROVE  clock - offered[k].arrived <= MaxQueueAge
<1>1. CASE \/ Enqueue \/ PutInput \/ HookStops \/ TakeEpoch \/ SenderStarts \/ WriterStarts
           \/ WriterSleeps \/ WriterFails \/ Connect \/ Advance \/ UNCHANGED vars
  <2>1. UNCHANGED <<outbox, delivered>>
    BY <1>1
       DEF Enqueue, PutInput, HookStops, StopPending, StopQueue, StopSchedule, KeepLoop,
       TakeEpoch, Load, Take, Taken, SenderStarts, WriterStarts, WriterSleeps,
       WriterFails, Connect, Advance, vars, session, inputs
  <2>. QED BY <2>1 DEF Shipped
<1>2. CASE StopEpoch \/ LoopStop \/ SenderStops
  <2>1. outbox' = outbox /\ delivered' = <<>>
    BY <1>2 DEF StopEpoch, KeepLoop, LoopStop, SenderStops, StopControl
  <2>2. Gone(delivered') = {} BY <2>1, Empties DEF Gone
  <2>. QED BY <2>1, <2>2 DEF Shipped
<1>3. CASE Disconnect
  <2>1. outbox' = NewOutbox /\ delivered' = <<>> BY <1>3 DEF Disconnect
  <2>2. Gone(delivered') = {} /\ Own(outbox'.items, epoch') = {}
    BY <2>1, Empties DEF Gone, Own
  <2>. QED BY <2>2 DEF Shipped
<1>4. CASE Activate
  <2>. DEFINE f == Frame("ACTIVATE", epochs + 1)
  <2>1. epochs \in Nat BY DEF Typed
  <2>2. f \in Frames /\ f.op = "ACTIVATE" BY <2>1, FrameType
  <2>3. SendOut(f) /\ UNCHANGED delivered BY <1>4 DEF Activate, inputs
  <2>. HIDE DEF f
  <2>4. ~IsInput(f) BY <2>2, Limits DEF IsInput
  <2>. QED BY <2>2, <2>3, <2>4, ShippedBesides
<1>5. CASE Activated \/ SendReset
  <2>. DEFINE f == Frame("RESET", stopped)
  <2>1. stopped \in Nat BY DEF Typed
  <2>2. f \in Frames /\ f.op = "RESET" BY <2>1, FrameType
  <2>3. UNCHANGED delivered /\ (SendOut(f) \/ UNCHANGED <<outbox, boxReady>>)
    BY <1>5 DEF Activated, SendReset, inputs
  <2>. HIDE DEF f
  <2>4. ~IsInput(f) BY <2>2, Limits DEF IsInput
  <2>5. CASE SendOut(f) BY <2>2, <2>3, <2>4, <2>5, ShippedBesides
  <2>6. CASE UNCHANGED <<outbox, boxReady>> BY <2>3, <2>6 DEF Shipped
  <2>. QED BY <2>3, <2>5, <2>6
<1>6. CASE SenderPops BY <1>6, WayPops
<1>7. CASE WriterSends BY <1>7, WaySends
<1>. QED
  BY <1>1, <1>2, <1>3, <1>4, <1>5, <1>6, <1>7 DEF Next, Hook, Loop, Sender, Writer

LEMMA BoardedNext == Typed' /\ EpochInv' => (Boarded = Shipped)'
<1>1. Typed /\ EpochInv => Boarded = Shipped BY Bridge
<1>. QED BY <1>1, PTL

LEMMA WayStarts == Init => WayInv
  BY DEF Init, WayInv

\* Controller.enqueue and sender, InputQueue.put and Outbox.writer: while the epoch lasts
\* and neither queue has failed, what was sent and what waits in the two queues is what
\* the user did since the activation: in the order of arrival, none missing and none
\* twice, every coalesced move the way of the pointer over the moves it stands for.
THEOREM NeverLosesInput == Spec => []Lossless
<1>1. Init => Typed /\ TakingInv /\ EpochInv /\ WayInv
  BY TypedStarts, TakingStarts, EpochStarts, WayStarts
<1>2. Typed /\ TakingInv /\ EpochInv /\ WayInv /\ [Next]_vars
          => (Typed /\ TakingInv /\ EpochInv /\ WayInv)'
  BY TypedSteps, TakingSteps, EpochSteps, WaySteps
<1>3. Typed /\ EpochInv /\ WayInv => Lossless BY WayIsLossless
<1>. QED BY <1>1, <1>2, <1>3, PTL DEF Spec

\* InputQueue.put and pop: an event that the sender passes to the outbox stands for no
\* input that arrived longer ago than the age limit, however many moves were summed.
THEOREM AlwaysSendsFresh == Spec => SendsFresh
<1>1. Init => Typed /\ TakingInv /\ EpochInv /\ WayInv
  BY TypedStarts, TakingStarts, EpochStarts, WayStarts
<1>2. Typed /\ TakingInv /\ EpochInv /\ WayInv /\ [Next]_vars
          => (Typed /\ TakingInv /\ EpochInv /\ WayInv)'
  BY TypedSteps, TakingSteps, EpochSteps, WaySteps
<1>3. Typed /\ EpochInv /\ WayInv /\ Typed' /\ EpochInv' /\ [Next]_vars =>
          [epoch' = epoch => \A event \in Boarded' \ Boarded : \A n \in Carried(event) :
               clock - offered[n].arrived <= MaxQueueAge]_vars
  <2>. SUFFICES ASSUME Typed, EpochInv, WayInv, Typed', EpochInv', [Next]_vars,
                       epoch' = epoch, NEW event \in Boarded' \ Boarded,
                       NEW n \in Carried(event)
                PROVE  clock - offered[n].arrived <= MaxQueueAge
    OBVIOUS
  <2>1. Boarded = Shipped /\ Boarded' = Shipped' /\ Under = OnTheWay
    BY Bridge, BoardedNext
  <2>2. n \in StandsFor(OnTheWay, event) BY <2>1 DEF Carried, StandsFor
  <2>. QED BY <2>1, <2>2, ShippedSteps
<1>. QED BY <1>1, <1>2, <1>3, PTL DEF Spec, SendsFresh
===============================================================================
