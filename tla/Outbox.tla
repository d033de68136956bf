-------------------------------- MODULE Outbox --------------------------------
(***************************************************************************)
(* The bounded outbox of remoteinput/transport.py as pure operators, like  *)
(* those of InputQueue: a value of the class Outbox is a record [items,    *)
(* failed].  An outbox that has failed stays so: the class has no clear.   *)
(***************************************************************************)
EXTENDS InputQueue

CONSTANT OutboxLimit  \* capacity, 256

ASSUME OutboxAssumption == OutboxLimit \in Nat \ {0}

NewOutbox == EmptyQueue

BoxFull_OffByOne(box) == Len(box.items) > OutboxLimit
BoxFull(box) == Len(box.items) >= OutboxLimit

\* What is left when there is no room.
BoxOverflowed_DropsItem(box) == box
BoxOverflowed(box) == FailedQueue

\* The critical section of put.
Boxed(box, event, now) ==
    IF BoxFull(box) THEN BoxOverflowed(box)
    ELSE IF box.failed THEN box
    ELSE [box EXCEPT !.items = Append(@, [event |-> event, entered |-> now])]

\* put asks the loop to wake the writer.
BoxWakes(box, event, now) == box.items = <<>> \/ Boxed(box, event, now).failed

\* The writer refuses an item that waited too long.
BoxExpired(item, now) == now - item.entered > MaxQueueAge
===============================================================================
