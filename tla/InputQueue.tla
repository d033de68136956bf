------------------------------ MODULE InputQueue ------------------------------
(***************************************************************************)
(* The bounded queue of remoteinput/queueing.py as pure operators: a value *)
(* of the class InputQueue is a record [items, failed], where an item is   *)
(* [event, entered].  Each operator is one critical section of the code.   *)
(*                                                                         *)
(* An event is a record with at least the fields op, epoch and move.  The  *)
(* two axes of a relative move are one integer here: the code sums and     *)
(* limits each axis alone.                                                 *)
(***************************************************************************)
EXTENDS Config, Sequences

CONSTANT MaxMove  \* the largest sum of coalesced moves (1_000_000 in put)

ASSUME MoveAssumption == MaxMove \in Nat

EmptyQueue == [items |-> <<>>, failed |-> FALSE]
FailedQueue == [items |-> <<>>, failed |-> TRUE]

LastItem(items) == items[Len(items)]

\* The head waited too long when the next event arrives.
Overdue(queue, now) ==
    queue.items # <<>> /\ now - Head(queue.items).entered > MaxQueueAge

\* A move follows a move of the same epoch.
Adjacent(queue, event) ==
    /\ queue.items # <<>>
    /\ event.op = "MOVE"
    /\ LastItem(queue.items).event.op = "MOVE"
    /\ LastItem(queue.items).event.epoch = event.epoch

\* The newer event with both moves; the caller keeps the older arrival time.
Merged(queue, event) ==
    [event EXCEPT !.move = LastItem(queue.items).event.move + event.move]

TooFar_Never(move) == FALSE
TooFar(move) == move > MaxMove \/ move < -MaxMove

\* The merge keeps the arrival time of the older move.
Arrival_Newest(queue, now) == now
Arrival(queue, now) == LastItem(queue.items).entered

Coalesced(queue, event, now) ==
    [event |-> Merged(queue, event), entered |-> Arrival(queue, now)]

\* What is left when there is no room.
Overflowed_DropsEvent(queue) == queue
Overflowed(queue) == FailedQueue

\* put returns True exactly when the new value is not failed.
Put(queue, event, now) ==
    IF queue.failed \/ Overdue(queue, now) THEN FailedQueue
    ELSE IF Adjacent(queue, event)
         THEN IF TooFar(Merged(queue, event).move) THEN FailedQueue
              ELSE [queue EXCEPT !.items[Len(queue.items)] = Coalesced(queue, event, now)]
    ELSE IF Len(queue.items) >= QueueLimit THEN Overflowed(queue)
    ELSE [queue EXCEPT !.items = Append(@, [event |-> event, entered |-> now])]

\* pop raises Overload when the queue has failed or its head is overdue;
\* the value is then FailedQueue.
PopFails(queue, now) == queue.failed \/ Overdue(queue, now)

Popped(queue) == [queue EXCEPT !.items = Tail(@)]

\* put wakes the consumer when the queue was empty or the put made it fail; a put
\* refused because it had already failed returns before the wake.
Wakes_WhenNonempty(queue, event, now) == ~queue.failed /\ queue.items # <<>>

Wakes(queue, event, now) ==
    /\ ~queue.failed
    /\ queue.items = <<>> \/ Put(queue, event, now).failed
===============================================================================
