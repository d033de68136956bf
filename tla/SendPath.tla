------------------------------- MODULE SendPath -------------------------------
(***************************************************************************)
(* The way of an input from the controller's hook thread to its socket     *)
(* (remoteinput/controller.py, queueing.py and transport.py): the hook     *)
(* puts it in the input queue, the sender task moves it to the outbox,     *)
(* where it joins activations and resets, and the writer task sends it;    *)
(* heartbeats and probes, which take room there as well, are left out.     *)
(* Both tasks sleep on an asyncio event that a put sets.                   *)
(*                                                                         *)
(* The put asks the loop to set it (call_soon_threadsafe), which the loop  *)
(* does before the task can sleep on it again: here the put sets it.       *)
(*                                                                         *)
(* The hook thread runs at any time, also between the lines of its own     *)
(* stop_control and those that take up a new epoch on the loop.  Other     *)
(* steps of the event loop are those between two awaits, except that the   *)
(* sender's loop over the queue, which never awaits, is one step for each  *)
(* event (sender = "drain" keeps the loop).  A stop on the loop is one     *)
(* step: only the hook's puts could fall into it, and what they put before *)
(* its clear is cleared as well.                                           *)
(***************************************************************************)
EXTENDS Outbox

CONSTANTS
    InputOps,   \* operations of the inputs; only "MOVE" coalesces
    Moves,      \* movements of the moves, each across the desktop at most
    MaxClock,   \* bound: last tick of the clock
    MaxOffers,  \* bound: inputs of one activation
    MaxEpoch,   \* bound: activations
    MaxResets   \* bound: resets scheduled when a hotkey or the monitor stops

ASSUME SendAssumption ==
    /\ InputOps \subseteq {"MOVE", "KEY", "BUTTON", "SCROLL"}
    /\ Moves \subseteq -MaxMove .. MaxMove
    /\ MaxClock \in Nat /\ MaxOffers \in Nat /\ MaxEpoch \in Nat /\ MaxResets \in Nat

VARIABLES
    clock,
    \* --- fields of the controller ---
    connected, epoch, pending, queue, outbox,
    resets,          \* calls of send_reset the loop was asked for
    \* --- the hook thread ---
    hook,            \* "idle", in enqueue: "put" or "stop", or the next line of its
                     \* stop_control: "stop_pending", "stop_queue" or "stop_schedule"
    checked,         \* the epoch that enqueue's first line saw
    \* --- the loop, its tasks and their wakes ---
    loop,            \* "run", or the next part of line 132: "load", "take" or "taken"
    loaded,          \* its copy of pending
    sender,          \* "off", "start", "drain", "overload" or "wait"
    ready,           \* the sender's event
    writer,          \* "off", "start", "drain", "wait" or "dead"
    boxReady,
    \* --- history ---
    epochs,          \* activations attempted
    begun,           \* the newest epoch whose ACTIVATE was sent
    stopped,         \* the newest epoch that was stopped
    ended,           \* the newest epoch whose RESET was sent, or that needs none
    answered,        \* the newest epoch that the target said is activated
    revived,         \* epochs that line 132 stored after a stop had ended them
    offered,         \* inputs put in the present epoch, in order: the event, its
                     \* arrival and the way of the pointer since the activation
    delivered        \* those that were sent

wakes == <<ready, boxReady>>
inputs == <<offered, delivered>>
marks == <<epochs, begun, stopped, ended, answered, revived>>
taking == <<loop, loaded>>
session == <<connected, epoch, pending, queue, outbox, resets>>
vars == <<clock, session, hook, checked, taking, sender, writer, wakes, marks, inputs>>

Frame(op, e) == [op |-> op, epoch |-> e, move |-> 0, seq |-> 0]
IsInput(event) == event.op \in InputOps

Init ==
    /\ clock = 0 /\ connected = FALSE /\ epoch = 0 /\ pending = 0
    /\ queue = EmptyQueue /\ outbox = NewOutbox /\ resets = 0
    /\ hook = "idle" /\ checked = 0 /\ loop = "run" /\ loaded = 0
    /\ sender = "off" /\ writer = "off"
    /\ ready = FALSE /\ boxReady = FALSE
    /\ epochs = 0 /\ begun = 0 /\ stopped = 0 /\ ended = 0
    /\ answered = 0 /\ revived = {}
    /\ offered = <<>> /\ delivered = <<>>

-------------------------------------------------------------------------------
\* stop_control on the loop; what it ends is told by a later send_reset.

Stopped == IF epoch # 0 \/ pending # 0 THEN epochs ELSE stopped

StopControl ==
    /\ epoch' = 0 /\ pending' = 0
    /\ queue' = EmptyQueue
    /\ resets' = resets + 1
    /\ stopped' = Stopped
    /\ offered' = <<>> /\ delivered' = <<>>
    /\ UNCHANGED <<clock, connected, outbox, taking, wakes, epochs, begun, ended, answered,
                   revived>>

\* A frame enters the outbox, and the loop is asked to wake the writer.
SendOut(frame) ==
    /\ outbox' = Boxed(outbox, frame, clock)
    /\ boxReady' = (boxReady \/ BoxWakes(outbox, frame, clock))

-------------------------------------------------------------------------------
\* The hook thread: Controller.enqueue.

Enqueue ==
    /\ hook = "idle" /\ connected /\ epoch # 0
    /\ hook' = "put" /\ checked' = epoch
    /\ UNCHANGED <<clock, session, taking, sender, writer, wakes, marks, inputs>>

\* The way of the pointer after the first n inputs.
Way(n) == IF n = 0 THEN 0 ELSE offered[n].way

\* The event gets the epoch as a second read finds it, between the check and the put;
\* an event of an epoch that is over is put as well.
PutInput ==
    /\ hook = "put" /\ Len(offered) < MaxOffers
    /\ \E op \in InputOps, move \in Moves, read \in {checked, epoch} :
        LET event == [op |-> op, epoch |-> read, seq |-> Len(offered) + 1,
                      move |-> IF op = "MOVE" THEN move ELSE 0]
        IN  /\ queue' = Put(queue, event, clock)
            /\ ready' = (ready \/ Wakes(queue, event, clock))
            /\ offered' = IF epoch # 0 /\ read = epoch
                          THEN Append(offered, [event |-> event, arrived |-> clock,
                                                way |-> Way(Len(offered)) + event.move])
                          ELSE offered
    /\ hook' = IF queue'.failed THEN "stop" ELSE "idle"
    /\ checked' = 0
    /\ UNCHANGED <<clock, connected, epoch, pending, outbox, resets, taking, sender, writer,
                   boxReady, marks, delivered>>

\* Bound: only when there is something to stop.
Stopping == (epoch # 0 \/ pending # 0) /\ resets < MaxResets

KeepLoop ==
    UNCHANGED <<clock, connected, outbox, checked, taking, sender, writer, wakes, epochs,
                begun, ended, answered, revived>>

\* stop_control on the hook thread, line by line: the put was refused, or a hotkey or
\* the watchdog stops.
StopEpoch ==
    /\ hook = "stop" \/ (hook = "idle" /\ Stopping)
    /\ hook' = "stop_pending"
    /\ epoch' = 0 /\ stopped' = Stopped
    /\ offered' = <<>> /\ delivered' = <<>>
    /\ UNCHANGED <<pending, queue, resets>> /\ KeepLoop

\* It may end an activation that began since.
StopPending ==
    /\ hook = "stop_pending" /\ hook' = "stop_queue"
    /\ pending' = 0 /\ stopped' = Stopped
    /\ UNCHANGED <<epoch, queue, resets, inputs>> /\ KeepLoop

StopQueue ==
    /\ hook = "stop_queue" /\ hook' = "stop_schedule"
    /\ queue' = EmptyQueue
    /\ UNCHANGED <<epoch, pending, resets, stopped, inputs>> /\ KeepLoop

StopSchedule ==
    /\ hook = "stop_schedule" /\ hook' = "idle"
    /\ resets' = resets + 1
    /\ UNCHANGED <<epoch, pending, queue, stopped, inputs>> /\ KeepLoop

HookStops == StopPending \/ StopQueue \/ StopSchedule

-------------------------------------------------------------------------------
\* The event loop.

LoopFree == loop = "run" /\ sender \notin {"drain", "overload"}

Activate ==
    /\ LoopFree /\ connected /\ epoch = 0 /\ pending = 0 /\ epochs < MaxEpoch
    /\ epochs' = epochs + 1 /\ pending' = epochs + 1
    /\ queue' = EmptyQueue
    /\ SendOut(Frame("ACTIVATE", epochs + 1))
    /\ UNCHANGED <<clock, connected, epoch, resets, hook, checked, taking, sender, writer,
                   ready, begun, stopped, ended, answered, revived, inputs>>

\* The target has answered an ACTIVATE that was sent; RESET, when nobody waits for it.
Activated ==
    /\ LoopFree /\ connected
    /\ \E e \in answered + 1 .. begun :
        /\ answered' = e
        /\ IF e = pending THEN loop' = "load" /\ UNCHANGED <<outbox, boxReady>>
           ELSE SendOut(Frame("RESET", stopped)) /\ UNCHANGED loop
    /\ UNCHANGED <<clock, connected, epoch, pending, queue, resets, hook, checked, loaded,
                   sender, writer, ready, epochs, begun, stopped, ended, revived, inputs>>

\* self.epoch, self.pending_epoch = self.pending_epoch, 0
Load ==
    /\ loop = "load" /\ loop' = "take"
    /\ loaded' = pending
    /\ UNCHANGED <<clock, session, hook, checked, sender, writer, wakes, marks, inputs>>

\* A stop on the hook thread has got to its first store, and now goes unnoticed.
Overtaken == loaded # 0 /\ (hook = "stop_pending" \/ pending # loaded)

Take ==
    /\ loop = "take" /\ loop' = "taken"
    /\ epoch' = loaded /\ loaded' = 0
    /\ revived' = IF Overtaken THEN revived \cup {loaded} ELSE revived
    /\ UNCHANGED <<clock, connected, pending, queue, outbox, resets, hook, checked, sender,
                   writer, wakes, epochs, begun, stopped, ended, answered, inputs>>

Taken ==
    /\ loop = "taken" /\ loop' = "run"
    /\ pending' = 0
    /\ UNCHANGED <<clock, connected, epoch, queue, outbox, resets, hook, checked, loaded,
                   sender, writer, wakes, marks, inputs>>

TakeEpoch == Load \/ Take \/ Taken

\* The scheduled send_reset.
SendReset ==
    /\ LoopFree /\ resets > 0 /\ resets' = resets - 1
    /\ IF connected THEN SendOut(Frame("RESET", stopped)) ELSE UNCHANGED <<outbox, boxReady>>
    /\ UNCHANGED <<clock, connected, epoch, pending, queue, hook, checked, taking, sender,
                   writer, ready, marks, inputs>>

\* A timeout of the monitor, or the target has paused.
LoopStop ==
    /\ LoopFree /\ connected /\ Stopping
    /\ StopControl
    /\ UNCHANGED <<hook, checked, sender, writer>>

-------------------------------------------------------------------------------
\* Controller.sender.

\* The task starts, or its wait is over: it clears the event before it looks.
SenderStarts ==
    /\ LoopFree
    /\ sender = "start" \/ (sender = "wait" /\ ready)
    /\ sender' = "drain" /\ ready' = FALSE
    /\ UNCHANGED <<clock, session, hook, checked, taking, writer, boxReady, marks, inputs>>

\* An input of an epoch that is over is dropped.
Passes_AnyEpoch(event) == epoch # 0
Passes(event) == epoch # 0 /\ event.epoch = epoch

SenderPops ==
    /\ sender = "drain"
    /\ IF PopFails(queue, clock)
       THEN queue' = FailedQueue /\ sender' = "overload" /\ UNCHANGED <<outbox, boxReady>>
       ELSE IF queue.items = <<>>
            THEN sender' = "wait" /\ UNCHANGED <<queue, outbox, boxReady>>
            ELSE /\ queue' = Popped(queue)
                 /\ IF Passes(Head(queue.items).event)
                    THEN SendOut(Head(queue.items).event) ELSE UNCHANGED <<outbox, boxReady>>
                 /\ UNCHANGED sender
    /\ UNCHANGED <<clock, connected, epoch, pending, resets, hook, checked, taking, writer,
                   ready, marks, inputs>>

SenderStops ==
    /\ sender = "overload" /\ sender' = "wait"
    /\ StopControl
    /\ UNCHANGED <<hook, checked, writer>>

Sender == SenderStarts \/ SenderPops \/ SenderStops

-------------------------------------------------------------------------------
\* Outbox.writer.

WriterStarts ==
    /\ LoopFree
    /\ writer = "start" \/ (writer = "wait" /\ boxReady)
    /\ writer' = "drain" /\ boxReady' = FALSE
    /\ UNCHANGED <<clock, session, hook, checked, taking, sender, ready, marks, inputs>>

\* One turn of the inner loop.  The send is part of it: while it lasts the outbox only
\* fills, as it does while the writer waits for its turn.
WriterSends ==
    /\ LoopFree /\ writer = "drain"
    /\ ~outbox.failed /\ outbox.items # <<>> /\ ~BoxExpired(Head(outbox.items), clock)
    /\ outbox' = Popped(outbox)
    /\ LET frame == Head(outbox.items).event
       IN  /\ begun' = IF frame.op = "ACTIVATE" THEN frame.epoch ELSE begun
           /\ ended' = IF frame.op = "RESET" THEN frame.epoch ELSE ended
           /\ delivered' = IF IsInput(frame) /\ frame.epoch = epoch
                           THEN Append(delivered, frame) ELSE delivered
    /\ UNCHANGED <<clock, connected, epoch, pending, queue, resets, hook, checked, taking,
                   sender, writer, wakes, epochs, stopped, answered, revived, offered>>

WriterSleeps ==
    /\ LoopFree /\ writer = "drain" /\ ~outbox.failed /\ outbox.items = <<>>
    /\ writer' = "wait"
    /\ UNCHANGED <<clock, session, hook, checked, taking, sender, wakes, marks, inputs>>

\* The outbox has failed, its head is late, or ws.send times out or raises.
WriterFails ==
    /\ LoopFree /\ writer = "drain"
    /\ outbox.failed \/ outbox.items # <<>>
    /\ writer' = "dead"
    /\ UNCHANGED <<clock, session, hook, checked, taking, sender, wakes, marks, inputs>>

Writer == WriterStarts \/ WriterSends \/ WriterSleeps \/ WriterFails

-------------------------------------------------------------------------------
\* Connections: a new outbox each, the same queue and sender's event.

Connect ==
    /\ ~connected /\ connected' = TRUE
    /\ sender' = "start" /\ writer' = "start"
    /\ UNCHANGED <<clock, epoch, pending, queue, outbox, resets, hook, checked, taking, wakes,
                   marks, inputs>>

\* A task has ended or the socket is gone: run_tasks cancels the others, and the
\* finally clause of run pauses.
Disconnect ==
    /\ LoopFree /\ connected /\ connected' = FALSE
    /\ epoch' = 0 /\ pending' = 0 /\ queue' = EmptyQueue
    /\ outbox' = NewOutbox /\ boxReady' = FALSE
    /\ sender' = "off" /\ writer' = "off"
    /\ begun' = epochs /\ answered' = epochs /\ stopped' = epochs /\ ended' = epochs
    /\ offered' = <<>> /\ delivered' = <<>>
    /\ UNCHANGED <<clock, resets, hook, checked, taking, ready, epochs, revived>>

Advance ==
    /\ clock < MaxClock /\ clock' = clock + 1
    /\ UNCHANGED <<session, hook, checked, taking, sender, writer, wakes, marks, inputs>>

Hook == Enqueue \/ PutInput \/ StopEpoch \/ HookStops

Loop ==
    \/ Activate \/ Activated \/ TakeEpoch \/ SendReset \/ LoopStop
    \/ Sender \/ Writer \/ Connect \/ Disconnect

Next == Hook \/ Loop \/ Advance

Spec == Init /\ [][Next]_vars

\* Both threads run: the loop its callbacks and tasks, the hook thread a stop to its end;
\* and a dead writer ends the connection.
FairSpec ==
    /\ Spec
    /\ WF_vars(HookStops) /\ WF_vars(TakeEpoch)
    /\ WF_vars(SendReset) /\ WF_vars(Sender) /\ WF_vars(Writer)
    /\ WF_vars(writer = "dead" /\ Disconnect)

-------------------------------------------------------------------------------

\* The type invariant; neither queue exceeds its limit.
TypeOK ==
    /\ clock \in 0 .. MaxClock /\ {connected, ready, boxReady} \subseteq BOOLEAN
    /\ {epoch, pending, checked, loaded, begun, stopped, ended, answered} \subseteq 0 .. epochs
    /\ revived \subseteq 1 .. epochs
    /\ epochs \in 0 .. MaxEpoch /\ resets \in Nat
    /\ {queue.failed, outbox.failed} \subseteq BOOLEAN
    /\ Len(queue.items) <= QueueLimit /\ Len(outbox.items) <= OutboxLimit
    /\ \A i \in DOMAIN queue.items : queue.items[i].event.move \in -MaxMove .. MaxMove
    /\ hook \in {"idle", "put", "stop", "stop_pending", "stop_queue", "stop_schedule"}
    /\ loop \in {"run", "load", "take", "taken"}
    /\ sender \in {"off", "start", "drain", "overload", "wait"}
    /\ writer \in {"off", "start", "drain", "wait", "dead"}

\* The inputs of the present epoch that were sent, wait in the outbox, and in the queue.
Mine(event) == IsInput(event) /\ event.epoch = epoch
MineIn(items) == {event \in {items[i].event : i \in DOMAIN items} : Mine(event)}
Sent == {delivered[i] : i \in DOMAIN delivered}
Boarded == Sent \cup MineIn(outbox.items)
Under == Boarded \cup MineIn(queue.items)

\* The inputs that an event under way stands for: its own and those that were added to
\* it, back to the event before.
Carried(event) ==
    {n \in 1 .. event.seq : \A e \in Under : e.seq < n \/ e.seq >= event.seq}

Behind(later, earlier) == \A e \in earlier, f \in later : e.seq < f.seq
Rising(items) ==
    \A i, j \in DOMAIN items :
        i < j /\ Mine(items[i].event) /\ Mine(items[j].event)
            => items[i].event.seq < items[j].event.seq

\* Nothing overtakes anything on the way through the two queues.
InOrder ==
    /\ \A i, j \in DOMAIN delivered : i < j => delivered[i].seq < delivered[j].seq
    /\ Rising(outbox.items) /\ Rising(queue.items)
    /\ Behind(MineIn(outbox.items), Sent) /\ Behind(MineIn(queue.items), Boarded)

\* An event is the last input it stands for, and takes the pointer from where the event
\* before left it to where the user had it then; it stands for moves if for several.
Faithful(event) ==
    /\ event.seq \in DOMAIN offered
    /\ event = [offered[event.seq].event EXCEPT !.move = event.move]
    /\ \A n \in Carried(event) :
          /\ n # event.seq => offered[n].event.op = "MOVE" /\ event.op = "MOVE"
          /\ n - 1 \in {0} \cup {e.seq : e \in Under}
                => event.move = Way(event.seq) - Way(n - 1)

\* The newest input is under way, alone or with others.
Complete == offered # <<>> => \E e \in Under : e.seq = Len(offered)

\* While the connection and the epoch last, no input is lost, doubled or reordered on
\* its way: what was sent and what waits in the two queues is what the user did, up to
\* the summing of adjacent moves.  A queue that had to drop anything has failed.
Lossless ==
    connected /\ epoch # 0 /\ ~queue.failed /\ ~outbox.failed /\ writer # "dead" =>
        InOrder /\ Complete /\ \A event \in Under : Faithful(event)

\* No movement in an input that enters the outbox is older than the age limit
\* ("Coalescing keeps the first arrival time so it cannot conceal stale work"); there
\* it may wait for the limit once more.
SendsFresh ==
    [][epoch' = epoch =>
        \A event \in Boarded' \ Boarded : \A n \in Carried(event) :
            clock - offered[n].arrived <= MaxQueueAge]_vars

\* No input follows the RESET of the stop that ended its epoch on the wire, although
\* the hook thread may put one in the queue after the stop emptied it.  The exception is
\* an epoch that line 132 stored after its stop: its inputs do follow the RESET.
NothingAfterReset ==
    \A j \in DOMAIN outbox.items :
        IsInput(outbox.items[j].event) /\ outbox.items[j].event.epoch \notin revived =>
            /\ outbox.items[j].event.epoch > ended
            /\ \A i \in 1 .. j - 1 : outbox.items[i].event.op = "RESET" =>
                  outbox.items[i].event.epoch < outbox.items[j].event.epoch

\* Neither task sleeps through work: a wake is under way whenever something waits, or
\* a failure is to be reported, although only some puts wake.
NoLostWakeup ==
    /\ sender = "wait" /\ (queue.items # <<>> \/ queue.failed)
        => ready
    /\ writer = "wait" /\ (outbox.items # <<>> \/ outbox.failed) => boxReady

\* A stop reaches the target: its RESET is sent, or the connection ends.
StopsReachTarget == (ended < stopped) ~> (ended = stopped)
===============================================================================
