------------------------------ MODULE MCSendPath ------------------------------
(* A small instance of the way of an input for TLC. *)
EXTENDS SendPath

\* Two moves add up to a limit passed on either side, or to none.
BothWays == {-1, 1}

\* States that differ only in what no step reads again are one: nobody reads the
\* outbox of a writer that is dead, whether a task that will look anyway was woken,
\* the epochs answered, more of an input than its epoch when that is over, and when
\* something came that the clock's bound keeps from being late.
InTime(t) == t + MaxQueueAge >= MaxClock
Seen(items, Whole(_), Part(_)) ==
    [i \in DOMAIN items |->
        <<InTime(items[i].entered),
          IF Whole(items[i].event) THEN items[i].event ELSE Part(items[i].event)>>]
Task(control, woken) ==
    IF control = "off" THEN <<>>
    ELSE IF control = "start" THEN <<"wait", TRUE>> ELSE <<control, woken>>

LiveQueue ==
    LET Present(event) == event.epoch = epoch
        Weight(event) == <<event.op, event.epoch, event.move>>
    IN  <<queue.failed, Seen(queue.items, Present, Weight)>>

LiveOutbox ==
    LET Present(event) == IsInput(event) => event.epoch = epoch
        Epoch(event) == event.epoch
        passing == {outbox.items[i].event.epoch :
                        i \in {j \in DOMAIN outbox.items : IsInput(outbox.items[j].event)}}
    IN  <<outbox.failed, Seen(outbox.items, Present, Epoch), Task(writer, boxReady),
          delivered, revived \cap (passing \cup {epoch})>>

LiveState ==
    <<clock, connected, epoch, pending, LiveQueue, resets, hook, checked, taking,
      Task(sender, ready), epochs, stopped, ended,
      IF answered = begun THEN <<>> ELSE <<answered, begun>>,
      IF writer = "dead" THEN <<>> ELSE LiveOutbox,
      [i \in DOMAIN offered |->
          <<offered[i].event, offered[i].way, InTime(offered[i].arrived)>>]>>
===============================================================================
