# A formal model of RemoteInput

RemoteInput lets the keyboard and mouse of a Windows computer (the *controller*)
drive another computer (the *target*) through a *relay*.  This directory holds
TLA+ modules of its stateful parts, TLC configurations that check them on small
instances, and TLAPS proofs for every instance.  Paths below are relative to
`src/remoteinput/` in the repository.

## 1. The system

| component | state | operations | what makes it correct |
|---|---|---|---|
| `timing.py` NetworkTiming | smoothed rtt, variation | `observe`, `timeout`, `input_timeout` | the deadline is bounded and covers the current route |
| `queueing.py` InputQueue | items with arrival times, `failed` | `put`, `pop`, `clear`, `wake` | nothing lost, late or reordered silently; the consumer wakes |
| `safety.py` TargetEngine | leases, heartbeat times, epoch, seq, held keys and buttons, `blocked`, queue | `receive`, `tick`, `process_one`, `reset`, `set_connected`, `peer_changed`, `stop` | nothing is held without recent proof of a live controller; holds are released; the controller is told |
| `capture.py` CapturePolicy | `active`, physical keys, `ignored`, `swallowed`, `pending`, `forwarded` | `key`, `mouse`, `activate`, `pause` | each press belongs to one computer, and its release too |
| `platforms/windows.py` WindowsCapture | requested state, one posted message, cursor origin | `set_active`, `_apply_state`, `_pump_tick`, hooks | suppression follows the last request; the cursor returns |
| `controller.py` Controller | `epoch`, `pending_epoch`, `lease`, queue, connection | hotkeys, `activate`, `stop_control`, `enqueue`, `sender`, `reader`, `monitor`, `run` | controller and target agree on who is in control |
| `target.py` Target, `vault.py` | `rotating`, identity (durable) | connect, register, rotate, finish | a password change survives losses and is never half done |
| `relay.py` Relay | `targets`, `controllers`, `pair_lock` | admit, forward, rotate, detach | only the admitted controller's input reaches the target |
| `registry.py` Registry, RateLimit | SQLite rows; sliding windows | `register`, `login`, `rotate`; `allow` | rotation is idempotent; limits cannot be reset |
| `transport.py` Outbox | items, `failed` | `put`, `writer` | a reset is never skipped |
| `protocol.py`, `cli.py`, `metrics.py`, `instance.py`, injectors, scripts | | | not modelled |

How they interact.  On the controller the *hook thread* runs the hooks, which
call the policy, which calls `enqueue` or the hotkey handlers; the *event loop*
runs reader, sender, monitor and scheduled callbacks.  They share the fields of
Controller without a lock, the policy under a reentrant lock, and the input
queue under its own.  Frames go through the relay, which keeps them in order
per connection, to the target's *network thread*; it puts input on the
engine's queue and calls `reset`, `set_connected` and `peer_changed` under the
engine's lock; the *worker thread* alternates `tick` and `process_one`.
Challenges, "activated" and "paused" go back the same way.

What is hard: two threads on both ends with gaps between two locks; native
calls that dispatch hook callbacks on the same thread; calls to the operating
system that fail half way; late, repeated and overtaken frames of several
activations; deadlines racing the answers they wait for; connections that are
lost, half-open and made again while a password is being changed; threads that
outlive the handler that started them.  `PROJECT.json` lists these hazards at
their lines, with the properties that would catch them going wrong.

## 2. The modules

| module | models | extends |
|---|---|---|
| `Config` | the limits of `config.py`, with their assumptions | |
| `NetworkTiming` | `timing.py` as operators on a record | `Config` |
| `NetworkTimingSpec`, `MCNetworkTiming` | the life of one estimate | `NetworkTiming` |
| `InputQueue` | `queueing.py` as operators on a record | `Config` |
| `Outbox` | `put` of `transport.py` as operators on a record | `InputQueue` |
| `SendPath`, `MCSendPath` | hook thread, input queue, sender, outbox and writer up to the socket | `Outbox` |
| `RateLimit`, `MCRateLimit` | the limiter of `registry.py`, with the history of what it granted | |
| `ControlSession` | what a target promises about control, abstractly | |
| `TargetEngine`, `MCTargetEngine` | `safety.py`, both threads; implements `ControlSession` | `InputQueue`, `NetworkTiming` |
| `CapturePolicy`, `MCCapturePolicy` | `capture.py` | |
| `WindowsCapture` | `set_active` and `_apply_state` | |
| `Controller`, `MCController` | `controller.py`, both threads, over an instance of `ControlSession` | `WindowsCapture` |
| `Pairing`, `MCPairing` | first registration, relay admission and password rotation: `relay.py`, `registry.py`, `target.py`, `vault.py` | |
| `NetworkTimingLemmas`, `*Proofs` | theorems, one module for each of `NetworkTimingSpec`, `TargetEngine`, `RateLimit`, `CapturePolicy`, `Controller`, `Pairing` and `SendPath` | the module they are about |

State and actions carry the names of the code.  The correspondence of every
definition with lines of source is the `map` of `PROJECT.json`.  The choices
that need a word:

- **Steps.**  A step is what happens between two points where the other thread
  may be seen: a critical section, the code between two awaits, or a line where
  a field is shared without a lock.  `process_one` is `Pop` (the queue's lock),
  then `Apply` (the engine's lock), then possibly `Fail` (the except clause);
  `receive` is `ReceiveFrame` and, when the put fails, `OverloadReset`.
  `stop_control` is five steps, one per line (`StopLine`), on either thread, and
  the tuple assignment at `controller.py:132` is three.
- **Time** is a natural number of ticks in the queue and the engine, and
  abstract in `Controller` and `Pairing`, where a deadline may pass at any
  moment.  `NetworkTiming` rounds the averages down to a tick; the runs use
  ticks of 20 ms and the proofs do not depend on it.
- **Frames** reach the engine in any order and of any age and epoch that a peer
  may have sent (`Frames`), which contains what FIFO connections deliver.
- **The operating system** on the target is the set `down` of what it holds and
  calls that may fail while `faulty`; a press that raises may have happened.
- **The target, twice.**  `ControlSession` says what a target promises: an epoch
  that was offered may begin once, in order, and one that ended never comes back;
  an offer may be dropped, declined or begin late.  `TargetEngine` implements it
  (`ImplementsSession`), with the epoch it has announced as the session and the
  ACTIVATE messages that are queued or popped as the offers.  `Controller` has no
  other target than an instance of it: `TargetDecides` takes its `Begin` and
  `Recede` and adds the messages an engine would send.  So what holds of the
  controller holds with the engine, also when an activation that the worker had
  popped begins after the RESET that followed it.
- **The send path.**  In `Controller` the way of an input is one queue; in
  `SendPath` it is the two queues with their locks, limits, ages and events, and
  the activation protocol is reduced to what fills and empties them.  The history
  `offered` has each input with its time and with where the pointer was after it
  (`way`), so that a coalesced move can be compared with the moves it stands for
  as a difference of two positions.
- **A full queue** on the controller's side pauses the policy in the middle of
  `key` or `mouse`; `CapturePolicy` takes every prefix of the emitted events as
  the part that was accepted.
- **The relay** is one asyncio program: its `pair_lock` and the threads it waits
  for are explicit in `Pairing`, and a cancelled handler leaves its thread in
  `orphans` or `enrolling`.  The queue to the target holds `QueueSize` messages,
  those on the wire included; a put that finds it full fails the handler that put,
  before or after what the handler has already recorded.  A late message, a failed
  send and a bad message also end a handler and are `DetachTarget` and
  `DetachController`, which may happen at any time.
- **The limiter's table** is an OrderedDict; `RateLimit` keeps for each bucket the
  set of those ahead of it, which is what eviction reads, and makes `allow` two
  disjuncts, a new key refused by a full table and an attempt that is counted.
  Whether it counts right is asked of `granted`, the times of each key's latest
  grants, one more than the limit allows in a window.
- **History variables** (marked in each module) are read by no guard.

Assumptions: no key is down when the hooks are installed and the hooks see
every event; the hook thread does not die; `permitted()` does not raise; random
nonces, epochs and passwords are fresh; the vault's own calls succeed; nobody
logs in with a password that the target has not shown yet.

## 3. What the runs check

| run | question | bounds |
|---|---|---|
| `timing` | the deadline covers the last round trip | the real limits in 20 ms ticks; round trips 0 to beyond the absolute bound |
| `sendpath` | lossless up to coalescing, fresh, nothing after its RESET, no lost wakeup, every stop is told | two queues of 2 places, 2 inputs in each of 2 epochs, ages 0 to 2 with limit 1 |
| `ratelimit` | never more than the limit, refuses only excess, places are recent | 3 keys for 2 places, 2 attempts in 3 ticks, 7 ticks |
| `engine_lease` | heartbeats, replay, expiry, retention, reconnection; a failed queue is noticed | 2 challenges, 1 epoch, 6 instants with a deadline of 2 |
| `engine_input` | holds, failing calls, overload, resets between threads, refinement of `ControlSession`, releases retried | 2 keys of which one unsupported, 1 button, 2 epochs, a queue of 1, one instant |
| `policy` | ownership of presses and releases | one Ctrl, one Alt, F9, one plain key, one button |
| `controller` | who is in control, suppression, cursor | 2 activations, 4 hotkeys, one message each way besides the answers |
| `pairing` | whose input is accepted, the target knows who has gone, one ID, rotation completes | 2 controllers, 3 passwords, 2 presses of P, a queue of 2, 2 drops, overloads or crashes |
| `policy_ignored`, `controller_suppress`, `pairing_password`, `pairing_reconnect` | violated by the code: section 5 | as small as shows it |

Why the bounds are enough.  Each is the smallest at which the hazards happen,
and one more where that is affordable:
three keys for two places, so that one finds the table full of others that expire
at different times, and one comes back after its eviction; two keys so that one
release can fail and the other succeed; two epochs so that frames of an old one arrive in a new
one; two challenges so that one can be repeated after a newer one; a clock that
passes the deadline and the retention; two controllers so that a revoked one
meets its successor; three passwords so that a stale reply meets a later
rotation; two drops so that a retry is itself lost.  Each property is violated
when the code it depends on is changed the way a plausible bug would: the
mutants (`Name_Variant` next to `Name`) are listed in `PROJECT.json`.

Views and symmetry.  `engine_lease` and `policy` identify states that differ
only in values no step and no property will read again (`LiveState` in the MC
module says which and why); `ratelimit` is symmetric in its keys.  These runs
check invariants and action properties, not liveness; `sendpath`,
`engine_input` and `pairing`, which check liveness, use neither.

Deadlock checking is off where everybody may stop: the engine after `stop()`,
at the last tick, and the send path and the limiter after the last.

Fairness.  The worker loops for ever, with a wait of 10 ms at most, so `Worker`
is weakly fair; a thread that has left the queue's lock goes on, so
`OverloadReset` is.  In `SendPath` the event loop runs its callbacks and tasks,
so `SendReset`, `Sender` and `Writer` are, and the end of the task group once the
writer has failed; neither the hook thread nor the network is.  In `Pairing` both programs run,
connection losses are noticed by the keepalive pings, and `asyncio.Lock` serves
its waiters in order, which is why `BeginRotate` and `Register \/ Refuse` are
strongly fair although controllers keep taking the lock; overloads that break
the connection are bounded like drops, and `EndRotate` is strongly fair because
a queue that empties again and again has room when the handler comes back.  Nothing that a user,
a peer or the operating system does is assumed.

Two properties have exceptions, which are behaviour of the code worth knowing:
keys whose press the queue refused (`refused`: after the pause the call still
adds them to `forwarded`, and the next pause swallows a release) are excluded
from `LocalKeysReleased` and `OnePlace`; and a pause whose message Windows
refused (`unposted`) may leave the cursor at its anchor until the next one.

## 4. What is proved

Every safety property and every action property that the runs check, the type
invariants included, and the refinement of `ControlSession`: for all values of the
constants, from the named assumptions on them (`ConfigAssumption`,
`MoveAssumption`, `OutboxAssumption`, `SendAssumption`, `EngineAssumption`,
`SamplesAssumption`, `LimitAssumption`, `PolicyAssumption`, `ControllerAssumption`,
`PairingAssumption`).  They say that limits are natural numbers, positive where
the code divides or needs room; that the modifiers and hotkeys are distinct keys;
that no controller goes by the name of another holder of the relay's lock; and that
a single move is no longer than the largest that the wire can carry.  Bounds of the
runs (`MaxClock`, `MaxEpoch`, `MaxOffers`, ...) are any natural number, so that
each theorem holds of every finite behaviour.

| theorem | states | by |
|---|---|---|
| `TimingTypeCorrect`, `DeadlineIsBounded`, `DeadlineAlwaysCovers` | the two properties of `timing`, and that the deadline is within its limits | bounds of integer division; `EstimateCoversSample` |
| `EngineTypeCorrect` | `TypeOK` of the engine | one lemma per operator, one step per action |
| `HoldsAlwaysTracked`, `PausedAlwaysReleases`, `NoPressEverCrosses`, `BlockedNeverPresses` | what may be pressed | `HoldInvariant` |
| `FailureAlwaysNoticed` | a failed queue is about to be reset | inductive with `TypeOK` |
| `ControlAlwaysNeedsProof`, `RenewsAtMostOnce` | how long control lasts | `LeaseInvariant` |
| `ToldIsEpoch` | the controller's view | `OrderInvariant` |
| `EngineImplementsSession` | the engine implements `ControlSession` | every step decides, recedes or offers, under `OrderInvariant` |
| `TypeCorrect`, `RecentPlaces` | the limiter's capacity and the age of its places | `IInv` |
| `NeverExceedsAttempts`, `AlwaysRefusesExcess` | what the limiter grants and refuses | `GrantInv` |
| `PolicyTypeCorrect`, `RemoteAlwaysHeld`, `LocalAlwaysReleased`, `PressInOnePlace`, `ChordAlwaysLocal` | whose a press and its release are | `IInv` of the policy |
| `ControllerTypeCorrect` | `TypeOK` of the controller | `Typed` |
| `SuppressesOnNewestRequest`, `CursorAlwaysFollows` | the capture | `CursorInv` |
| `NeverOrphanControl` | the target is not in control alone | `LoopInv`, `OrphanInv` |
| `NeverDeadControl` | the controller is not in control alone | `LoopInv`, `AnswersInv`, `DeadInv` |
| `PairingTypeCorrect`, `NeverAnotherID` | types, and one ID for one target | `Recorded`, `Locked` |
| `AlwaysAnnouncedFirst` | whose input the target hears | `AnnouncedInv` |
| `RevokedNeverReturn` | nobody revoked is heard again | `RevokedInv` |
| `NeverGhost` | the target knows who has gone | `GhostInv` |
| `SendPathTypeCorrect`, `NeverLostWakeup` | limits of the two queues; the wakes | `Typed`; inductive by itself |
| `NoInputAfterReset` | the order on the wire | `OrderInv` of the send path |
| `NeverLosesInput`, `AlwaysSendsFresh` | what is under way | `EpochInv`, `WayInv` |

The properties are seldom inductive by themselves.

- `HoldInvariant` adds that a paused engine holds nothing unless blocked, that a
  disconnected or stopped engine is paused, and that an engine is paused as
  long as the worker carries an event popped before a reset (`crossed`): that
  event then fails the epoch test, which is why the gap between the two locks
  is harmless.
- `LeaseInvariant` relates three clocks: the renewing challenge was issued
  before the heartbeat that renewed, by less than the age limit of a token, and
  the heartbeat is not in the future.  Every challenge that has renewed the
  epoch was issued no later than the last echo, and a heartbeat counts only if
  its challenge is later, so none counts twice.
- `OrderInvariant` says that the activations waiting in the queue have
  increasing fresh epochs above the last one.  Without it a queued ACTIVATE
  could name the epoch that is active, and a "paused" for the one would be heard
  as the end of the other.  It also carries the refinement: a `Begin` needs the
  oldest offer to be newer than the last session, which is the order of the queue;
  a reset in any state is a `Recede`, because it empties the queue and announces
  the end.
- `IInv` of the limiter says that the order of the table is the order of the last
  attempts (`InOrder`), granted or refused, so that a bucket stays in the table only
  behind one whose last grant was inside the window; `Small` and `Recorded` tie
  the times in a bucket to the last attempt.  The model has the order as sets of
  buckets ahead, which needs no induction over a sequence.
- `GrantInv` says that a bucket is the end of its key's grants and that all grants
  before it are outside the window (`Left`): an eviction forgets a bucket, and a
  refused attempt shortens it, but neither forgets what still counts.
- `IInv` of the policy says where a key that one computer holds cannot be: what the
  target holds, or soon will, is in neither of the sets that hide a release from it
  (`RemoteReleasable`), and what the target got stays in `forwarded`, then in
  `swallowed`, until it is released (`LocalReleasable`).  Refusals need their
  exception here, at the key that was refused and nowhere else.
- `LoopInv` and `OrphanInv` are about the line of the event loop at which a stop of
  the hook thread can come in between: what `controller.py:132` has read is stored
  after the stop has cleared it, but then the stop still has its reset to schedule
  or has scheduled it (`ResetDue`), and the reset ends that epoch at the target.
- `AnswersInv` says that an "activated" under way is that of the target's epoch or
  is followed by its "paused"; so an epoch that the loop takes from one (`DeadInv`)
  is over only if the news is still to come.
- `AnnouncedInv` extends the property from the head of the target's queue to all of
  it: every input comes right after its controller's announcement or another of its
  inputs.  That a controller may add to it is what the relay knows of the last entry.
- `RevokedInv` compares generations along the same queue, with the controllers that
  are let in: under the lock nobody is admitted with a generation older than a reply
  that is queued or that a handler still holds.
- `GhostInv` says whom the target will take for its controller when it has read what
  is in the queue: the one that the relay has.
- `OrderInv` of the send path adds to the property that every RESET in the outbox is
  of an epoch not above the last one stopped, and that the present epoch is newer.
- `EpochInv` says that an epoch starts with nothing of its own in the queue or the
  outbox, and none is left of it when there is no epoch: the hook thread may put an
  event of an old epoch at any time, but never one of an epoch to come.
- `WayInv` is `Lossless` and the age of what waits in the queue: an item is no
  younger than the oldest input it stands for.  Two lemmas carry the induction:
  `TellAlone`, for an input that gets its own place, and `TellMerged`, for a move
  that joins the last item, which must then be the newest input.

Only model-checked is liveness, which is outside the prover: `StopsReachTarget`,
`RetryReleases`, `OverloadPauses` and `RotationCompletes`.

## 5. What the checks found

1. `policy_ignored`.  Ctrl+Alt+F9 puts F9 in `swallowed` and, still held at the
   activation, in `ignored`; its release leaves only `swallowed`, so the next
   press of F9 while controlling is lost ("ignored until released", DESIGN).
2. `controller_suppress`.  A stop on the hook thread between
   `controller.py:129` and `133` is undone by `set_active(True)`: local input is
   suppressed with no activation, which no timeout ends.
3. `pairing_password`.  `P`, `P`, and `P` again after the first answer: the
   second answer finishes the third rotation, and if the connection drops then
   the target shows a password that the relay never got, while the previous
   one still works.
4. `pairing_reconnect`.  A target that reconnects before the relay has noticed
   the loss of its old connection is told `target_already_running` and its
   program ends, although "both clients reconnect automatically" (SETUP).

## 6. Not modelled

- `protocol.py`: packing and validation of single frames, without state.
- The injectors, `platforms/keys.py` and the decoding in the two Windows hooks:
  calls to the operating system, which the models have as calls that succeed or
  fail, and events, which they take as inputs.
- The vault's storage (DPAPI, Keychain) and hashing: a saved identity is durable
  and a password is a number.
- `cli.py`, `metrics.py`, `instance.py`, the console thread, scripts, deployment:
  no protocol of their own.
- In the parts that are modelled: probes and acknowledgments beyond what they feed
  to the deadline, the 500 ms health value of the hook, the retry delays, the
  relay's connection count and its queue to the controller, whose overflow ends
  the handler of the target, one of the drops of `Pairing`.

What could follow: buttons of the desktop in `CapturePolicy`, the relay's queue to
the controller, and failures of the vault's calls.
