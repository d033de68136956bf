------------------------------- MODULE Pairing -------------------------------
(***************************************************************************)
(* Admission and password changes for one target ID: Relay of relay.py     *)
(* with its Registry, Target of target.py with its vault, and the          *)
(* controllers that log in.                                                *)
(*                                                                         *)
(* The relay is one asyncio program: the code between two awaits is one    *)
(* step, and pair_lock is held across awaits.  Hashing and SQL run in      *)
(* threads, which a cancelled handler leaves running.  Messages are those  *)
(* that pairing is about.  A full queue to the target is modelled; what    *)
(* else makes a handler end (a message too late, a bad message, a network  *)
(* failure) is one of the drops.                                           *)
(*                                                                         *)
(* A password and the rotation id that goes with it are one number, and so *)
(* are the owner secret and the first password, which are created together.*)
(***************************************************************************)
EXTENDS Integers, Sequences, SequencesExt, FiniteSets

CONSTANTS
    Controllers,    \* controller connections
    NoController,
    MaxPassword,    \* bound: passwords generated
    MaxPresses,     \* bound: password changes asked for
    MaxDrops,       \* bound: connections lost, overloads, crashes and restarts
    QueueSize       \* messages waiting for the target at most, on their way included

ASSUME PairingAssumption ==
    /\ NoController \notin Controllers /\ Controllers \cap {"free", "rotate"} = {}
    /\ MaxPassword \in Nat \ {0} /\ MaxPresses \in Nat
    /\ MaxDrops \in Nat /\ QueueSize \in Nat \ {0}

None == 0

VARIABLES
    \* --- the target ---
    running,        \* its process: "up", "crashed" or "exited"
    vault,          \* durable: [owner, id, password, pending]; id: None until it is told,
                    \* pending: None, or awaits "rotated"
    rotating,
    link,           \* its connection: "none", "hello" or "joined"
    \* --- the relay ---
    registry,       \* durable: the rows [owner, password, generation]; the ID is the number
    hellos,         \* handlers between a target's hello and pair_lock: [at, owner, number],
                    \* the last one of a target that still waits, if link is "hello"
    peer,           \* self.targets: "none", "live", or "dead" when the target has left
    controller,     \* self.controllers
    lock,           \* pair_lock: "free", "rotate" or the controller being admitted
    handler,        \* of a rotate message: "idle", "hashing" or "committed"
    request, result,
    orphans,        \* rotations whose handler was cancelled
    \* --- each controller connection ---
    stage,          \* "out", "checked", "admitting", "in" or "leaving"
    generation,     \* what its login returned
    \* --- messages under way ---
    toRelay,        \* passwords of rotate messages on the peer's connection
    toTarget,       \* on the target's connection
    \* --- history ---
    speaker,        \* the controller of the last peer_joined the target handled
    revoked,        \* the generation of the last "rotated" it handled on this connection
    fresh, presses, drops

target == <<running, vault, rotating, link>>
database == <<registry, hellos>>
admission == <<stage, generation>>
rotation == <<handler, request, result, orphans>>
heard == <<speaker, revoked>>
counters == <<fresh, presses, drops>>
vars == <<target, database, peer, controller, lock, rotation, admission, toRelay,
          toTarget, heard, counters>>

Init ==
    /\ running = "up" /\ vault = [owner |-> 1, id |-> None, password |-> 1, pending |-> None]
    /\ rotating = FALSE /\ link = "none"
    /\ registry = <<>> /\ hellos = <<>>
    /\ peer = "none" /\ controller = NoController /\ lock = "free"
    /\ handler = "idle" /\ request = None /\ result = 0 /\ orphans = {}
    /\ stage = [c \in Controllers |-> "out"]
    /\ generation = [c \in Controllers |-> 0]
    /\ toRelay = <<>> /\ toTarget = <<>>
    /\ speaker = NoController /\ revoked = 0
    /\ fresh = 1 /\ presses = 0 /\ drops = 0

Message(type, c, g) == [type |-> type, from |-> c, generation |-> g]

\* Peer.put on the target's peer; what a dead connection is sent is lost.
Put(message) ==
    toTarget' = IF peer = "live" THEN Append(toTarget, message) ELSE toTarget

Full == peer = "live" /\ Len(toTarget) >= QueueSize

\* The row of this target.
Enrolled == vault.id \in DOMAIN registry
Row == registry[vault.id]

\* Bound: a lost or overloaded connection, a crash, a restart of the relay.
Dropping == drops < MaxDrops /\ drops' = drops + 1

-------------------------------------------------------------------------------
\* The target.

\* A new connection and its hello; a target without an ID registers.
Connect ==
    /\ running = "up" /\ link = "none"
    /\ link' = "hello"
    /\ hellos' = Append(hellos, [at |-> IF vault.id = None THEN "lookup" ELSE "known",
                                 owner |-> vault.owner, number |-> vault.id])
    /\ UNCHANGED <<running, vault, rotating, registry, peer, controller, lock, rotation,
                   admission, toRelay, toTarget, heard, counters>>

\* Registry.register in a thread: one transaction looks for the owner ...
Found(owner) == {n \in DOMAIN registry : registry[n].owner = owner}

LookUp(i) ==
    /\ hellos[i].at = "lookup"
    /\ \/ /\ Found(hellos[i].owner) = {}
          /\ hellos' = [hellos EXCEPT ![i].at = "insert"]
       \/ \E n \in Found(hellos[i].owner) :
              hellos' = [hellos EXCEPT ![i].at = "known", ![i].number = n]
    /\ UNCHANGED <<target, registry, peer, controller, lock, rotation, admission, toRelay,
                   toTarget, heard, counters>>

NewRow(owner) == [owner |-> owner, password |-> owner, generation |-> 1]

Inserted_Unchecked(owner) == Append(registry, NewRow(owner))

\* ... and, when the password is hashed, a second one looks again before it inserts.
Inserted(owner) ==
    IF Found(owner) = {} THEN Append(registry, NewRow(owner)) ELSE registry

Insert(i) ==
    /\ hellos[i].at = "insert"
    /\ registry' = Inserted(hellos[i].owner)
    /\ \E n \in DOMAIN registry' :
        /\ registry'[n].owner = hellos[i].owner
        /\ hellos' = [hellos EXCEPT ![i].at = "known", ![i].number = n]
    /\ UNCHANGED <<target, peer, controller, lock, rotation, admission, toRelay, toTarget,
                   heard, counters>>

Registering == \E i \in DOMAIN hellos : LookUp(i) \/ Insert(i)

Retry_Never == <<>>

\* A rotation found in the journal is sent again.
Retry == IF rotating THEN <<vault.pending>> ELSE <<>>

\* A handler that knows its target's ID gets the lock.
Ready(i) == i \in DOMAIN hellos /\ hellos[i].at = "known" /\ lock = "free"

Waiting == Len(hellos)

\* The relay accepts the hello; the target keeps the ID it replies.
Register ==
    /\ link = "hello" /\ Ready(Waiting) /\ peer = "none"
    /\ hellos' = Front(hellos)
    /\ link' = "joined" /\ peer' = "live"
    /\ vault' = [vault EXCEPT !.id = hellos[Waiting].number]
    /\ toRelay' = Retry
    /\ toTarget' = <<>>
    /\ speaker' = NoController /\ revoked' = 0
    /\ UNCHANGED <<running, rotating, registry, controller, lock, rotation, admission,
                   counters>>

\* "target_already_running": the program returns.
Refuse ==
    /\ link = "hello" /\ Ready(Waiting) /\ peer # "none"
    /\ hellos' = Front(hellos)
    /\ running' = "exited" /\ link' = "none"
    /\ UNCHANGED <<vault, rotating, registry, peer, controller, lock, rotation, admission,
                   toRelay, toTarget, heard, counters>>

\* The connection of the hello is lost, which the handler only finds out when it replies.
AcceptLost(i) ==
    /\ Ready(i) /\ ~(link = "hello" /\ i = Waiting)
    /\ hellos' = RemoveAt(hellos, i)
    /\ peer' = IF peer = "none" THEN "dead" ELSE peer
    /\ UNCHANGED <<target, registry, controller, lock, rotation, admission, toRelay,
                   toTarget, heard, counters>>

\* P + Enter, connected or not: begin_rotation keeps a pending password.
ChangePassword ==
    /\ running = "up" /\ link \in {"none", "joined"} /\ presses < MaxPresses
    /\ presses' = presses + 1
    /\ rotating' = TRUE
    /\ \/ vault.pending # None /\ UNCHANGED <<vault, fresh>>
       \/ /\ vault.pending = None /\ fresh < MaxPassword
          /\ fresh' = fresh + 1
          /\ vault' = [vault EXCEPT !.pending = fresh + 1]
    /\ toRelay' = IF peer = "live" /\ link = "joined"
                  THEN Append(toRelay, vault'.pending) ELSE toRelay
    /\ UNCHANGED <<running, link, database, peer, controller, lock, rotation, admission,
                   toTarget, heard, drops>>

\* The connection of the peer is broken; of what the target sent, a part arrives.
Break ==
    /\ peer' = IF peer = "live" THEN "dead" ELSE peer
    /\ IF peer = "live"
       THEN \E n \in 0 .. Len(toRelay) : toRelay' = SubSeq(toRelay, 1, n)
       ELSE UNCHANGED toRelay

\* The target's end closes.
Hangup ==
    /\ link' = "none"
    /\ toTarget' = <<>>
    /\ Break
    /\ speaker' = NoController /\ revoked' = 0

Heard(type) ==
    /\ running = "up" /\ link = "joined"
    /\ toTarget # <<>> /\ Head(toTarget).type = type

\* reader, for what comes from the controller (ignored while rotating) ...
ReceiveSession ==
    /\ \/ Heard("input") /\ UNCHANGED speaker
       \/ Heard("joined") /\ speaker' = Head(toTarget).from
       \/ Heard("gone") /\ speaker' = NoController
    /\ toTarget' = Tail(toTarget)
    /\ UNCHANGED <<target, database, peer, controller, lock, rotation, admission, toRelay,
                   revoked, counters>>

\* ... and for the reply to a rotation, finish_rotation.
ReceiveRotated ==
    /\ Heard("rotated") /\ rotating
    /\ vault' = [vault EXCEPT !.password = vault.pending, !.pending = None]
    /\ rotating' = FALSE
    /\ speaker' = NoController /\ revoked' = Head(toTarget).generation
    /\ toTarget' = Tail(toTarget)
    /\ UNCHANGED <<running, link, database, peer, controller, lock, rotation, admission,
                   toRelay, counters>>

\* A reply that was not waited for is an "unexpected relay message".
ReceiveUnexpected ==
    /\ Heard("rotated") /\ ~rotating
    /\ Hangup
    /\ UNCHANGED <<running, vault, rotating, database, controller, lock, rotation,
                   admission, counters>>

\* The connection is lost, or the relay has closed it.
Disconnect ==
    /\ running = "up" /\ link # "none"
    /\ \/ Dropping
       \/ link = "joined" /\ peer # "live" /\ UNCHANGED drops
    /\ Hangup
    /\ UNCHANGED <<running, vault, rotating, database, controller, lock, rotation,
                   admission, fresh, presses>>

\* The program is killed or ends, by Q + Enter or an error of its own.
Crash ==
    /\ running = "up" /\ Dropping
    /\ running' = "crashed"
    /\ Hangup
    /\ UNCHANGED <<vault, rotating, database, controller, lock, rotation, admission, fresh,
                   presses>>

Identity_UnsavedAtFirst ==
    IF vault.id # None \/ fresh = MaxPassword THEN UNCHANGED <<vault, fresh>>
    ELSE /\ fresh' = fresh + 1
         /\ vault' = [owner |-> fresh + 1, id |-> None, password |-> fresh + 1,
                      pending |-> None]

\* target_identity: it was saved before the first registration.
Identity == UNCHANGED <<vault, fresh>>

Journaled_Forgotten == FALSE

\* Target.__init__ looks for a pending password.
Journaled == vault'.pending # None

Restart ==
    /\ running # "up" /\ running' = "up"
    /\ Identity
    /\ rotating' = Journaled
    /\ UNCHANGED <<link, database, peer, controller, lock, rotation, admission, toRelay,
                   toTarget, heard, presses, drops>>

-------------------------------------------------------------------------------
\* The relay: rotations.

\* Registry.rotate: a repeated rotation id changes nothing.
Rotated(password) ==
    IF Row.password = password THEN registry
    ELSE [registry EXCEPT ![vault.id].password = password, ![vault.id].generation = @ + 1]

BeginRotate ==
    /\ peer # "none" /\ handler = "idle" /\ toRelay # <<>> /\ lock = "free"
    /\ lock' = "rotate" /\ handler' = "hashing"
    /\ request' = Head(toRelay) /\ toRelay' = Tail(toRelay)
    /\ UNCHANGED <<target, database, peer, controller, result, orphans, admission,
                   toTarget, heard, counters>>

Commit ==
    /\ handler = "hashing" /\ handler' = "committed"
    /\ registry' = Rotated(request)
    /\ result' = registry'[vault.id].generation
    /\ UNCHANGED <<target, hellos, peer, controller, lock, request, orphans, admission,
                   toRelay, toTarget, heard, counters>>

\* Back from the thread: the controller is revoked before the reply is queued; if that
\* fails, the target's handler ends.
EndRotate ==
    /\ handler = "committed" /\ handler' = "idle"
    /\ lock' = "free"
    /\ controller' = NoController
    /\ request' = None /\ result' = 0
    /\ IF Full THEN Dropping /\ peer' = "dead" /\ toRelay' = <<>> /\ UNCHANGED toTarget
       ELSE Put(Message("rotated", NoController, result)) /\ UNCHANGED <<peer, toRelay, drops>>
    /\ UNCHANGED <<target, database, orphans, admission, heard, fresh, presses>>

\* The call of a cancelled handler reaches the database after all.
OrphanCommits(password) ==
    /\ password \in orphans /\ orphans' = orphans \ {password}
    /\ registry' = Rotated(password)
    /\ UNCHANGED <<target, hellos, peer, controller, lock, handler, request, result, admission,
                   toRelay, toTarget, heard, counters>>

\* The target's handler ends: it has noticed the loss, or failed.  A thread that has
\* begun goes on.
DetachTarget ==
    /\ peer = "dead" \/ peer = "live"
    /\ IF peer = "dead" THEN UNCHANGED drops ELSE Dropping
    /\ peer' = "none" /\ controller' = NoController /\ toRelay' = <<>>
    /\ handler' = "idle" /\ request' = None /\ result' = 0
    /\ lock' = IF lock = "rotate" THEN "free" ELSE lock
    /\ \/ handler = "hashing" /\ orphans' = orphans \cup {request}
       \/ UNCHANGED orphans
    /\ UNCHANGED <<target, database, admission, toTarget, heard, fresh, presses>>

\* The relay's process restarts with the same database.
RelayRestarts ==
    /\ Dropping
    /\ peer' = "none" /\ controller' = NoController /\ toRelay' = <<>>
    /\ handler' = "idle" /\ request' = None /\ result' = 0 /\ lock' = "free"
    /\ orphans' = {} /\ hellos' = <<>>
    /\ stage' = [c \in Controllers |-> "out"]
    /\ generation' = [c \in Controllers |-> 0]
    /\ link' = IF link = "hello" THEN "none" ELSE link
    /\ UNCHANGED <<running, vault, rotating, registry, toTarget, heard, fresh, presses>>

-------------------------------------------------------------------------------
\* The relay: controllers.

\* Registry.login: the password of that moment, which nobody is shown while it is still
\* pending, or a wrong one.
Login(c) ==
    /\ stage[c] = "out"
    /\ \/ /\ vault.id # None /\ Row.password # vault.pending
          /\ stage' = [stage EXCEPT ![c] = "checked"]
          /\ generation' = [generation EXCEPT ![c] = Row.generation]
       \/ UNCHANGED admission
    /\ UNCHANGED <<target, database, peer, controller, lock, rotation, toRelay, toTarget,
                   heard, counters>>

Leave(c) ==
    /\ stage' = [stage EXCEPT ![c] = "out"]
    /\ generation' = [generation EXCEPT ![c] = 0]

\* The handler fails and closes the connection, and detaches its peer after that.
Fail(c) == stage' = [stage EXCEPT ![c] = "leaving"] /\ UNCHANGED generation

Current_Trusted(c) == TRUE

\* Registry.generation is read again ...
Current(c) == generation[c] = Row.generation

\* ... under the lock.
CheckGeneration(c) ==
    /\ stage[c] = "checked" /\ lock = "free"
    /\ IF Current(c)
       THEN lock' = c /\ stage' = [stage EXCEPT ![c] = "admitting"] /\ UNCHANGED generation
       ELSE Leave(c) /\ UNCHANGED lock
    /\ UNCHANGED <<target, database, peer, controller, rotation, toRelay, toTarget, heard,
                   counters>>

\* The controller is recorded before the target's queue refuses its announcement.
Admit(c) ==
    /\ stage[c] = "admitting" /\ lock' = "free"
    /\ IF peer = "none" \/ controller # NoController
       THEN Leave(c) /\ UNCHANGED <<controller, toTarget>>
       ELSE /\ controller' = c
            /\ IF Full THEN Fail(c) /\ UNCHANGED toTarget
               ELSE /\ Put(Message("joined", c, generation[c]))
                    /\ stage' = [stage EXCEPT ![c] = "in"] /\ UNCHANGED generation
    /\ UNCHANGED <<target, database, peer, rotation, toRelay, heard, counters>>

Admitted_Once(c) == TRUE

\* Otherwise "Session revoked" ends the handler.
Admitted(c) == controller = c

\* An input frame.
Forward(c) ==
    /\ stage[c] = "in" /\ Admitted(c) /\ peer # "none"
    /\ IF Full THEN Fail(c) /\ UNCHANGED toTarget
       ELSE Put(Message("input", c, generation[c])) /\ UNCHANGED admission
    /\ UNCHANGED <<target, database, peer, controller, lock, rotation, toRelay, heard,
                   counters>>

Untold_Ignored == UNCHANGED <<peer, toRelay>>

\* A target that cannot be told that its controller has gone is disconnected.
Untold == Break

\* The controller's handler ends, for any reason.
DetachController(c) ==
    /\ stage[c] \in {"in", "leaving"}
    /\ Leave(c)
    /\ controller' = IF controller = c THEN NoController ELSE controller
    /\ IF controller = c /\ Full THEN Dropping /\ Untold /\ UNCHANGED toTarget
       ELSE /\ IF controller = c THEN Put(Message("gone", c, 0)) ELSE UNCHANGED toTarget
            /\ UNCHANGED <<peer, toRelay, drops>>
    /\ UNCHANGED <<target, database, lock, rotation, heard, fresh, presses>>

-------------------------------------------------------------------------------

Target ==
    \/ Connect \/ Register \/ Refuse \/ ChangePassword
    \/ ReceiveSession \/ ReceiveRotated \/ ReceiveUnexpected
    \/ Disconnect \/ Crash \/ Restart

Relay ==
    \/ Registering \/ (\E i \in DOMAIN hellos : AcceptLost(i))
    \/ BeginRotate \/ Commit \/ EndRotate
    \/ \E password \in orphans : OrphanCommits(password)
    \/ DetachTarget \/ RelayRestarts
    \/ \E c \in Controllers :
        Login(c) \/ CheckGeneration(c) \/ Admit(c) \/ Forward(c) \/ DetachController(c)

Next == Target \/ Relay

Spec == Init /\ [][Next]_vars

\* Both programs keep running and a broken connection is noticed in the end, by the
\* keepalive pings.  The lock is handed out in order of arrival: who waits for it
\* gets it, though controllers keep coming.  So does a reply whose queue has room again
\* and again (overloads that break the connection are bounded as drops are).  Nobody has
\* to press a key, to log in or to start a program again.
FairSpec ==
    /\ Spec
    /\ WF_vars(Connect)
    /\ WF_vars(ReceiveSession \/ ReceiveRotated \/ ReceiveUnexpected)
    /\ WF_vars(Disconnect /\ UNCHANGED drops)
    /\ WF_vars(DetachTarget /\ UNCHANGED drops)
    /\ WF_vars(Registering) /\ WF_vars(Commit) /\ SF_vars(EndRotate)
    /\ \A c \in Controllers : WF_vars(Admit(c))
    /\ SF_vars(Register \/ Refuse) /\ SF_vars(BeginRotate)

-------------------------------------------------------------------------------
\* Properties.

Passwords == 1 .. MaxPassword

\* The type invariant; the flag says that the journal holds a pending password.
TypeOK ==
    /\ running \in {"up", "crashed", "exited"} /\ link \in {"none", "hello", "joined"}
    /\ vault \in [owner : Passwords, id : Nat, password : Passwords,
                  pending : {None} \cup Passwords]
    /\ rotating \in BOOLEAN /\ rotating = (vault.pending # None)
    /\ \A n \in DOMAIN registry :
        registry[n] \in [owner : Passwords, password : Passwords, generation : Nat]
    /\ (link = "hello" => hellos # <<>>) /\ (vault.id # None => Enrolled)
    /\ \A i \in DOMAIN hellos : hellos[i].at = "known" => hellos[i].number \in DOMAIN registry
    /\ peer \in {"none", "live", "dead"} /\ (peer = "live" => link = "joined")
    /\ controller \in Controllers \cup {NoController}
    /\ lock \in {"free", "rotate"} \cup Controllers
    /\ handler \in {"idle", "hashing", "committed"} /\ (handler # "idle" <=> lock = "rotate")
    /\ request \in {None} \cup Passwords /\ orphans \subseteq Passwords
    /\ stage \in [Controllers -> {"out", "checked", "admitting", "in", "leaving"}]
    /\ Len(toTarget) <= QueueSize
    /\ generation \in [Controllers -> Nat]
    /\ speaker \in Controllers \cup {NoController}

NextInput == toTarget # <<>> /\ Head(toTarget).type = "input"

\* "A new controller cannot inherit previous holds" (DESIGN): the engine resets when it
\* hears of a new peer, so no input may reach the target before the announcement of the
\* controller it comes from, or after that controller's end.
AnnouncedFirst == NextInput => Head(toTarget).from = speaker

\* "Password changed. Previous access revoked": after the reply to a rotation no input
\* follows from a controller that was admitted before it, whatever logins, rotations
\* and cancelled rotations overlap.
RevokedStayOut == NextInput => Head(toTarget).generation >= revoked

\* The target never stays with a controller that has left: while it takes somebody for
\* its controller who is not admitted any more, it is about to be told, or its connection
\* is broken, also when its queue had no room for the news.
NoGhost ==
    peer = "live" /\ speaker # NoController /\ controller # speaker =>
        \E i \in DOMAIN toTarget : toTarget[i].type # "input"

\* "A lost registration reply must not allocate another ID" (target_identity), and "the
\* unique index resolves simultaneous first registration / retry" (register): the target
\* gets one ID, whatever replies are lost, programs killed and registrations repeated
\* while earlier ones are still between their transactions.
OneID == Len(registry) <= 1

\* "A lost reply can be retried after a restart" (DESIGN): a rotation that was journaled
\* ends with the relay's answer, unless the program stops.
RotationCompletes == rotating /\ running = "up" ~> ~rotating \/ running # "up"

\* No request for a rotation is under way, at the relay or in one of its threads.
Quiet == toRelay = <<>> /\ handler = "idle" /\ orphans = {}

\* The password that the target shows is the one the relay asks for, once no rotation
\* is under way or journaled.
ShownPasswordWorks ==
    Quiet /\ vault.id # None /\ vault.pending = None => vault.password = Row.password

\* "Both clients reconnect automatically after network interruptions" (SETUP): the
\* target's program does not end because its connection was lost.
KeepsReconnecting == running # "exited"
===============================================================================
