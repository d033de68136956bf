----------------------------- MODULE PairingProofs -----------------------------
(***************************************************************************)
(* Who may control a target: proofs about the admission of controllers and *)
(* the change of passwords, for any number of controllers, passwords and   *)
(* lost connections, and any size of the target's queue.                   *)
(***************************************************************************)
EXTENDS Pairing, SequenceTheorems, TLAPS

Messages ==
    [type : {"joined", "input", "gone"}, from : Controllers, generation : Nat]
        \cup [type : {"rotated"}, from : {NoController}, generation : Nat]

Stages == {"out", "checked", "admitting", "in", "leaving"}

\* The type invariant, with the types of the channels.
Typed ==
    /\ running \in {"up", "crashed", "exited"} /\ link \in {"none", "hello", "joined"}
    /\ vault \in [owner : Passwords, id : Nat, password : Passwords,
                  pending : {None} \cup Passwords]
    /\ rotating \in BOOLEAN /\ rotating = (vault.pending # None)
    /\ peer \in {"none", "live", "dead"}
    /\ controller \in Controllers \cup {NoController}
    /\ lock \in {"free", "rotate"} \cup Controllers
    /\ handler \in {"idle", "hashing", "committed"}
    /\ request \in {None} \cup Passwords /\ orphans \subseteq Passwords /\ result \in Nat
    /\ stage \in [Controllers -> Stages] /\ generation \in [Controllers -> Nat]
    /\ speaker \in Controllers \cup {NoController} /\ revoked \in Nat
    /\ toRelay \in Seq(Passwords)
    /\ toTarget \in Seq(Messages) /\ Len(toTarget) <= QueueSize
    /\ fresh \in Passwords /\ presses \in Nat /\ drops \in Nat

\* The rows of this target's owner, and its handlers between hello and pair_lock: one
\* that has looked its owner up, or inserted it, names a row.
GoodRows == [owner : {vault.owner}, password : Passwords, generation : Nat]

GoodHellos ==
    {h \in [at : {"lookup", "insert", "known"}, owner : {vault.owner}, number : Nat] :
        h.at = "known" => h.number \in DOMAIN registry}

\* What goes on at the relay only after a registration.
Active ==
    \/ toRelay # <<>> \/ peer = "live" \/ handler # "idle" \/ orphans # {}
    \/ \E c \in Controllers : stage[c] # "out"

\* The relay's records: however many handlers look up and insert, there is one row at
\* most, and the target's ID is its number.
Recorded ==
    /\ registry \in Seq(GoodRows) /\ Len(registry) <= 1
    /\ hellos \in Seq(GoodHellos)
    /\ link = "hello" => hellos # <<>>
    /\ vault.id # None => Enrolled
    /\ Active => vault.id # None

\* Who holds the lock, and what a target's place in self.targets stands for.
Locked ==
    /\ handler # "idle" <=> lock = "rotate"
    /\ handler = "hashing" => request \in Passwords
    /\ \A c \in Controllers : stage[c] = "admitting" => lock = c
    /\ peer = "live" => link = "joined"
    /\ peer = "none" => controller = NoController

Latest == IF Enrolled THEN Row.generation ELSE 0

\* An input follows, without anything in between, the announcement of its controller.
AnnouncedInv ==
    /\ AnnouncedFirst
    /\ \A i \in 2 .. Len(toTarget) : toTarget[i].type = "input" =>
           /\ toTarget[i - 1].type \in {"input", "joined"}
           /\ toTarget[i - 1].from = toTarget[i].from
    /\ peer = "live" /\ controller # NoController /\ stage[controller] = "in" =>
           IF toTarget = <<>> THEN speaker = controller
           ELSE LET last == toTarget[Len(toTarget)]
                IN  last.type \in {"input", "joined"} /\ last.from = controller

\* All that the target has been told, or will be, about generations.
NotOver(g) ==
    /\ revoked <= g
    /\ \A i \in 1 .. Len(toTarget) :
           toTarget[i].type = "rotated" => toTarget[i].generation <= g

\* A controller is let in with a generation that no queued or handled reply exceeds.
RevokedInv ==
    /\ \A i \in 1 .. Len(toTarget) : toTarget[i].type = "input" =>
           /\ revoked <= toTarget[i].generation
           /\ \A k \in 1 .. i - 1 : toTarget[k].type = "rotated"
                  => toTarget[k].generation <= toTarget[i].generation
    /\ NotOver(Latest) /\ result <= Latest
    /\ \A c \in Controllers :
           stage[c] = "admitting" \/ (stage[c] = "in" /\ controller = c)
               => NotOver(generation[c])

\* Whom the target will take for its controller when it has read its queue.
GhostInv ==
    peer = "live" =>
        /\ (\A i \in 1 .. Len(toTarget) : toTarget[i].type = "input")
               => speaker \in {NoController, controller}
        /\ \A i \in 1 .. Len(toTarget) :
               /\ toTarget[i].type = "joined"
               /\ \A j \in i + 1 .. Len(toTarget) : toTarget[j].type = "input"
               => toTarget[i].from = controller

-------------------------------------------------------------------------------
\* Messages and rows.

LEMMA PutProperties ==
    ASSUME Typed, NEW m \in Messages, Put(m), ~Full
    PROVE  /\ toTarget' \in Seq(Messages) /\ Len(toTarget') <= QueueSize
           /\ peer # "live" => toTarget' = toTarget
           /\ peer = "live" => /\ Len(toTarget') = Len(toTarget) + 1 /\ Len(toTarget) \in Nat
                               /\ toTarget'[Len(toTarget')] = m /\ toTarget' # <<>>
                               /\ \A i \in 1 .. Len(toTarget) : toTarget'[i] = toTarget[i]
<1>. DEFINE longer == Append(toTarget, m)
<1>1. /\ longer \in Seq(Messages) /\ longer # <<>>
      /\ Len(longer) = Len(toTarget) + 1 /\ Len(toTarget) \in Nat
      /\ longer[Len(toTarget) + 1] = m
      /\ \A i \in 1 .. Len(toTarget) : longer[i] = toTarget[i]
  BY AppendProperties, LenProperties DEF Typed
<1>2. toTarget' = IF peer = "live" THEN longer ELSE toTarget BY DEF Put
<1>3. peer = "live" => Len(toTarget) < QueueSize
  BY <1>1, PairingAssumption DEF PairingAssumption, Full
<1>4. CASE peer = "live"
  BY <1>1, <1>2, <1>3, <1>4, PairingAssumption DEF PairingAssumption
<1>5. CASE peer # "live" BY <1>2, <1>5 DEF Typed
<1>. QED BY <1>4, <1>5

LEMMA TakeProperties ==
    ASSUME Typed, toTarget # <<>>, toTarget' = Tail(toTarget)
    PROVE  /\ toTarget' \in Seq(Messages) /\ Len(toTarget') <= QueueSize
           /\ Len(toTarget) \in Nat \ {0} /\ Len(toTarget') = Len(toTarget) - 1
           /\ Head(toTarget) = toTarget[1] /\ Head(toTarget) \in Messages
           /\ \A i \in 1 .. Len(toTarget') : toTarget'[i] = toTarget[i + 1]
<1>1. /\ Tail(toTarget) \in Seq(Messages) /\ Head(toTarget) = toTarget[1]
      /\ Len(toTarget) \in Nat \ {0} /\ Len(Tail(toTarget)) = Len(toTarget) - 1
      /\ \A i \in 1 .. Len(Tail(toTarget)) : Tail(toTarget)[i] = toTarget[i + 1]
  BY HeadTailProperties, LenProperties, EmptySeq DEF Typed
<1>2. toTarget[1] \in Messages BY <1>1 DEF Typed
<1>. QED BY <1>1, <1>2, PairingAssumption DEF Typed, PairingAssumption

LEMMA Literals ==
    /\ \A c \in Controllers, type \in {"joined", "input", "gone"}, g \in Nat :
           Message(type, c, g) \in Messages
    /\ \A g \in Nat : Message("rotated", NoController, g) \in Messages
    /\ \A type, c, g : /\ Message(type, c, g).type = type /\ Message(type, c, g).from = c
                       /\ Message(type, c, g).generation = g
BY DEF Message, Messages

\* What the records say of each row, of each handler and of the target's ID.
LEMMA RecordedProperties ==
    ASSUME Typed, Recorded
    PROVE  /\ Len(registry) \in {0, 1} /\ DOMAIN registry = 1 .. Len(registry)
           /\ \A n \in DOMAIN registry : registry[n] \in GoodRows
           /\ Len(hellos) \in Nat /\ DOMAIN hellos = 1 .. Len(hellos)
           /\ \A i \in DOMAIN hellos : hellos[i] \in GoodHellos
           /\ Enrolled <=> vault.id = 1 /\ Len(registry) = 1
           /\ Enrolled => Row \in GoodRows
<1>1. Len(registry) \in Nat /\ DOMAIN registry = 1 .. Len(registry)
      /\ \A n \in DOMAIN registry : registry[n] \in GoodRows
  BY LenProperties, ElementOfSeq DEF Recorded
<1>2. Len(hellos) \in Nat /\ DOMAIN hellos = 1 .. Len(hellos)
      /\ \A i \in DOMAIN hellos : hellos[i] \in GoodHellos
  BY LenProperties, ElementOfSeq DEF Recorded
<1>3. Len(registry) \in {0, 1} BY <1>1 DEF Recorded
<1>4. Enrolled <=> vault.id = 1 /\ Len(registry) = 1
  BY <1>1, <1>3 DEF Enrolled, Typed
<1>. QED BY <1>1, <1>2, <1>3, <1>4 DEF Enrolled, Row

\* Sequences of handlers: one goes.
LEMMA ShorterProperties ==
    ASSUME NEW S, NEW s \in Seq(S), NEW i \in 1 .. Len(s)
    PROVE  /\ RemoveAt(s, i) \in Seq(S) /\ Len(RemoveAt(s, i)) = Len(s) - 1
           /\ Front(s) \in Seq(S)
<1>1. Len(s) \in Nat /\ \A n \in 1 .. Len(s) : s[n] \in S BY LenProperties
<1>2. ASSUME NEW m \in Nat \ {0}, NEW n \in 0 .. Len(s)
      PROVE  /\ SubSeq(s, m, n) \in Seq(S)
             /\ Len(SubSeq(s, m, n)) = IF m <= n THEN n - m + 1 ELSE 0
  <2>1. m \in Int /\ n \in Int /\ \A k \in m .. n : k \in 1 .. Len(s) BY <1>1
  <2>. QED BY <1>1, <2>1, SubSeqProperties
<1>3. /\ 1 \in Nat \ {0} /\ i + 1 \in Nat \ {0}
      /\ i - 1 \in 0 .. Len(s) /\ Len(s) - 1 \in 0 .. Len(s) /\ Len(s) \in 0 .. Len(s)
  BY <1>1
<1>. DEFINE before == SubSeq(s, 1, i - 1)
            after == SubSeq(s, i + 1, Len(s))
<1>4. /\ before \in Seq(S) /\ Len(before) = i - 1
      /\ after \in Seq(S) /\ Len(after) = Len(s) - i
      /\ SubSeq(s, 1, Len(s) - 1) \in Seq(S)
  <2>1. /\ before \in Seq(S) /\ after \in Seq(S) /\ SubSeq(s, 1, Len(s) - 1) \in Seq(S)
        /\ Len(before) = IF 1 <= i - 1 THEN (i - 1) - 1 + 1 ELSE 0
        /\ Len(after) = IF i + 1 <= Len(s) THEN Len(s) - (i + 1) + 1 ELSE 0
    BY <1>2, <1>3
  <2>. HIDE DEF before, after
  <2>. QED BY <1>1, <2>1
<1>5. RemoveAt(s, i) = before \o after BY DEF RemoveAt
<1>. HIDE DEF before, after
<1>6. (i - 1) + (Len(s) - i) = Len(s) - 1 BY <1>1
<1>7. before \o after \in Seq(S) /\ Len(before \o after) = Len(before) + Len(after)
  BY <1>4, ConcatProperties
<1>. QED BY <1>4, <1>5, <1>6, <1>7 DEF Front

\* Registry.rotate keeps the number and the owner of a row, and never lowers its
\* generation.
LEMMA RotatedProperties ==
    ASSUME Typed, Recorded, Enrolled, NEW password \in Passwords,
           registry' = Rotated(password), UNCHANGED vault
    PROVE  /\ registry' \in Seq(GoodRows) /\ Len(registry') = Len(registry)
           /\ DOMAIN registry' = DOMAIN registry /\ Enrolled'
           /\ Row' \in GoodRows /\ Row'.generation >= Row.generation
<1>. DEFINE shown == [Row EXCEPT !.password = password]
            new == [shown EXCEPT !.generation = Row.generation + 1]
            longer == [registry EXCEPT ![vault.id] = new]
<1>1. Row \in GoodRows /\ vault.id \in 1 .. Len(registry)
  BY RecordedProperties DEF Enrolled
<1>2. new \in GoodRows /\ new.generation >= Row.generation
  <2>1. shown \in GoodRows /\ Row.generation + 1 \in Nat BY <1>1 DEF GoodRows
  <2>. HIDE DEF shown
  <2>2. new \in GoodRows /\ new.generation = Row.generation + 1 BY <2>1 DEF GoodRows
  <2>. QED BY <1>1, <2>2 DEF GoodRows
<1>3. longer \in Seq(GoodRows) /\ Len(longer) = Len(registry) /\ longer[vault.id] = new
  BY <1>1, <1>2, ExceptSeq DEF Recorded
<1>4. registry' \in {registry, longer}
  <2>1. [Row EXCEPT !.password = password, !.generation = @ + 1] = new
    BY <1>1 DEF GoodRows
  <2>2. [registry EXCEPT ![vault.id].password = password, ![vault.id].generation = @ + 1]
            = [registry EXCEPT ![vault.id] =
                   [Row EXCEPT !.password = password, !.generation = @ + 1]]
    BY <1>1 DEF Row, GoodRows
  <2>. QED BY <2>1, <2>2 DEF Rotated
<1>5. DOMAIN longer = DOMAIN registry OBVIOUS
<1>6. Row.generation >= Row.generation BY <1>1 DEF GoodRows
<1>. HIDE DEF shown, new, longer
<1>. QED BY <1>1, <1>2, <1>3, <1>4, <1>5, <1>6 DEF Recorded, Enrolled, Row

-------------------------------------------------------------------------------
\* Types.

Base == Typed /\ Recorded /\ Locked

LEMMA BaseStarts == Init => Base
<1>. SUFFICES ASSUME Init PROVE Base OBVIOUS
<1>1. 1 \in Passwords BY PairingAssumption DEF PairingAssumption, Passwords
<1>2. Typed
  <2>1. vault \in [owner : Passwords, id : Nat, password : Passwords,
                   pending : {None} \cup Passwords]
    BY <1>1 DEF Init, None
  <2>2. /\ toTarget \in Seq(Messages) /\ Len(toTarget) <= QueueSize
        /\ toRelay \in Seq(Passwords)
    BY EmptySeq, PairingAssumption DEF Init, PairingAssumption
  <2>3. stage \in [Controllers -> Stages] /\ generation \in [Controllers -> Nat]
    BY DEF Init, Stages
  <2>4. rotating = (vault.pending # None) /\ rotating \in BOOLEAN BY DEF Init
  <2>. QED BY <1>1, <2>1, <2>2, <2>3, <2>4 DEF Init, Typed, None
<1>3. Recorded
  <2>1. registry = <<>> /\ hellos = <<>> /\ vault.id = None /\ link = "none" BY DEF Init
  <2>2. ~Active BY DEF Init, Active
  <2>. QED BY <2>1, <2>2, EmptySeq DEF Recorded
<1>4. Locked BY DEF Init, Locked
<1>. QED BY <1>2, <1>3, <1>4 DEF Base

\* The records hold in a step that leaves them, and begins nothing without an ID.
LEMMA RecordedKept ==
    ASSUME Recorded, UNCHANGED <<registry, hellos>>,
           vault'.owner = vault.owner, vault'.id = vault.id,
           link' = "hello" => link = "hello",
           vault.id # None \/ (Active' => Active)
    PROVE  Recorded'
<1>1. GoodRows' = GoodRows /\ GoodHellos' = GoodHellos BY DEF GoodRows, GoodHellos
<1>2. Enrolled' = Enrolled BY DEF Enrolled
<1>. QED BY <1>1, <1>2 DEF Recorded

\* Nor do they change in a step of other handlers that changes the list of hellos.
LEMMA HellosKept ==
    ASSUME Recorded, UNCHANGED <<registry, vault>>, hellos' \in Seq(GoodHellos),
           link' = "hello" => hellos' # <<>>,
           Active' => vault.id # None
    PROVE  Recorded'
<1>1. GoodRows' = GoodRows /\ GoodHellos' = GoodHellos BY DEF GoodRows, GoodHellos
<1>2. Enrolled' = Enrolled BY DEF Enrolled
<1>. QED BY <1>1, <1>2 DEF Recorded

LEMMA BreakType ==
    ASSUME Base, Break
    PROVE  /\ toRelay' \in Seq(Passwords)
           /\ peer' \in {"none", "dead"} /\ (peer' = "none" <=> peer = "none")
<1>1. ASSUME NEW n \in 0 .. Len(toRelay) PROVE SubSeq(toRelay, 1, n) \in Seq(Passwords)
  <2>1. \A i \in 1 .. n : toRelay[i] \in Passwords
    BY LenProperties DEF Base, Typed
  <2>2. n \in Nat /\ 1 \in Nat BY LenProperties DEF Base, Typed
  <2>. QED BY <2>1, <2>2, SubSeqProperties, LenProperties DEF Base, Typed
<1>. QED BY <1>1 DEF Break, Base, Typed

LEMMA HangupKeepsBase ==
    ASSUME Base, Hangup,
           UNCHANGED <<vault, rotating, database, controller, lock, rotation, admission, fresh,
                       presses>>,
           running' \in {running, "crashed"}, drops' \in Nat
    PROVE  Base'
<1>. USE DEF database, rotation, admission
<1>1. /\ toRelay' \in Seq(Passwords)
      /\ peer' \in {"none", "dead"} /\ (peer' = "none" <=> peer = "none")
  BY BreakType DEF Hangup
<1>2. Typed'
  BY <1>1, EmptySeq, PairingAssumption
     DEF Base, Typed, Hangup, PairingAssumption, Passwords
<1>3. Recorded'
  <2>1. toRelay' # <<>> => toRelay # <<>> \/ peer = "live"
    <3>1. CASE peer = "live" BY <3>1
    <3>2. CASE peer # "live" BY <3>2 DEF Hangup, Break
    <3>. QED BY <3>1, <3>2
  <2>2. Active' => Active BY <1>1, <2>1 DEF Active
  <2>3. link' # "hello" BY DEF Hangup
  <2>. QED BY <2>2, <2>3, RecordedKept DEF Base
<1>4. Locked' BY <1>1 DEF Base, Locked
<1>. QED BY <1>2, <1>3, <1>4 DEF Base

LEMMA LinkKeepsBase ==
    ASSUME Base, Connect \/ Register \/ Refuse \/ Restart
    PROVE  Base'
<1>. USE DEF database, rotation, admission, target, heard, counters
<1>0. /\ link = "hello" => Waiting \in DOMAIN hellos /\ Waiting \in 1 .. Len(hellos)
      /\ \A i \in DOMAIN hellos : hellos[i] \in GoodHellos
  <2>1. hellos # <<>> => Len(hellos) # 0 BY EmptySeq DEF Base, Recorded
  <2>. QED BY <2>1, RecordedProperties DEF Base, Recorded, Waiting
<1>1. CASE Connect
  <2>1. Typed' BY <1>1 DEF Base, Typed, Connect
  <2>2. Recorded'
    <3>. DEFINE hello == [at |-> IF vault.id = None THEN "lookup" ELSE "known",
                          owner |-> vault.owner, number |-> vault.id]
    <3>1. hello \in GoodHellos BY DEF Base, Typed, Recorded, GoodHellos, Enrolled
    <3>2. hellos' \in Seq(GoodHellos) /\ hellos' # <<>>
      BY <1>1, <3>1, AppendProperties DEF Base, Recorded, Connect
    <3>3. Active' => Active BY <1>1 DEF Connect, Active
    <3>4. UNCHANGED <<registry, vault>> BY <1>1 DEF Connect
    <3>. QED BY <3>2, <3>3, <3>4, HellosKept DEF Base, Recorded
  <2>3. Locked' BY <1>1 DEF Base, Locked, Connect
  <2>. QED BY <2>1, <2>2, <2>3 DEF Base
<1>2. CASE Register
  <2>1. Retry \in Seq(Passwords)
    <3>1. rotating => vault.pending \in Passwords BY DEF Base, Typed
    <3>2. rotating => <<vault.pending>> \in Seq(Passwords) BY <3>1
    <3>. QED BY <3>2, EmptySeq DEF Retry
  <2>2. hellos[Waiting].number \in DOMAIN registry /\ hellos[Waiting].number \in Nat
    BY <1>0, <1>2 DEF Register, Ready, GoodHellos
  <2>3. vault' \in [owner : Passwords, id : Nat, password : Passwords,
                    pending : {None} \cup Passwords]
        /\ vault'.owner = vault.owner /\ vault'.pending = vault.pending
        /\ vault'.id = hellos[Waiting].number
    BY <1>2, <2>2 DEF Base, Typed, Register
  <2>4. Typed'
    BY <1>2, <2>1, <2>3, EmptySeq, PairingAssumption
       DEF Base, Typed, Register, PairingAssumption
  <2>5. Recorded'
    <3>1. GoodRows' = GoodRows /\ GoodHellos' = GoodHellos
      BY <1>2, <2>3 DEF GoodRows, GoodHellos, Register
    <3>2. hellos' \in Seq(GoodHellos)
      BY <1>0, <1>2, ShorterProperties DEF Base, Recorded, Register
    <3>3. vault'.id # None /\ Enrolled'
      BY <1>2, <2>2, <2>3, RecordedProperties DEF Base, Enrolled, Register, None
    <3>. QED BY <1>2, <3>1, <3>2, <3>3 DEF Base, Recorded, Register
  <2>6. Locked' BY <1>2 DEF Base, Locked, Register
  <2>. QED BY <2>4, <2>5, <2>6 DEF Base
<1>3. CASE Refuse
  <2>1. Typed' BY <1>3 DEF Base, Typed, Refuse
  <2>2. Recorded'
    <3>1. hellos' \in Seq(GoodHellos)
      BY <1>0, <1>3, ShorterProperties DEF Base, Recorded, Refuse
    <3>2. Active' => Active BY <1>3 DEF Refuse, Active
    <3>. QED BY <1>3, <3>1, <3>2, HellosKept DEF Base, Recorded, Refuse
  <2>3. Locked' BY <1>3 DEF Base, Locked, Refuse
  <2>. QED BY <2>1, <2>2, <2>3 DEF Base
<1>4. CASE Restart
  <2>1. Typed' BY <1>4 DEF Base, Typed, Restart, Identity, Journaled
  <2>2. Recorded'
    <3>1. Active' => Active BY <1>4 DEF Restart, Active
    <3>. QED BY <1>4, <3>1, RecordedKept DEF Base, Restart, Identity
  <2>3. Locked' BY <1>4 DEF Base, Locked, Restart
  <2>. QED BY <2>1, <2>2, <2>3 DEF Base
<1>. QED BY <1>1, <1>2, <1>3, <1>4

\* Registry.register's two transactions, and an answer that reaches nobody.
LEMMA InsertProperties ==
    ASSUME Typed, Recorded, NEW i \in DOMAIN hellos, Insert(i)
    PROVE  /\ registry' \in Seq(GoodRows) /\ Len(registry') <= 1
           /\ DOMAIN registry \subseteq DOMAIN registry'
           /\ Enrolled => registry' = registry
           /\ hellos' \in Seq(GoodHellos')
<1>. DEFINE o == hellos[i].owner
            longer == Append(registry, NewRow(o))
<1>0. /\ Len(registry) \in {0, 1} /\ DOMAIN registry = 1 .. Len(registry)
      /\ \A n \in DOMAIN registry : registry[n] \in GoodRows
      /\ i \in 1 .. Len(hellos) /\ hellos[i] \in GoodHellos
      /\ Enrolled => Len(registry) = 1
  BY RecordedProperties
<1>1. o = vault.owner /\ o \in Passwords BY <1>0 DEF GoodHellos, Typed
<1>2. Found(o) = {} => Len(registry) = 0
  BY <1>0, <1>1 DEF Found, GoodRows
<1>3. NewRow(o) \in GoodRows BY <1>1 DEF NewRow, GoodRows
<1>4. longer \in Seq(GoodRows) /\ Len(longer) = Len(registry) + 1
  BY <1>3, AppendProperties DEF Recorded
<1>5. DOMAIN longer = 1 .. Len(longer) BY <1>4, LenProperties
<1>6. registry' = IF Found(o) = {} THEN longer ELSE registry BY DEF Insert, Inserted
<1>. HIDE DEF longer
<1>7. registry' \in Seq(GoodRows) /\ Len(registry') <= 1
      /\ DOMAIN registry \subseteq DOMAIN registry' /\ DOMAIN registry' \subseteq Nat
  BY <1>0, <1>2, <1>4, <1>5, <1>6 DEF Recorded
<1>8. ASSUME Enrolled PROVE registry' = registry
  <2>1. Len(registry) # 0 BY <1>0, <1>8
  <2>. QED BY <1>2, <1>6, <2>1
<1>9. hellos' \in Seq(GoodHellos')
  <2>1. PICK n \in DOMAIN registry' :
            hellos' = [hellos EXCEPT ![i].at = "known", ![i].number = n]
    BY DEF Insert
  <2>. DEFINE hello == [hellos[i] EXCEPT !.at = "known", !.number = n]
  <2>2. UNCHANGED vault BY DEF Insert, target
  <2>3. GoodHellos \subseteq GoodHellos' /\ hello \in GoodHellos'
    BY <1>0, <1>7, <1>1, <2>1, <2>2 DEF GoodHellos
  <2>4. hellos \in Seq(GoodHellos') BY <2>3, SeqMonotonic DEF Recorded
  <2>5. hellos' = [hellos EXCEPT ![i] = hello] BY <1>0, <2>1, <2>4
  <2>. HIDE DEF hello
  <2>. QED BY <1>0, <2>3, <2>4, <2>5, ExceptSeq
<1>. QED BY <1>7, <1>8, <1>9

LEMMA HandlersKeepBase ==
    ASSUME Base, Registering \/ \E i \in DOMAIN hellos : AcceptLost(i)
    PROVE  Base'
<1>. USE DEF database, rotation, admission, target, heard, counters
<1>0. \A i \in DOMAIN hellos : i \in 1 .. Len(hellos) /\ hellos[i] \in GoodHellos
  BY RecordedProperties DEF Base
<1>1. ASSUME NEW i \in DOMAIN hellos, LookUp(i) PROVE Base'
  <2>1. hellos' \in Seq(GoodHellos) /\ hellos' # <<>>
    <3>1. PICK hello \in GoodHellos : hellos' = [hellos EXCEPT ![i] = hello]
      <4>1. CASE hellos' = [hellos EXCEPT ![i].at = "insert"]
        <5>1. [hellos[i] EXCEPT !.at = "insert"] \in GoodHellos BY <1>0 DEF GoodHellos
        <5>. QED BY <4>1, <5>1
      <4>2. CASE \E n \in Found(hellos[i].owner) :
                     hellos' = [hellos EXCEPT ![i].at = "known", ![i].number = n]
        <5>1. PICK n \in DOMAIN registry :
                  hellos' = [hellos EXCEPT ![i].at = "known", ![i].number = n]
          BY <4>2 DEF Found
        <5>2. n \in Nat BY RecordedProperties DEF Base
        <5>3. [hellos[i] EXCEPT !.at = "known", !.number = n] \in GoodHellos
          BY <1>0, <5>2 DEF GoodHellos
        <5>. QED BY <5>1, <5>3
      <4>. QED BY <1>1, <4>1, <4>2 DEF LookUp
    <3>2. hellos' \in Seq(GoodHellos) /\ Len(hellos') = Len(hellos)
      BY <1>0, <3>1, ExceptSeq DEF Base, Recorded
    <3>. QED BY <1>0, <3>2, EmptySeq
  <2>. DEFINE rest == <<target, registry, peer, controller, lock, rotation, admission,
                         toRelay, toTarget, heard, counters>>
  <2>0. UNCHANGED rest BY <1>1 DEF LookUp
  <2>2. Typed' BY <2>0 DEF Base, Typed
  <2>3. Active' => Active BY <2>0 DEF Active
  <2>4. Recorded' BY <2>0, <2>1, <2>3, HellosKept DEF Base, Recorded
  <2>5. Locked' BY <2>0 DEF Base, Locked
  <2>. QED BY <2>2, <2>4, <2>5 DEF Base
<1>2. ASSUME NEW i \in DOMAIN hellos, Insert(i) PROVE Base'
  <2>1. /\ registry' \in Seq(GoodRows) /\ Len(registry') <= 1
        /\ DOMAIN registry \subseteq DOMAIN registry'
        /\ hellos' \in Seq(GoodHellos')
    BY <1>2, InsertProperties DEF Base
  <2>2. GoodRows' = GoodRows BY <1>2 DEF GoodRows, Insert
  <2>3. hellos' # <<>> /\ Enrolled => Enrolled'
    BY <1>2, <2>1 DEF Insert, Enrolled
  <2>4. hellos' # <<>> BY <1>0, <1>2, EmptySeq DEF Insert
  <2>5. Active' => Active BY <1>2 DEF Insert, Active
  <2>6. Typed' BY <1>2 DEF Base, Typed, Insert
  <2>7. Recorded' BY <1>2, <2>1, <2>2, <2>3, <2>4, <2>5 DEF Base, Recorded, Insert
  <2>8. Locked' BY <1>2 DEF Base, Locked, Insert
  <2>. QED BY <2>6, <2>7, <2>8 DEF Base
<1>3. ASSUME NEW i \in DOMAIN hellos, AcceptLost(i) PROVE Base'
  <2>1. hellos' \in Seq(GoodHellos)
    BY <1>0, <1>3, ShorterProperties DEF Base, Recorded, AcceptLost
  <2>2. link' = "hello" => hellos' # <<>>
    <3>1. ASSUME link = "hello" PROVE hellos' # <<>>
      <4>1. i # Len(hellos) /\ i \in 1 .. Len(hellos) /\ Len(hellos) \in Nat
        BY <1>0, <1>3, <3>1, RecordedProperties DEF AcceptLost, Waiting, Base
      <4>2. Len(hellos') = Len(hellos) - 1
        BY <1>3, <4>1, ShorterProperties DEF AcceptLost, Base, Recorded
      <4>3. Len(hellos') # 0 BY <4>1, <4>2
      <4>. QED BY <4>3, EmptySeq
    <3>. QED BY <1>3, <3>1 DEF AcceptLost
  <2>3. Active' => Active BY <1>3 DEF AcceptLost, Active
  <2>4. Typed' BY <1>3 DEF Base, Typed, AcceptLost
  <2>5. Recorded' BY <1>3, <2>1, <2>2, <2>3, HellosKept DEF Base, Recorded, AcceptLost
  <2>6. Locked' BY <1>3 DEF Base, Locked, AcceptLost
  <2>. QED BY <2>4, <2>5, <2>6 DEF Base
<1>. QED BY <1>1, <1>2, <1>3 DEF Registering

LEMMA TargetKeepsBase == Base /\ Target => Base'
<1>. SUFFICES ASSUME Base, Target PROVE Base' OBVIOUS
<1>. USE DEF database, rotation, admission, target, heard, counters
<1>1. CASE ChangePassword
  <2>1. /\ vault' \in [owner : Passwords, id : Nat, password : Passwords,
                       pending : {None} \cup Passwords]
        /\ vault'.owner = vault.owner /\ vault'.id = vault.id
        /\ vault'.pending \in Passwords /\ vault'.pending # None
        /\ fresh' \in Passwords
    <3>1. CASE vault.pending # None /\ UNCHANGED <<vault, fresh>>
      BY <3>1 DEF Base, Typed
    <3>2. CASE fresh < MaxPassword /\ fresh' = fresh + 1
               /\ vault' = [vault EXCEPT !.pending = fresh + 1]
      <4>1. fresh + 1 \in Passwords /\ fresh + 1 # None
        <5>1. fresh \in Passwords BY DEF Base, Typed
        <5>2. fresh + 1 \in Nat \ {0} /\ fresh + 1 <= MaxPassword
          BY <3>2, <5>1, PairingAssumption DEF Passwords, PairingAssumption
        <5>. QED BY <5>2, PairingAssumption DEF Passwords, None, PairingAssumption
      <4>. QED BY <3>2, <4>1 DEF Base, Typed
    <3>. QED BY <1>1, <3>1, <3>2 DEF ChangePassword
  <2>2. toRelay' \in Seq(Passwords)
    BY <1>1, <2>1, AppendProperties DEF Base, Typed, ChangePassword
  <2>3. Typed'
    <3>1. presses' \in Nat BY <1>1 DEF Base, Typed, ChangePassword
    <3>2. rotating' \in BOOLEAN /\ rotating' = (vault'.pending # None)
      BY <1>1, <2>1 DEF ChangePassword
    <3>. QED BY <1>1, <2>1, <2>2, <3>1, <3>2 DEF Base, Typed, ChangePassword
  <2>4. Recorded'
    <3>1. toRelay' # <<>> => toRelay # <<>> \/ peer = "live" BY <1>1 DEF ChangePassword
    <3>2. Active' => Active BY <1>1, <3>1 DEF ChangePassword, Active
    <3>. QED BY <1>1, <2>1, <3>2, RecordedKept DEF Base, ChangePassword
  <2>5. Locked' BY <1>1 DEF Base, Locked, ChangePassword
  <2>. QED BY <2>3, <2>4, <2>5 DEF Base
<1>2. CASE ReceiveSession
  <2>1. /\ toTarget' \in Seq(Messages) /\ Len(toTarget') <= QueueSize
        /\ Head(toTarget) \in Messages
    BY <1>2, TakeProperties DEF ReceiveSession, Heard, Base
  <2>2. Head(toTarget).type = "joined" => Head(toTarget).from \in Controllers
    BY <2>1 DEF Messages
  <2>3. Typed' BY <1>2, <2>1, <2>2 DEF Base, Typed, ReceiveSession, Heard
  <2>4. Recorded'
    <3>1. Active' => Active BY <1>2 DEF ReceiveSession, Active
    <3>. QED BY <1>2, <3>1, RecordedKept DEF Base, ReceiveSession
  <2>5. Locked' BY <1>2 DEF Base, Locked, ReceiveSession
  <2>. QED BY <2>3, <2>4, <2>5 DEF Base
<1>3. CASE ReceiveRotated
  <2>1. /\ toTarget' \in Seq(Messages) /\ Len(toTarget') <= QueueSize
        /\ Head(toTarget) \in Messages
    BY <1>3, TakeProperties DEF ReceiveRotated, Heard, Base
  <2>2. Head(toTarget).generation \in Nat BY <2>1 DEF Messages
  <2>3. /\ vault' \in [owner : Passwords, id : Nat, password : Passwords,
                       pending : {None} \cup Passwords]
        /\ vault'.owner = vault.owner /\ vault'.id = vault.id /\ vault'.pending = None
    BY <1>3 DEF Base, Typed, ReceiveRotated
  <2>4. Typed'
    <3>1. /\ UNCHANGED <<running, link, peer, controller, lock, rotation, admission, toRelay,
                        counters>>
          /\ rotating' = FALSE /\ speaker' = NoController /\ revoked' \in Nat
      BY <1>3, <2>2 DEF ReceiveRotated
    <3>. QED BY <2>1, <2>3, <3>1 DEF Base, Typed
  <2>5. Recorded'
    <3>1. Active' => Active BY <1>3 DEF ReceiveRotated, Active
    <3>. QED BY <1>3, <2>3, <3>1, RecordedKept DEF Base, ReceiveRotated
  <2>6. Locked' BY <1>3 DEF Base, Locked, ReceiveRotated
  <2>. QED BY <2>4, <2>5, <2>6 DEF Base
<1>4. CASE ReceiveUnexpected \/ Disconnect \/ Crash
  <2>1. drops' \in Nat
    BY <1>4 DEF ReceiveUnexpected, Disconnect, Crash, Dropping, Base, Typed
  <2>. QED BY <1>4, <2>1, HangupKeepsBase DEF ReceiveUnexpected, Disconnect, Crash
<1>. QED BY <1>1, <1>2, <1>3, <1>4, LinkKeepsBase DEF Target

LEMMA RotationKeepsBase ==
    ASSUME Base, BeginRotate \/ Commit \/ EndRotate
                 \/ (\E password \in orphans : OrphanCommits(password))
    PROVE  Base'
<1>. USE DEF database, rotation, admission, target, heard, counters
<1>1. CASE BeginRotate
  <2>1. Tail(toRelay) \in Seq(Passwords) /\ Head(toRelay) \in Passwords
    BY <1>1, HeadTailProperties DEF Base, Typed, BeginRotate
  <2>2. Typed' BY <1>1, <2>1 DEF Base, Typed, BeginRotate
  <2>3. Recorded'
    <3>1. vault.id # None BY <1>1 DEF Base, Recorded, Active, BeginRotate
    <3>. QED BY <1>1, <3>1, RecordedKept DEF Base, BeginRotate
  <2>4. Locked' BY <1>1, <2>1, PairingAssumption
        DEF Base, Locked, BeginRotate, PairingAssumption
  <2>. QED BY <2>2, <2>3, <2>4 DEF Base
<1>2. CASE Commit
  <2>1. request \in Passwords /\ Enrolled BY <1>2 DEF Base, Locked, Recorded, Active, Commit
  <2>2. /\ registry' \in Seq(GoodRows) /\ Len(registry') = Len(registry)
        /\ DOMAIN registry' = DOMAIN registry /\ Enrolled' /\ Row' \in GoodRows
    BY <1>2, <2>1, RotatedProperties DEF Base, Commit
  <2>3. result' \in Nat BY <1>2, <2>2 DEF Commit, Row, GoodRows
  <2>4. Typed' BY <1>2, <2>3 DEF Base, Typed, Commit
  <2>5. Recorded'
    <3>1. GoodRows' = GoodRows /\ GoodHellos' = GoodHellos
      BY <1>2, <2>2 DEF GoodRows, GoodHellos, Commit
    <3>2. Active' => Active BY <1>2 DEF Commit, Active
    <3>. QED BY <1>2, <2>2, <3>1, <3>2 DEF Base, Recorded, Commit
  <2>6. Locked' BY <1>2 DEF Base, Locked, Commit
  <2>. QED BY <2>4, <2>5, <2>6 DEF Base
<1>3. CASE EndRotate
  <2>1. Message("rotated", NoController, result) \in Messages
    BY Literals DEF Base, Typed
  <2>2. toTarget' \in Seq(Messages) /\ Len(toTarget') <= QueueSize
    <3>1. CASE Full BY <1>3, <3>1 DEF EndRotate, Base, Typed
    <3>2. CASE ~Full BY <1>3, <3>2, <2>1, PutProperties DEF EndRotate, Base
    <3>. QED BY <3>1, <3>2
  <2>3. toRelay' \in Seq(Passwords) /\ drops' \in Nat /\ peer' \in {peer, "dead"}
        /\ (Full => peer = "live")
    <3>1. Full => peer = "live" BY DEF Full
    <3>2. CASE Full
      <4>1. toRelay' = <<>> /\ peer' = "dead" /\ drops' = drops + 1
        BY <1>3, <3>2 DEF EndRotate, Dropping
      <4>. QED BY <3>1, <4>1, EmptySeq DEF Base, Typed
    <3>3. CASE ~Full BY <1>3, <3>3 DEF EndRotate, Base, Typed
    <3>. QED BY <3>1, <3>2, <3>3
  <2>4. Typed' BY <1>3, <2>2, <2>3 DEF Base, Typed, EndRotate
  <2>5. Recorded'
    <3>1. vault.id # None BY <1>3 DEF Base, Recorded, Active, EndRotate
    <3>. QED BY <1>3, <3>1, RecordedKept DEF Base, EndRotate
  <2>6. Locked' BY <1>3, <2>3, PairingAssumption
        DEF Base, Typed, Locked, EndRotate, PairingAssumption
  <2>. QED BY <2>4, <2>5, <2>6 DEF Base
<1>4. ASSUME NEW password \in orphans, OrphanCommits(password) PROVE Base'
  <2>1. password \in Passwords /\ Enrolled BY <1>4 DEF Base, Typed, Recorded, Active
  <2>2. /\ registry' \in Seq(GoodRows) /\ Len(registry') = Len(registry)
        /\ DOMAIN registry' = DOMAIN registry /\ Enrolled' /\ Row' \in GoodRows
    BY <1>4, <2>1, RotatedProperties DEF Base, OrphanCommits
  <2>3. Typed' BY <1>4 DEF Base, Typed, OrphanCommits
  <2>4. Recorded'
    <3>1. GoodRows' = GoodRows /\ GoodHellos' = GoodHellos
      BY <1>4, <2>2 DEF GoodRows, GoodHellos, OrphanCommits
    <3>2. Active' => Active BY <1>4 DEF OrphanCommits, Active
    <3>. QED BY <1>4, <2>2, <3>1, <3>2 DEF Base, Recorded, OrphanCommits
  <2>5. Locked' BY <1>4 DEF Base, Locked, OrphanCommits
  <2>. QED BY <2>3, <2>4, <2>5 DEF Base
<1>. QED BY <1>1, <1>2, <1>3, <1>4

LEMMA EndingKeepsBase ==
    ASSUME Base, DetachTarget \/ RelayRestarts
    PROVE  Base'
<1>. USE DEF database, rotation, admission, target, heard, counters
<1>1. CASE DetachTarget
  <2>1. /\ toRelay' \in Seq(Passwords) /\ drops' \in Nat
        /\ lock' \in {"free", "rotate"} \cup Controllers
    BY <1>1, EmptySeq DEF Base, Typed, DetachTarget, Dropping
  <2>2. orphans' \subseteq Passwords BY <1>1 DEF Base, Typed, Locked, DetachTarget
  <2>3. Typed' BY <1>1, <2>1, <2>2 DEF Base, Typed, DetachTarget
  <2>4. Recorded'
    <3>1. Active' => Active BY <1>1 DEF DetachTarget, Active
    <3>. QED BY <1>1, <3>1, RecordedKept DEF Base, DetachTarget
  <2>5. Locked' BY <1>1, PairingAssumption
        DEF Base, Typed, Locked, DetachTarget, PairingAssumption
  <2>. QED BY <2>3, <2>4, <2>5 DEF Base
<1>2. CASE RelayRestarts
  <2>1. toRelay' \in Seq(Passwords) /\ drops' \in Nat
        /\ stage' \in [Controllers -> Stages] /\ generation' \in [Controllers -> Nat]
    BY <1>2, EmptySeq DEF Base, Typed, RelayRestarts, Dropping, Stages
  <2>2. Typed' BY <1>2, <2>1 DEF Base, Typed, RelayRestarts
  <2>3. Recorded'
    <3>1. UNCHANGED <<registry, vault>> /\ hellos' = <<>> /\ link' # "hello"
      BY <1>2 DEF RelayRestarts
    <3>2. ~Active' BY <1>2 DEF RelayRestarts, Active
    <3>. QED BY <3>1, <3>2, EmptySeq, HellosKept DEF Base
  <2>4. Locked' BY <1>2 DEF Base, Locked, RelayRestarts
  <2>. QED BY <2>2, <2>3, <2>4 DEF Base
<1>. QED BY <1>1, <1>2

\* What the handler of one controller changes: its own stage, under the lock.
LEMMA ControllerKeepsBase ==
    ASSUME Base, NEW c \in Controllers,
           Login(c) \/ CheckGeneration(c) \/ Admit(c) \/ Forward(c) \/ DetachController(c)
    PROVE  Base'
<1>. USE DEF database, rotation, admission, target, heard, counters
<1>0. /\ c # NoController /\ c \notin {"free", "rotate"}
      /\ \A type \in {"joined", "input", "gone"}, g \in Nat : Message(type, c, g) \in Messages
      /\ generation[c] \in Nat
  BY Literals, PairingAssumption DEF PairingAssumption, Base, Typed
<1>1. CASE Login(c)
  <2>1. vault.id # None => Row.generation \in Nat
    BY RecordedProperties DEF Base, Recorded, GoodRows
  <2>2. stage' \in [Controllers -> Stages] /\ generation' \in [Controllers -> Nat]
    BY <1>1, <2>1 DEF Base, Typed, Login, Stages
  <2>3. Typed' BY <1>1, <2>2 DEF Base, Typed, Login
  <2>4. Recorded'
    <3>1. vault.id # None \/ (Active' => Active) BY <1>1 DEF Login, Active
    <3>. QED BY <1>1, <3>1, RecordedKept DEF Base, Login
  <2>5. Locked' BY <1>1 DEF Base, Typed, Locked, Login
  <2>. QED BY <2>3, <2>4, <2>5 DEF Base
<1>2. CASE CheckGeneration(c)
  <2>1. stage' \in [Controllers -> Stages] /\ generation' \in [Controllers -> Nat]
        /\ lock' \in {lock, c}
    <3>1. /\ \E s \in {"admitting", "out"} : stage' = [stage EXCEPT ![c] = s]
          /\ generation' = generation \/ generation' = [generation EXCEPT ![c] = 0]
          /\ lock' \in {lock, c}
      BY <1>2 DEF CheckGeneration, Leave
    <3>. QED BY <3>1 DEF Base, Typed, Stages
  <2>2. Typed' BY <1>2, <2>1 DEF Base, Typed, CheckGeneration
  <2>3. vault.id # None BY <1>2 DEF Base, Recorded, Active, CheckGeneration
  <2>4. Recorded' BY <1>2, <2>3, RecordedKept DEF Base, CheckGeneration
  <2>5. Locked' BY <1>0, <1>2, PairingAssumption
        DEF Base, Typed, Locked, CheckGeneration, Leave, PairingAssumption
  <2>. QED BY <2>2, <2>4, <2>5 DEF Base
<1>3. CASE Admit(c)
  <2>1. stage' \in [Controllers -> Stages] /\ generation' \in [Controllers -> Nat]
        /\ controller' \in {controller, c} /\ (controller' # controller => peer # "none")
        /\ \A d \in Controllers : stage'[d] = "admitting" => stage[d] = "admitting" /\ d # c
    <3>1. controller' = controller \/ (peer # "none" /\ controller' = c)
      BY <1>3 DEF Admit
    <3>2. /\ \E s \in {"out", "leaving", "in"} : stage' = [stage EXCEPT ![c] = s]
          /\ generation' = generation \/ generation' = [generation EXCEPT ![c] = 0]
      BY <1>3 DEF Admit, Leave, Fail
    <3>. QED BY <3>1, <3>2 DEF Base, Typed, Stages
  <2>2. toTarget' \in Seq(Messages) /\ Len(toTarget') <= QueueSize
    <3>1. CASE UNCHANGED toTarget BY <3>1 DEF Base, Typed
    <3>2. CASE Put(Message("joined", c, generation[c])) /\ ~Full
      BY <1>0, <3>2, PutProperties DEF Base
    <3>. QED BY <1>3, <3>1, <3>2 DEF Admit
  <2>3. Typed' BY <1>3, <2>1, <2>2 DEF Base, Typed, Admit
  <2>4. vault.id # None BY <1>3 DEF Base, Recorded, Active, Admit
  <2>5. Recorded' BY <1>3, <2>4, RecordedKept DEF Base, Admit
  <2>6. Locked' BY <1>0, <1>3, <2>1 DEF Base, Locked, Admit
  <2>. QED BY <2>3, <2>5, <2>6 DEF Base
<1>4. CASE Forward(c)
  <2>1. stage' \in [Controllers -> Stages] /\ generation' = generation
        /\ \A d \in Controllers : stage'[d] = "admitting" => stage[d] = "admitting"
    BY <1>4 DEF Base, Typed, Forward, Fail, Stages
  <2>2. toTarget' \in Seq(Messages) /\ Len(toTarget') <= QueueSize
    <3>1. CASE UNCHANGED toTarget BY <3>1 DEF Base, Typed
    <3>2. CASE Put(Message("input", c, generation[c])) /\ ~Full
      BY <1>0, <3>2, PutProperties DEF Base
    <3>. QED BY <1>4, <3>1, <3>2 DEF Forward
  <2>3. Typed' BY <1>4, <2>1, <2>2 DEF Base, Typed, Forward
  <2>4. vault.id # None BY <1>4 DEF Base, Recorded, Active, Forward
  <2>5. Recorded' BY <1>4, <2>4, RecordedKept DEF Base, Forward
  <2>6. Locked' BY <1>4, <2>1 DEF Base, Locked, Forward
  <2>. QED BY <2>3, <2>5, <2>6 DEF Base
<1>5. CASE DetachController(c)
  <2>1. stage' \in [Controllers -> Stages] /\ generation' \in [Controllers -> Nat]
        /\ controller' \in {controller, NoController}
        /\ \A d \in Controllers : stage'[d] = "admitting" => stage[d] = "admitting"
    BY <1>5 DEF Base, Typed, DetachController, Leave, Stages
  <2>2. /\ toRelay' \in Seq(Passwords) /\ drops' \in Nat
        /\ peer' \in {peer, "dead"} /\ (peer' = "none" <=> peer = "none")
    BY <1>5, BreakType DEF DetachController, Untold, Dropping, Base, Typed
  <2>3. toTarget' \in Seq(Messages) /\ Len(toTarget') <= QueueSize
    <3>1. CASE UNCHANGED toTarget BY <3>1 DEF Base, Typed
    <3>2. CASE Put(Message("gone", c, 0)) /\ ~Full
      BY <1>0, <3>2, PutProperties DEF Base
    <3>. QED BY <1>5, <3>1, <3>2 DEF DetachController
  <2>4. Typed' BY <1>5, <2>1, <2>2, <2>3 DEF Base, Typed, DetachController
  <2>5. vault.id # None BY <1>5 DEF Base, Recorded, Active, DetachController
  <2>6. Recorded' BY <1>5, <2>5, RecordedKept DEF Base, DetachController
  <2>7. Locked' BY <1>5, <2>1, <2>2 DEF Base, Typed, Locked, DetachController
  <2>. QED BY <2>4, <2>6, <2>7 DEF Base
<1>. QED BY <1>1, <1>2, <1>3, <1>4, <1>5

LEMMA BaseSteps == Base /\ [Next]_vars => Base'
<1>1. Base /\ UNCHANGED vars => Base'
  BY DEF Base, Typed, Recorded, GoodRows, GoodHellos, Active, Enrolled, Locked, vars,
         target, database, rotation, admission, heard, counters
<1>. QED
  BY <1>1, TargetKeepsBase, HandlersKeepBase, RotationKeepsBase, EndingKeepsBase,
     ControllerKeepsBase
     DEF Next, Relay

\* Pairing: whatever is lost, cancelled or restarted, the flags of the target agree with
\* its journal, the lock with the handlers and the peers with their connections.
THEOREM PairingTypeCorrect == Spec => []TypeOK
<1>1. Base => TypeOK
  <2>. SUFFICES ASSUME Base PROVE TypeOK OBVIOUS
  <2>1. \A n \in DOMAIN registry :
            registry[n] \in [owner : Passwords, password : Passwords, generation : Nat]
    BY RecordedProperties DEF Base, Typed, GoodRows
  <2>2. \A i \in DOMAIN hellos :
            hellos[i].at = "known" => hellos[i].number \in DOMAIN registry
    BY RecordedProperties DEF Base, GoodHellos
  <2>. QED BY <2>1, <2>2 DEF Base, Typed, Recorded, Locked, TypeOK, Stages
<1>. QED BY <1>1, BaseStarts, BaseSteps, PTL DEF Spec

\* Registry.register and target_identity: one ID for one target, whatever replies are
\* lost and however many of its registrations are between their two transactions.
THEOREM NeverAnotherID == Spec => []OneID
<1>1. Base => OneID BY DEF Base, Recorded, OneID
<1>. QED BY <1>1, BaseStarts, BaseSteps, PTL DEF Spec

-------------------------------------------------------------------------------
\* What a step means for the target, by what it hears.

\* Nothing new to hear, and nobody let in.
Quietly ==
    /\ UNCHANGED <<toTarget, heard>>
    /\ peer' = "live"
           => peer = "live" /\ (controller' = controller \/ controller = NoController)
    /\ \A c \in Controllers :
           /\ stage'[c] = "in" /\ controller' = c => stage[c] = "in" /\ controller = c
           /\ stage'[c] \in {"admitting", "in"} => generation'[c] = generation[c]
           /\ stage'[c] = "admitting" => stage[c] = "admitting" \/ generation[c] = Latest

\* Another connection, or none.
Afresh ==
    /\ toTarget' = <<>> /\ speaker' = NoController /\ revoked' = 0
    /\ peer' = "live" => controller' = NoController
    /\ UNCHANGED admission
    /\ \A c \in Controllers : controller' = c => controller = c

\* A message is read.
Reads ==
    /\ toTarget # <<>> /\ toTarget' = Tail(toTarget)
    /\ UNCHANGED <<peer, controller, admission>>
    /\ speaker' = CASE Head(toTarget).type = "input" -> speaker
                    [] Head(toTarget).type = "joined" -> Head(toTarget).from
                    [] OTHER -> NoController
    /\ revoked' = IF Head(toTarget).type = "rotated" THEN Head(toTarget).generation
                  ELSE revoked

\* A message is queued, and what the relay knows is what it says.
Says(m) ==
    /\ Put(m) /\ ~Full /\ m \in Messages
    /\ UNCHANGED <<peer, heard>>
    /\ CASE m.type = "joined" ->
              /\ controller = NoController /\ controller' = m.from
              /\ stage[m.from] = "admitting" /\ stage' = [stage EXCEPT ![m.from] = "in"]
              /\ m.generation = generation[m.from] /\ UNCHANGED generation
         [] m.type = "input" ->
              /\ controller = m.from /\ stage[m.from] = "in"
              /\ m.generation = generation[m.from]
              /\ UNCHANGED <<controller, admission>>
         [] m.type = "gone" ->
              /\ controller' = NoController
              /\ \A c \in Controllers :
                     stage'[c] = "admitting"
                         => stage[c] = "admitting" /\ generation'[c] = generation[c]
         [] m.type = "rotated" ->
              /\ controller' = NoController /\ m.generation = result
              /\ lock = "rotate" /\ UNCHANGED admission

Hears == Quietly \/ Afresh \/ Reads \/ \E m \in Messages : Says(m)

LEMMA TargetHears == Base /\ Target => Hears
<1>. SUFFICES ASSUME Base, Target PROVE Hears OBVIOUS
<1>. USE DEF admission, heard
<1>1. CASE Connect \/ Refuse \/ ChangePassword \/ Restart
  BY <1>1 DEF Connect, Refuse, ChangePassword, Restart, Quietly, Hears
<1>2. CASE Register
  BY <1>2 DEF Register, Afresh, Hears, Base, Locked
<1>3. CASE ReceiveSession \/ ReceiveRotated
  <2>1. Head(toTarget).type \in {"input", "joined", "gone", "rotated"}
    BY <1>3 DEF ReceiveSession, ReceiveRotated, Heard
  <2>. QED BY <1>3, <2>1 DEF ReceiveSession, ReceiveRotated, Heard, Reads, Hears
<1>4. CASE ReceiveUnexpected \/ Disconnect \/ Crash
  <2>1. peer' # "live" /\ UNCHANGED <<controller, admission>>
        /\ toTarget' = <<>> /\ speaker' = NoController /\ revoked' = 0
    BY <1>4 DEF ReceiveUnexpected, Disconnect, Crash, Hangup, Break
  <2>. QED BY <2>1 DEF Afresh, Hears
<1>. QED BY <1>1, <1>2, <1>3, <1>4 DEF Target

LEMMA RelayHears == Base /\ Relay => Hears
<1>. SUFFICES ASSUME Base, Relay PROVE Hears OBVIOUS
<1>. USE DEF admission, heard
<1>. DEFINE Handlers == Registering \/ \E i \in DOMAIN hellos : AcceptLost(i)
            Orphans == \E password \in orphans : OrphanCommits(password)
            Logins == \E c \in Controllers :
                Login(c) \/ CheckGeneration(c) \/ Admit(c) \/ Forward(c) \/ DetachController(c)
<1>1. CASE Handlers \/ BeginRotate \/ Commit \/ DetachTarget \/ Orphans
  <2>1. /\ UNCHANGED <<toTarget, heard, admission>>
        /\ \/ UNCHANGED <<peer, controller>>
           \/ peer' = "dead" /\ UNCHANGED controller
           \/ peer' = "none" /\ controller' = NoController
    BY <1>1
       DEF Registering, LookUp, Insert, AcceptLost, BeginRotate, Commit, DetachTarget,
           OrphanCommits
  <2>. QED BY <2>1, PairingAssumption DEF Quietly, Hears, PairingAssumption
<1>2. CASE RelayRestarts
  BY <1>2, PairingAssumption DEF RelayRestarts, Quietly, Hears, PairingAssumption
<1>3. CASE EndRotate
  <2>. DEFINE m == Message("rotated", NoController, result)
  <2>1. CASE Full
    BY <1>3, <2>1, PairingAssumption
       DEF EndRotate, Quietly, Hears, PairingAssumption
  <2>2. CASE ~Full
    <3>1. m \in Messages /\ m.type = "rotated" /\ m.generation = result
      BY Literals DEF Base, Typed
    <3>2. Says(m)
      BY <1>3, <2>2, <3>1 DEF EndRotate, Says, Base, Locked
    <3>. QED BY <3>1, <3>2 DEF Hears
  <2>. QED BY <2>1, <2>2
<1>4. ASSUME NEW c \in Controllers,
             Login(c) \/ CheckGeneration(c) \/ Admit(c) \/ Forward(c) \/ DetachController(c)
      PROVE  Hears
  <2>0. /\ c # NoController /\ stage \in [Controllers -> Stages]
        /\ generation \in [Controllers -> Nat] /\ generation[c] \in Nat
    BY PairingAssumption DEF PairingAssumption, Base, Typed
  <2>1. CASE Login(c)
    BY <2>0, <2>1 DEF Login, Quietly, Hears
  <2>2. CASE CheckGeneration(c)
    <3>1. Enrolled BY <2>2 DEF Base, Recorded, Active, CheckGeneration
    <3>. QED
      BY <2>0, <2>2, <3>1
         DEF CheckGeneration, Current, Latest, Leave, Quietly, Hears
  <2>3. CASE Admit(c)
    <3>. DEFINE m == Message("joined", c, generation[c])
    <3>1. m \in Messages /\ m.type = "joined" /\ m.from = c /\ m.generation = generation[c]
      BY <2>0, Literals
    <3>2. CASE peer = "none" \/ controller # NoController
      BY <2>0, <2>3, <3>2 DEF Admit, Leave, Quietly, Hears
    <3>3. CASE peer # "none" /\ controller = NoController /\ Full
      BY <2>0, <2>3, <3>3 DEF Admit, Fail, Quietly, Hears
    <3>4. CASE peer # "none" /\ controller = NoController /\ ~Full
      <4>1. Says(m) BY <2>3, <3>1, <3>4 DEF Admit, Says
      <4>. QED BY <3>1, <4>1 DEF Hears
    <3>. QED BY <3>2, <3>3, <3>4
  <2>4. CASE Forward(c)
    <3>. DEFINE m == Message("input", c, generation[c])
    <3>1. m \in Messages /\ m.type = "input" /\ m.from = c /\ m.generation = generation[c]
      BY <2>0, Literals
    <3>2. CASE Full BY <2>0, <2>4, <3>2 DEF Forward, Fail, Quietly, Hears
    <3>3. CASE ~Full
      <4>1. Says(m) BY <2>4, <3>1, <3>3 DEF Forward, Admitted, Says
      <4>. QED BY <3>1, <4>1 DEF Hears
    <3>. QED BY <3>2, <3>3
  <2>5. CASE DetachController(c)
    <3>. DEFINE m == Message("gone", c, 0)
    <3>1. m \in Messages /\ m.type = "gone" BY <2>0, Literals
    <3>2. CASE controller # c
      BY <2>0, <2>5, <3>2 DEF DetachController, Leave, Quietly, Hears
    <3>3. CASE controller = c /\ Full
      <4>1. peer' = "dead" BY <2>5, <3>3 DEF DetachController, Untold, Break, Full
      <4>. QED BY <2>0, <2>5, <3>3, <4>1, PairingAssumption
           DEF DetachController, Leave, Quietly, Hears, PairingAssumption
    <3>4. CASE controller = c /\ ~Full
      <4>1. Says(m) BY <2>0, <2>5, <3>1, <3>4 DEF DetachController, Leave, Says
      <4>. QED BY <3>1, <4>1 DEF Hears
    <3>. QED BY <3>2, <3>3, <3>4
  <2>. QED BY <1>4, <2>1, <2>2, <2>3, <2>4, <2>5
<1>5. CASE Logins BY <1>4, <1>5
<1>6. Handlers \/ Orphans \/ Logins \/ BeginRotate \/ Commit \/ EndRotate \/ DetachTarget
      \/ RelayRestarts
  BY DEF Relay
<1>. HIDE DEF Hears, Handlers, Orphans, Logins
<1>. QED BY <1>1, <1>2, <1>3, <1>5, <1>6

LEMMA EveryStepHears == Base /\ [Next]_vars => Hears
<1>1. UNCHANGED vars => Quietly
  BY DEF vars, admission, heard, Quietly
<1>. QED BY <1>1, TargetHears, RelayHears DEF Next, Hears

-------------------------------------------------------------------------------
\* Announcements.

LEMMA HeadIsFirst ==
    ASSUME Typed
    PROVE  /\ toTarget # <<>> => Head(toTarget) = toTarget[1] /\ Len(toTarget) \in Nat \ {0}
           /\ toTarget = <<>> => Len(toTarget) = 0
           /\ \A i \in 1 .. Len(toTarget) : toTarget[i] \in Messages
BY HeadTailProperties, EmptySeq, LenProperties DEF Typed

LEMMA AnnouncedSays ==
    ASSUME Base, Base', AnnouncedInv, NEW m \in Messages, Says(m)
    PROVE  AnnouncedInv'
<1>1. CASE peer # "live"
  <2>1. UNCHANGED <<toTarget, speaker, peer>>
    BY <1>1, PutProperties DEF Says, Base, heard
  <2>. QED BY <1>1, <2>1 DEF AnnouncedInv, AnnouncedFirst, NextInput
<1>2. CASE peer = "live"
  <2>. DEFINE n == Len(toTarget)
  <2>1. /\ Len(toTarget') = n + 1 /\ n \in Nat /\ toTarget' # <<>>
        /\ toTarget'[n + 1] = m
        /\ \A i \in 1 .. n : toTarget'[i] = toTarget[i]
        /\ UNCHANGED <<speaker, peer>>
    BY <1>2, PutProperties DEF Says, Base, heard
  <2>2. /\ toTarget # <<>> => Head(toTarget) = toTarget[1] /\ n # 0
        /\ toTarget = <<>> => n = 0
        /\ Head(toTarget') = toTarget'[1]
    BY <2>1, HeadIsFirst, HeadTailProperties DEF Base, Typed
  <2>3. m.type = "input"
            => IF n = 0 THEN speaker = m.from
               ELSE toTarget[n].type \in {"input", "joined"} /\ toTarget[n].from = m.from
    <3>1. m.type = "input" => /\ controller = m.from /\ stage[m.from] = "in"
                             /\ m.from \in Controllers
      BY DEF Says, Messages
    <3>. QED
      BY <1>2, <2>2, <3>1, PairingAssumption DEF AnnouncedInv, PairingAssumption
  <2>4. AnnouncedFirst'
    BY <2>1, <2>2, <2>3 DEF AnnouncedInv, AnnouncedFirst, NextInput
  <2>5. ASSUME NEW i \in 2 .. Len(toTarget'), toTarget'[i].type = "input"
        PROVE  /\ toTarget'[i - 1].type \in {"input", "joined"}
               /\ toTarget'[i - 1].from = toTarget'[i].from
    <3>1. CASE i = n + 1
      <4>1. i - 1 = n /\ n \in 1 .. n BY <2>1, <3>1
      <4>. QED BY <2>1, <2>3, <2>5, <3>1, <4>1
    <3>2. CASE i # n + 1
      <4>1. i \in 2 .. n /\ i \in 1 .. n /\ i - 1 \in 1 .. n BY <2>1, <3>2
      <4>. QED BY <2>1, <2>5, <4>1 DEF AnnouncedInv
    <3>. QED BY <3>1, <3>2
  <2>6. controller' # NoController
            => m.type \in {"input", "joined"} /\ m.from = controller'
    <3>1. m.type \in {"joined", "input", "gone", "rotated"} BY DEF Messages
    <3>. QED BY <3>1 DEF Says
  <2>. QED BY <2>1, <2>4, <2>5, <2>6 DEF AnnouncedInv
<1>. QED BY <1>1, <1>2

LEMMA AnnouncedReads ==
    ASSUME Base, AnnouncedInv, Reads
    PROVE  AnnouncedInv'
<1>. DEFINE n == Len(toTarget')
<1>1. /\ Len(toTarget) = n + 1 /\ n \in Nat
      /\ Head(toTarget) = toTarget[1] /\ Head(toTarget) \in Messages
      /\ \A i \in 1 .. n : toTarget'[i] = toTarget[i + 1]
      /\ toTarget' = <<>> => n = 0
      /\ toTarget' # <<>> => Head(toTarget') = toTarget'[1] /\ n # 0
  <2>1. /\ toTarget' \in Seq(Messages) /\ n = Len(toTarget) - 1 /\ Len(toTarget) \in Nat \ {0}
        /\ Head(toTarget) = toTarget[1] /\ Head(toTarget) \in Messages
        /\ \A i \in 1 .. n : toTarget'[i] = toTarget[i + 1]
    BY TakeProperties DEF Base, Reads
  <2>2. \A s \in Seq(Messages) : s # <<>> => Head(s) = s[1] /\ Len(s) # 0
    BY HeadTailProperties
  <2>3. toTarget' = <<>> => n = 0 BY EmptySeq
  <2>. QED BY <2>1, <2>2, <2>3
<1>2. Head(toTarget).type = "input" => Head(toTarget).from = speaker
  BY DEF AnnouncedInv, AnnouncedFirst, NextInput, Reads
<1>3. Head(toTarget).type \in {"input", "joined"} => speaker' = Head(toTarget).from
  BY <1>2 DEF Reads
<1>4. AnnouncedFirst'
  <2>1. ASSUME n # 0, toTarget[2].type = "input"
        PROVE  /\ toTarget[1].type \in {"input", "joined"}
               /\ toTarget[1].from = toTarget[2].from
    <3>1. 2 \in 2 .. Len(toTarget) /\ 2 - 1 = 1 BY <1>1, <2>1
    <3>. QED BY <2>1, <3>1 DEF AnnouncedInv
  <2>2. n # 0 => toTarget'[1] = toTarget[2] BY <1>1
  <2>. QED BY <1>1, <1>3, <2>1, <2>2 DEF AnnouncedFirst, NextInput
<1>5. ASSUME NEW i \in 2 .. n, toTarget'[i].type = "input"
      PROVE  /\ toTarget'[i - 1].type \in {"input", "joined"}
             /\ toTarget'[i - 1].from = toTarget'[i].from
  <2>1. /\ i + 1 \in 2 .. Len(toTarget) /\ (i + 1) - 1 = i
        /\ toTarget'[i] = toTarget[i + 1] /\ toTarget'[i - 1] = toTarget[i]
    BY <1>1
  <2>. QED BY <1>5, <2>1 DEF AnnouncedInv
<1>6. ASSUME peer' = "live", controller' # NoController, stage'[controller'] = "in"
      PROVE  IF toTarget' = <<>> THEN speaker' = controller'
             ELSE LET last == toTarget'[n]
                  IN  last.type \in {"input", "joined"} /\ last.from = controller'
  <2>1. LET last == toTarget[Len(toTarget)]
        IN  last.type \in {"input", "joined"} /\ last.from = controller
    BY <1>6 DEF AnnouncedInv, Reads, admission
  <2>2. n # 0 => toTarget'[n] = toTarget[Len(toTarget)] BY <1>1
  <2>3. controller' = controller BY DEF Reads
  <2>. QED BY <1>1, <1>3, <2>1, <2>2, <2>3
<1>. QED BY <1>4, <1>5, <1>6 DEF AnnouncedInv

LEMMA AnnouncedSteps == Base /\ Base' /\ AnnouncedInv /\ Hears => AnnouncedInv'
<1>. SUFFICES ASSUME Base, Base', AnnouncedInv, Hears PROVE AnnouncedInv' OBVIOUS
<1>1. CASE Quietly
  <2>1. controller' # NoController => controller' \in Controllers BY DEF Base, Typed
  <2>2. peer' = "live" /\ controller' # NoController /\ stage'[controller'] = "in"
            => peer = "live" /\ controller' = controller /\ stage[controller] = "in"
    BY <1>1, <2>1 DEF Quietly
  <2>. QED BY <1>1, <2>2 DEF AnnouncedInv, AnnouncedFirst, NextInput, Quietly, heard
<1>2. CASE Afresh BY <1>2 DEF AnnouncedInv, AnnouncedFirst, NextInput, Afresh
<1>. QED BY <1>1, <1>2, AnnouncedReads, AnnouncedSays DEF Hears

\* Relay and Peer.put: no input reaches the target before the announcement of the
\* controller it comes from or after its end, whatever handlers end in between.
THEOREM AlwaysAnnouncedFirst == Spec => []AnnouncedFirst
<1>. DEFINE IInv == Base /\ AnnouncedInv
<1>1. Init => IInv
  BY BaseStarts, EmptySeq DEF Init, AnnouncedInv, AnnouncedFirst, NextInput
<1>2. IInv /\ [Next]_vars => IInv' BY BaseSteps, EveryStepHears, AnnouncedSteps
<1>3. IInv => AnnouncedFirst BY DEF AnnouncedInv
<1>. QED BY <1>1, <1>2, <1>3, PTL DEF Spec

-------------------------------------------------------------------------------
\* Generations.

LEMMA RowProperties == Base => /\ Enrolled => vault.id = 1
                               /\ Latest \in Nat
BY RecordedProperties DEF Base, GoodRows, Latest

\* The password's generation never falls, and a reply never names a later one.
LEMMA LatestGrows ==
    ASSUME Base, Base', [Next]_vars
    PROVE  /\ Latest \in Nat /\ Latest' \in Nat /\ Latest' >= Latest
           /\ result <= Latest => result' <= Latest'
<1>. USE DEF database, rotation, target
<1>1. Latest \in Nat /\ Latest' \in Nat
  <2>1. Latest \in Nat BY RowProperties
  <2>2. (Latest \in Nat)' BY RowProperties, PTL
  <2>. QED BY <2>1, <2>2
<1>2. result \in Nat /\ result' \in Nat BY DEF Base, Typed
<1>3. CASE UNCHANGED <<registry, vault>> /\ result' \in {result, 0}
  <2>1. Latest' = Latest BY <1>3 DEF Latest, Enrolled, Row
  <2>. QED BY <1>1, <1>2, <1>3, <2>1
<1>4. CASE Registering
  <2>1. PICK i \in DOMAIN hellos : LookUp(i) \/ Insert(i) BY <1>4 DEF Registering
  <2>2. UNCHANGED vault /\ result' = result /\ (Enrolled => registry' = registry)
    BY <2>1, InsertProperties DEF Base, LookUp, Insert
  <2>3. Latest' >= Latest BY <1>1, <2>2 DEF Latest, Enrolled, Row
  <2>. QED BY <1>2, <2>2, <2>3, <1>1
<1>5. CASE Commit
  <2>1. Enrolled /\ request \in Passwords /\ registry' = Rotated(request) /\ vault' = vault
        /\ result' = registry'[vault.id].generation
    BY <1>5 DEF Base, Recorded, Active, Locked, Commit
  <2>2. Enrolled' /\ Row'.generation >= Row.generation
    BY <2>1, RotatedProperties DEF Base
  <2>3. result' = Latest' /\ Latest' >= Latest BY <2>1, <2>2 DEF Latest, Row
  <2>. QED BY <1>1, <2>3
<1>6. ASSUME NEW password \in orphans, OrphanCommits(password)
      PROVE  Latest' >= Latest /\ result' = result
  <2>1. Enrolled /\ password \in Passwords /\ registry' = Rotated(password) /\ vault' = vault
        /\ result' = result
    BY <1>6 DEF Base, Recorded, Active, Typed, OrphanCommits
  <2>2. Enrolled' /\ Row'.generation >= Row.generation
    BY <2>1, RotatedProperties DEF Base
  <2>. QED BY <2>1, <2>2 DEF Latest
<1>7. CASE UNCHANGED <<registry, result>> /\ vault'.id = vault.id
  <2>1. Latest' = Latest BY <1>7 DEF Latest, Enrolled, Row
  <2>. QED BY <1>1, <1>7, <2>1
<1>8. CASE Target
  <2>1. UNCHANGED <<registry, result>>
    BY <1>8
       DEF Target, Connect, Register, Refuse, ChangePassword, ReceiveSession,
           ReceiveRotated, ReceiveUnexpected, Disconnect, Crash, Restart
  <2>2. CASE Register
    <3>1. Enrolled'
      <4>1. Active' BY <2>2 DEF Register, Active
      <4>. QED BY <4>1 DEF Base, Recorded
    <3>2. Enrolled => vault.id = 1 BY RowProperties DEF Base
    <3>3. (Enrolled => vault.id = 1)' BY RowProperties, PTL
    <3>4. Enrolled => vault'.id = vault.id
      BY <3>1, <3>2, <3>3
    <3>5. Latest' >= Latest BY <1>1, <2>1, <3>4 DEF Latest, Enrolled, Row
    <3>. QED BY <1>1, <1>2, <2>1, <3>5
  <2>3. CASE ~Register
    <3>1. vault'.id = vault.id
      BY <1>8, <2>3
         DEF Target, Connect, Refuse, ChangePassword, ReceiveSession, ReceiveRotated,
             ReceiveUnexpected, Disconnect, Crash, Restart, Identity, Base, Typed
    <3>. QED BY <1>7, <2>1, <3>1
  <2>. QED BY <2>2, <2>3
<1>9. CASE Relay
  <2>1. CASE \/ BeginRotate \/ EndRotate \/ DetachTarget \/ RelayRestarts
            \/ \E i \in DOMAIN hellos : AcceptLost(i)
    BY <1>3, <2>1 DEF BeginRotate, EndRotate, DetachTarget, RelayRestarts, AcceptLost
  <2>2. ASSUME NEW c \in Controllers,
               Login(c) \/ CheckGeneration(c) \/ Admit(c) \/ Forward(c) \/ DetachController(c)
        PROVE  UNCHANGED <<registry, vault>> /\ result' \in {result, 0}
    BY <2>2 DEF Login, CheckGeneration, Admit, Forward, DetachController
  <2>. QED BY <1>1, <1>2, <1>3, <1>4, <1>5, <1>6, <1>9, <2>1, <2>2 DEF Relay
<1>. QED BY <1>3, <1>8, <1>9 DEF Next, vars

LEMMA RevokedSays ==
    ASSUME Base, Base', RevokedInv, NEW m \in Messages, Says(m),
           Latest' \in Nat, Latest' >= Latest, result' <= Latest'
    PROVE  RevokedInv'
<1>0. /\ Latest \in Nat /\ revoked \in Nat /\ result \in Nat /\ revoked' = revoked
      /\ m.generation \in Nat /\ m.type \in {"joined", "input", "gone", "rotated"}
      /\ \A i \in 1 .. Len(toTarget) : toTarget[i].generation \in Nat
      /\ stage \in [Controllers -> Stages] /\ generation \in [Controllers -> Nat]
  BY HeadIsFirst, RowProperties DEF Base, Typed, Messages, Says, heard
<1>1. \A c \in Controllers :
          stage'[c] = "admitting" \/ (stage'[c] = "in" /\ controller' = c)
              => /\ NotOver(generation[c]) /\ generation'[c] = generation[c]
                 /\ m.type # "rotated"
  <2>. SUFFICES ASSUME NEW c \in Controllers,
                       stage'[c] = "admitting" \/ (stage'[c] = "in" /\ controller' = c)
                PROVE  /\ NotOver(generation[c]) /\ generation'[c] = generation[c]
                       /\ m.type # "rotated"
    OBVIOUS
  <2>0. c # NoController /\ c # "rotate" BY PairingAssumption DEF PairingAssumption
  <2>1. CASE m.type = "joined"
    <3>1. stage[c] = "admitting" \/ (stage[c] = "in" /\ controller = c)
      BY <1>0, <2>0, <2>1 DEF Says
    <3>. QED BY <2>1, <3>1 DEF RevokedInv, Says
  <2>2. CASE m.type = "input" BY <2>2 DEF RevokedInv, Says, admission
  <2>3. CASE m.type = "gone" BY <2>0, <2>3 DEF RevokedInv, Says
  <2>4. CASE m.type = "rotated"
    BY <2>0, <2>4 DEF Says, admission, Base, Locked
  <2>. QED BY <1>0, <2>1, <2>2, <2>3, <2>4
<1>2. CASE peer # "live"
  <2>1. UNCHANGED toTarget BY <1>2, PutProperties DEF Says, Base
  <2>2. NotOver(Latest)' BY <1>0, <2>1 DEF RevokedInv, NotOver
  <2>. QED BY <1>0, <1>1, <2>1, <2>2 DEF RevokedInv, NotOver
<1>3. CASE peer = "live"
  <2>. DEFINE n == Len(toTarget)
  <2>1. /\ Len(toTarget') = n + 1 /\ n \in Nat
        /\ toTarget'[n + 1] = m
        /\ \A i \in 1 .. n : toTarget'[i] = toTarget[i]
    BY <1>3, PutProperties DEF Says, Base
  <2>2. ASSUME NEW g \in Nat, NotOver(g), m.type = "rotated" => m.generation <= g
        PROVE  /\ revoked' <= g
               /\ \A i \in 1 .. Len(toTarget') :
                      toTarget'[i].type = "rotated" => toTarget'[i].generation <= g
    <3>1. ASSUME NEW i \in 1 .. Len(toTarget'), toTarget'[i].type = "rotated"
          PROVE  toTarget'[i].generation <= g
      <4>1. i \in 1 .. n \/ i = n + 1 BY <2>1
      <4>. QED BY <2>1, <2>2, <3>1, <4>1 DEF NotOver
    <3>. QED BY <1>0, <2>2, <3>1 DEF NotOver
  <2>3. NotOver(Latest)'
    <3>1. PICK g \in Nat : g = Latest' OBVIOUS
    <3>2. NotOver(g) BY <1>0, <3>1 DEF RevokedInv, NotOver
    <3>3. m.type = "rotated" => m.generation <= g
      BY <1>0, <3>1 DEF Says, RevokedInv
    <3>. QED BY <2>2, <3>1, <3>2, <3>3 DEF NotOver
  <2>4. ASSUME NEW c \in Controllers,
               stage'[c] = "admitting" \/ (stage'[c] = "in" /\ controller' = c)
        PROVE  NotOver(generation[c])'
    <3>1. PICK g \in Nat : g = generation[c] BY <1>0
    <3>2. NotOver(g) /\ g = generation'[c] /\ m.type # "rotated" BY <1>1, <2>4, <3>1
    <3>. QED BY <2>2, <3>2 DEF NotOver
  <2>5. ASSUME NEW i \in 1 .. Len(toTarget'), toTarget'[i].type = "input"
        PROVE  /\ revoked' <= toTarget'[i].generation
               /\ \A k \in 1 .. i - 1 : toTarget'[k].type = "rotated"
                      => toTarget'[k].generation <= toTarget'[i].generation
    <3>1. CASE i = n + 1
      <4>1. m.from \in Controllers /\ NotOver(m.generation)
        BY <2>1, <2>5, <3>1 DEF Says, RevokedInv, Messages
      <4>2. \A k \in 1 .. i - 1 : k \in 1 .. n /\ toTarget'[k] = toTarget[k]
        BY <2>1, <3>1
      <4>. QED BY <1>0, <2>1, <3>1, <4>1, <4>2 DEF NotOver
    <3>2. CASE i # n + 1
      <4>1. i \in 1 .. n /\ \A k \in 1 .. i - 1 : k \in 1 .. n BY <2>1, <3>2
      <4>. QED BY <1>0, <2>1, <2>5, <4>1 DEF RevokedInv
    <3>. QED BY <3>1, <3>2
  <2>. QED BY <2>3, <2>4, <2>5 DEF RevokedInv
<1>. QED BY <1>2, <1>3

LEMMA RevokedReads ==
    ASSUME Base, RevokedInv, Reads,
           Latest \in Nat, Latest' \in Nat, Latest' >= Latest, result' <= Latest'
    PROVE  RevokedInv'
<1>. DEFINE n == Len(toTarget')
<1>1. /\ Len(toTarget) = n + 1 /\ n \in Nat
      /\ Head(toTarget) = toTarget[1] /\ Head(toTarget) \in Messages
      /\ \A i \in 1 .. n : toTarget'[i] = toTarget[i + 1] /\ toTarget'[i].generation \in Nat
  <2>1. /\ n = Len(toTarget) - 1 /\ Len(toTarget) \in Nat \ {0}
        /\ Head(toTarget) = toTarget[1] /\ Head(toTarget) \in Messages
        /\ \A i \in 1 .. n : toTarget'[i] = toTarget[i + 1]
    BY TakeProperties DEF Base, Reads
  <2>2. \A i \in 1 .. Len(toTarget) : toTarget[i] \in Messages
    BY HeadIsFirst DEF Base
  <2>3. \A i \in 1 .. n : i + 1 \in 1 .. Len(toTarget) BY <2>1
  <2>. QED BY <2>1, <2>2, <2>3 DEF Messages
<1>2. revoked' = revoked \/ (toTarget[1].type = "rotated" /\ revoked' = toTarget[1].generation)
  BY <1>1 DEF Reads
<1>3. ASSUME NEW g \in Nat, NotOver(g)
      PROVE  /\ revoked' <= g
             /\ \A i \in 1 .. n : toTarget'[i].type = "rotated" => toTarget'[i].generation <= g
  <2>1. 1 \in 1 .. Len(toTarget) /\ \A i \in 1 .. n : i + 1 \in 1 .. Len(toTarget)
    BY <1>1
  <2>. QED BY <1>1, <1>2, <1>3, <2>1 DEF NotOver
<1>4. NotOver(Latest)'
  <2>1. PICK g \in Nat : g = Latest' OBVIOUS
  <2>2. NotOver(g)
    <3>1. revoked \in Nat /\ \A i \in 1 .. Len(toTarget) : toTarget[i].generation \in Nat
      BY HeadIsFirst DEF Base, Typed, Messages
    <3>. QED BY <2>1, <3>1 DEF RevokedInv, NotOver
  <2>. QED BY <1>3, <2>1, <2>2 DEF NotOver
<1>5. ASSUME NEW c \in Controllers,
             stage'[c] = "admitting" \/ (stage'[c] = "in" /\ controller' = c)
      PROVE  NotOver(generation[c])'
  <2>1. generation[c] \in Nat /\ NotOver(generation[c]) /\ generation' = generation
    BY <1>5 DEF RevokedInv, Reads, admission, Base, Typed
  <2>2. PICK g \in Nat : g = generation[c] BY <2>1
  <2>. QED BY <1>3, <2>1, <2>2 DEF NotOver
<1>6. ASSUME NEW i \in 1 .. n, toTarget'[i].type = "input"
      PROVE  /\ revoked' <= toTarget'[i].generation
             /\ \A k \in 1 .. i - 1 : toTarget'[k].type = "rotated"
                    => toTarget'[k].generation <= toTarget'[i].generation
  <2>1. /\ i + 1 \in 1 .. Len(toTarget) /\ toTarget'[i] = toTarget[i + 1]
        /\ 1 \in 1 .. (i + 1) - 1
        /\ \A k \in 1 .. i - 1 : k + 1 \in 1 .. (i + 1) - 1 /\ toTarget'[k] = toTarget[k + 1]
    BY <1>1
  <2>2. /\ revoked <= toTarget[i + 1].generation
        /\ \A k \in 1 .. (i + 1) - 1 : toTarget[k].type = "rotated"
               => toTarget[k].generation <= toTarget[i + 1].generation
    BY <1>6, <2>1 DEF RevokedInv
  <2>. QED BY <1>2, <2>1, <2>2
<1>. QED BY <1>4, <1>5, <1>6 DEF RevokedInv

LEMMA RevokedSteps == Base /\ Base' /\ RevokedInv /\ [Next]_vars => RevokedInv'
<1>. SUFFICES ASSUME Base, Base', RevokedInv, [Next]_vars PROVE RevokedInv' OBVIOUS
<1>1. /\ Latest \in Nat /\ Latest' \in Nat /\ Latest' >= Latest /\ result' <= Latest'
  BY LatestGrows DEF RevokedInv
<1>2. revoked \in Nat /\ \A i \in 1 .. Len(toTarget) : toTarget[i].generation \in Nat
  BY HeadIsFirst DEF Base, Typed, Messages
<1>3. CASE Quietly
  <2>1. NotOver(Latest)' BY <1>1, <1>2, <1>3 DEF Quietly, heard, RevokedInv, NotOver
  <2>2. \A c \in Controllers : stage'[c] = "admitting" \/ (stage'[c] = "in" /\ controller' = c)
            => NotOver(generation[c]) /\ generation'[c] = generation[c]
    BY <1>3 DEF Quietly, RevokedInv
  <2>. QED BY <1>1, <1>3, <2>1, <2>2 DEF Quietly, heard, RevokedInv, NotOver
<1>4. CASE Afresh
  <2>1. \A g \in Nat : 0 <= g OBVIOUS
  <2>2. \A c \in Controllers : generation'[c] \in Nat BY DEF Base, Typed
  <2>3. Len(toTarget') = 0 BY <1>4, EmptySeq DEF Afresh
  <2>. QED BY <1>1, <1>4, <2>1, <2>2, <2>3 DEF Afresh, RevokedInv, NotOver
<1>. QED BY <1>1, <1>3, <1>4, RevokedReads, RevokedSays, EveryStepHears DEF Hears

\* Relay.rotate_password, attach_controller and Registry: once the target has heard that
\* its password is changed, no input follows from a controller admitted before it.
THEOREM RevokedNeverReturn == Spec => []RevokedStayOut
<1>. DEFINE IInv == Base /\ RevokedInv
<1>1. Init => IInv
  <2>. SUFFICES ASSUME Init PROVE RevokedInv BY BaseStarts
  <2>1. Len(toTarget) = 0 /\ Latest = 0 BY EmptySeq DEF Init, Latest, Enrolled
  <2>. QED BY <2>1 DEF Init, RevokedInv, NotOver
<1>2. IInv /\ [Next]_vars => IInv' BY BaseSteps, RevokedSteps
<1>3. IInv => RevokedStayOut
  <2>1. ASSUME Base, RevokedInv, NextInput PROVE Head(toTarget).generation >= revoked
    <3>1. 1 \in 1 .. Len(toTarget) /\ Head(toTarget) = toTarget[1]
          /\ toTarget[1].type = "input" /\ toTarget[1].generation \in Nat /\ revoked \in Nat
      BY <2>1, HeadIsFirst DEF NextInput, Base, Typed, Messages
    <3>. QED BY <2>1, <3>1 DEF RevokedInv
  <2>. QED BY <2>1 DEF RevokedStayOut
<1>. QED BY <1>1, <1>2, <1>3, PTL DEF Spec

-------------------------------------------------------------------------------
\* Whom the target believes.

LEMMA GhostSays ==
    ASSUME Base, GhostInv, NEW m \in Messages, Says(m)
    PROVE  GhostInv'
<1>. SUFFICES ASSUME peer = "live" PROVE GhostInv' BY DEF Says, GhostInv
<1>. DEFINE n == Len(toTarget)
<1>1. /\ Len(toTarget') = n + 1 /\ n \in Nat
      /\ toTarget'[n + 1] = m
      /\ \A i \in 1 .. n : toTarget'[i] = toTarget[i]
      /\ UNCHANGED <<speaker, peer>>
  BY PutProperties DEF Says, Base, heard
<1>2. n + 1 \in 1 .. Len(toTarget') /\ \A i \in 1 .. n : n + 1 \in i + 1 .. Len(toTarget')
  BY <1>1
<1>3. m.type \in {"joined", "input", "gone", "rotated"} BY DEF Messages
<1>4. ASSUME \A i \in 1 .. Len(toTarget') : toTarget'[i].type = "input"
      PROVE  speaker' \in {NoController, controller'}
  <2>1. m.type = "input" BY <1>1, <1>2, <1>4
  <2>2. \A i \in 1 .. n : i \in 1 .. Len(toTarget') BY <1>1
  <2>. QED BY <1>1, <1>4, <2>1, <2>2 DEF GhostInv, Says
<1>5. ASSUME NEW i \in 1 .. Len(toTarget'), toTarget'[i].type = "joined",
             \A j \in i + 1 .. Len(toTarget') : toTarget'[j].type = "input"
      PROVE  toTarget'[i].from = controller'
  <2>1. CASE i = n + 1 BY <1>1, <1>5, <2>1 DEF Says
  <2>2. CASE i # n + 1
    <3>1. i \in 1 .. n BY <1>1, <2>2
    <3>2. m.type = "input" BY <1>1, <1>2, <1>5, <3>1
    <3>3. \A j \in i + 1 .. n : j \in 1 .. n /\ j \in i + 1 .. Len(toTarget')
      BY <1>1, <3>1
    <3>. QED BY <1>1, <1>5, <3>1, <3>2, <3>3 DEF GhostInv, Says
  <2>. QED BY <2>1, <2>2
<1>. QED BY <1>4, <1>5 DEF GhostInv

LEMMA GhostReads ==
    ASSUME Base, GhostInv, Reads
    PROVE  GhostInv'
<1>. SUFFICES ASSUME peer = "live" PROVE GhostInv' BY DEF Reads, GhostInv
<1>. DEFINE n == Len(toTarget')
<1>1. /\ Len(toTarget) = n + 1 /\ n \in Nat /\ Head(toTarget) = toTarget[1]
      /\ \A i \in 1 .. n : toTarget'[i] = toTarget[i + 1]
  BY TakeProperties DEF Base, Reads
<1>2. \A j \in 2 .. Len(toTarget) : j - 1 \in 1 .. n /\ toTarget'[j - 1] = toTarget[j]
  BY <1>1
<1>3. ASSUME \A i \in 1 .. n : toTarget'[i].type = "input"
      PROVE  speaker' \in {NoController, controller'}
  <2>1. 1 \in 1 .. Len(toTarget) /\ \A i \in 1 .. Len(toTarget) : i = 1 \/ i \in 2 .. Len(toTarget)
    BY <1>1
  <2>2. \A j \in 1 + 1 .. Len(toTarget) : toTarget[j].type = "input" BY <1>2, <1>3
  <2>3. CASE toTarget[1].type = "input"
    <3>1. \A j \in 1 .. Len(toTarget) : toTarget[j].type = "input"
      BY <2>1, <2>2, <2>3
    <3>. QED BY <1>1, <2>3, <3>1 DEF GhostInv, Reads
  <2>4. CASE toTarget[1].type = "joined"
    BY <1>1, <2>1, <2>2, <2>4 DEF GhostInv, Reads
  <2>5. CASE toTarget[1].type \notin {"input", "joined"} BY <1>1, <2>5 DEF Reads
  <2>. QED BY <2>3, <2>4, <2>5
<1>4. ASSUME NEW i \in 1 .. n, toTarget'[i].type = "joined",
             \A j \in i + 1 .. n : toTarget'[j].type = "input"
      PROVE  toTarget'[i].from = controller'
  <2>1. i + 1 \in 1 .. Len(toTarget) /\ toTarget'[i] = toTarget[i + 1] BY <1>1
  <2>2. \A j \in (i + 1) + 1 .. Len(toTarget) :
            j \in 2 .. Len(toTarget) /\ j - 1 \in i + 1 .. n
    BY <1>1
  <2>. QED BY <1>2, <1>4, <2>1, <2>2 DEF GhostInv, Reads
<1>. QED BY <1>3, <1>4 DEF GhostInv, Reads

LEMMA GhostSteps == Base /\ Base' /\ GhostInv /\ Hears => GhostInv'
<1>. SUFFICES ASSUME Base, Base', GhostInv, Hears PROVE GhostInv' OBVIOUS
<1>1. CASE Quietly
  <2>1. ASSUME NEW i \in 1 .. Len(toTarget), toTarget[i].type = "joined"
        PROVE  toTarget[i].from # NoController
    <3>1. toTarget[i] \in Messages BY HeadIsFirst DEF Base
    <3>. QED BY <2>1, <3>1, PairingAssumption DEF Messages, PairingAssumption
  <2>. QED BY <1>1, <2>1 DEF Quietly, heard, GhostInv
<1>2. CASE Afresh
  <2>1. Len(toTarget') = 0 BY <1>2, EmptySeq DEF Afresh
  <2>. QED BY <1>2, <2>1 DEF Afresh, GhostInv
<1>. QED BY <1>1, <1>2, GhostReads, GhostSays DEF Hears

\* Relay.detach: a target that still takes a controller that has left for its own has the
\* news in its queue, or its connection is broken.
THEOREM NeverGhost == Spec => []NoGhost
<1>. DEFINE IInv == Base /\ GhostInv
<1>1. Init => IInv BY BaseStarts DEF Init, GhostInv
<1>2. IInv /\ [Next]_vars => IInv' BY BaseSteps, EveryStepHears, GhostSteps
<1>3. IInv => NoGhost
  <2>1. \A i \in 1 .. Len(toTarget) : Base => i \in DOMAIN toTarget
    BY LenProperties DEF Base, Typed
  <2>. QED BY <2>1 DEF GhostInv, NoGhost
<1>. QED BY <1>1, <1>2, <1>3, PTL DEF Spec

===============================================================================
