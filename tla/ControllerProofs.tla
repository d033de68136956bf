--------------------------- MODULE ControllerProofs ---------------------------
(***************************************************************************)
(* Who is in control: proofs about the controller and a target that keeps  *)
(* the promises of ControlSession, for any number of activations, hotkeys  *)
(* and messages under way, and every interleaving of the two threads.      *)
(***************************************************************************)
EXTENDS Controller, SequenceTheorems, TLAPS

Epochs == 0 .. MaxEpoch
Requests ==
    [type : {"ACTIVATE"}, epoch : 1 .. MaxEpoch]
        \cup [type : {"RESET", "HEARTBEAT", "INPUT"}, epoch : Epochs]
Notices ==
    [type : {"activated", "paused"}, epoch : 1 .. MaxEpoch]
        \cup [type : {"challenge"}, epoch : {0}]

Callbacks == {"activate", "reset"}

\* The type invariant, with the types of the channels.
Typed ==
    /\ CaptureType
    /\ connected \in BOOLEAN /\ lease \in BOOLEAN
    /\ {epoch, pendingEpoch, loaded, targetEpoch, targetNewest, epochs} \subseteq Epochs
    /\ targetOffers \subseteq 1 .. MaxEpoch
    /\ queue \in Seq(Epochs) /\ Len(queue) <= MaxQueue
    /\ callbacks \in Seq(Callbacks)
    /\ loop \in {"run", "load", "take", "taken", "capture", "closing"} \cup Stops
    /\ hook \in {"idle", "toggle", "apply"} \cup Stops
    /\ locked \in BOOLEAN /\ nested \in BOOLEAN
    /\ toTarget \in Seq(Requests) /\ toController \in Seq(Notices)

-------------------------------------------------------------------------------
\* Sequences.

LEMMA ContainsAppend ==
    ASSUME NEW S, NEW s \in Seq(S), NEW e \in S, NEW x
    PROVE  Contains(Append(s, e), x) <=> Contains(s, x) \/ x = e
<1>. DEFINE t == Append(s, e)
<1>1. /\ Len(t) = Len(s) + 1 /\ Len(s) \in Nat
      /\ \A i \in 1 .. Len(s) : t[i] = s[i]
      /\ t[Len(s) + 1] = e
  BY AppendProperties, LenProperties
<1>. QED BY <1>1 DEF Contains

LEMMA ContainsConcat ==
    ASSUME NEW S, NEW s \in Seq(S), NEW t \in Seq(S), NEW x
    PROVE  Contains(s \o t, x) <=> Contains(s, x) \/ Contains(t, x)
<1>1. /\ Len(s) \in Nat /\ Len(t) \in Nat /\ Len(s \o t) = Len(s) + Len(t)
      /\ \A i \in 1 .. Len(s) : (s \o t)[i] = s[i]
      /\ \A i \in 1 .. Len(t) : (s \o t)[i + Len(s)] = t[i]
  BY ConcatProperties, LenProperties
<1>2. ASSUME Contains(s \o t, x) PROVE Contains(s, x) \/ Contains(t, x)
  <2>1. PICK i \in 1 .. Len(s) + Len(t) : (s \o t)[i] = x BY <1>1, <1>2 DEF Contains
  <2>2. CASE i <= Len(s) BY <1>1, <2>1, <2>2 DEF Contains
  <2>3. CASE i > Len(s)
    <3>1. i - Len(s) \in 1 .. Len(t) /\ i = (i - Len(s)) + Len(s) BY <1>1, <2>3
    <3>. QED BY <1>1, <2>1, <3>1 DEF Contains
  <2>. QED BY <1>1, <2>2, <2>3
<1>3. ASSUME Contains(s, x) PROVE Contains(s \o t, x) BY <1>1, <1>3 DEF Contains
<1>4. ASSUME Contains(t, x) PROVE Contains(s \o t, x)
  <2>1. PICK i \in 1 .. Len(t) : t[i] = x BY <1>4 DEF Contains
  <2>2. (s \o t)[i + Len(s)] = x BY <1>1, <2>1
  <2>3. i + Len(s) \in 1 .. Len(s \o t) BY <1>1, <2>1
  <2>. QED BY <2>2, <2>3 DEF Contains
<1>. QED BY <1>2, <1>3, <1>4

LEMMA ContainsTail ==
    ASSUME NEW S, NEW s \in Seq(S), s # <<>>, NEW x, Contains(s, x), x # Head(s)
    PROVE  Contains(Tail(s), x)
<1>1. /\ Len(s) \in Nat /\ Len(Tail(s)) = Len(s) - 1 /\ Head(s) = s[1]
      /\ \A i \in 1 .. Len(Tail(s)) : Tail(s)[i] = s[i + 1]
  BY HeadTailProperties, LenProperties
<1>2. PICK i \in 1 .. Len(s) : s[i] = x BY DEF Contains
<1>3. i # 1 BY <1>1, <1>2
<1>4. i - 1 \in 1 .. Len(Tail(s)) /\ (i - 1) + 1 = i BY <1>1, <1>3
<1>. QED BY <1>1, <1>2, <1>4 DEF Contains

LEMMA Literals ==
    /\ \A e \in 1 .. MaxEpoch, type \in {"activated", "paused"} :
          Message(type, e) \in Notices
    /\ Message("challenge", 0) \in Notices
    /\ \A e \in 1 .. MaxEpoch : Message("ACTIVATE", e) \in Requests
    /\ \A e \in Epochs, type \in {"RESET", "HEARTBEAT", "INPUT"} :
          Message(type, e) \in Requests
BY DEF Message, Notices, Requests

LEMMA PausedByType ==
    ASSUME NEW e \in Epochs
    PROVE  PausedBy(e) \in Seq(Notices)
BY ControllerAssumption, Literals DEF ControllerAssumption, PausedBy, Epochs

-------------------------------------------------------------------------------
\* Types.

LEMMA StopLineType ==
    ASSUME Typed, NEW at, NEW next, StopLine(at, next)
    PROVE  /\ CaptureType' /\ {epoch, pendingEpoch}' \subseteq Epochs
           /\ queue' \in Seq(Epochs) /\ Len(queue') <= MaxQueue
           /\ callbacks' \in Seq(Callbacks)
           /\ next \in Stops \cup {"done"}
<1>. USE DEF Typed, shared, captureVars
<1>1. CASE StopCapture /\ next = "stop_epoch"
  BY <1>1 DEF StopCapture, Deactivate, CaptureType, Stops
<1>2. CASE StopEpoch /\ next = "stop_pending"
  BY <1>2, ControllerAssumption
     DEF ControllerAssumption, StopEpoch, Epochs, CaptureType, Stops
<1>3. CASE StopPending /\ next = "stop_queue"
  BY <1>3, ControllerAssumption
     DEF ControllerAssumption, StopPending, Epochs, CaptureType, Stops
<1>4. CASE StopQueue /\ next = "stop_schedule"
  BY <1>4, ControllerAssumption
     DEF ControllerAssumption, StopQueue, CaptureType, Stops
<1>5. CASE StopSchedule /\ next = "done"
  BY <1>5, AppendProperties DEF StopSchedule, CaptureType, Callbacks
<1>. QED BY <1>1, <1>2, <1>3, <1>4, <1>5 DEF StopLine

LEMMA HookKeepsType == Typed /\ Hook => Typed'
<1>. SUFFICES ASSUME Typed, Hook PROVE Typed' OBVIOUS
<1>. USE DEF Typed, captureVars, shared, target, network, history, EnterCallback,
             KeepLoop
<1>1. CASE HotkeyToggle BY <1>1 DEF HotkeyToggle, CaptureType, Stops
<1>2. CASE ReadPending
  <2>1. callbacks' \in Seq(Callbacks)
    BY <1>2, AppendProperties DEF ReadPending, Callbacks
  <2>2. hook' \in {"idle", "apply", "stop_capture"} /\ locked' \in BOOLEAN
    BY <1>2 DEF ReadPending
  <2>. QED BY <1>2, <2>1, <2>2 DEF ReadPending, CaptureType, Stops
<1>3. CASE HotkeyStop BY <1>3 DEF HotkeyStop, CaptureType, Stops
<1>4. CASE CaptureInput
  <2>1. queue' \in Seq(Epochs) /\ Len(queue') <= MaxQueue
    <3>1. CASE queue' = Append(queue, epoch) /\ HasRoom
      <4>1. /\ Append(queue, epoch) \in Seq(Epochs)
            /\ Len(Append(queue, epoch)) = Len(queue) + 1 /\ Len(queue) \in Nat
        BY AppendProperties, LenProperties
      <4>. QED BY <3>1, <4>1, ControllerAssumption DEF ControllerAssumption, HasRoom
    <3>2. CASE queue' = <<>>
      BY <3>2, ControllerAssumption DEF ControllerAssumption
    <3>. QED BY <1>4, <3>1, <3>2 DEF CaptureInput
  <2>2. hook' \in {"idle", "stop_capture"} /\ locked' \in BOOLEAN /\ nested' \in BOOLEAN
    BY <1>4 DEF CaptureInput
  <2>. QED BY <1>4, <2>1, <2>2 DEF CaptureInput, CaptureType, Stops
<1>5. CASE Watchdog BY <1>5 DEF Watchdog, CaptureType, Stops
<1>6. CASE HookStops
  <2>1. PICK next : /\ StopLine(hook, next)
                    /\ hook' = Back(next, IF nested THEN "apply" ELSE "idle")
                    /\ locked' = IF next = "done" THEN nested ELSE locked
                    /\ UNCHANGED <<nested, history>> /\ KeepLoop
    BY <1>6 DEF HookStops
  <2>2. hook' \in {"idle", "apply"} \cup Stops /\ locked' \in BOOLEAN
    BY <2>1, StopLineType DEF Back, Stops
  <2>. QED BY <2>1, <2>2, StopLineType
<1>7. CASE Apply
  BY <1>7 DEF Apply, ApplyPause, ApplyNothing, BeginActivation, CaptureType
<1>8. CASE EndApply
  BY <1>8 DEF EndApply, EndActivation, ActivationRaises, CaptureType, Stops
<1>. QED BY <1>1, <1>2, <1>3, <1>4, <1>5, <1>6, <1>7, <1>8 DEF Hook

LEMMA SendType ==
    ASSUME Typed, NEW m \in Requests, toTarget' = Append(toTarget, m)
    PROVE  toTarget' \in Seq(Requests)
BY AppendProperties DEF Typed

LEMMA TailType ==
    ASSUME NEW S, NEW s \in Seq(S), s # <<>>
    PROVE  Tail(s) \in Seq(S) /\ Head(s) \in S
BY HeadTailProperties

LEMMA CallbackKeepsType == Typed /\ RunCallback => Typed'
<1>. SUFFICES ASSUME Typed, RunCallback PROVE Typed' OBVIOUS
<1>. USE DEF Typed, captureVars, shared, target, KeepHook, Send
<1>1. callbacks' \in Seq(Callbacks) BY TailType DEF RunCallback
<1>2. CASE Activate
  <2>1. epochs + 1 \in 1 .. MaxEpoch \/ UNCHANGED <<epochs, pendingEpoch, queue, toTarget>>
    BY <1>2, ControllerAssumption DEF ControllerAssumption, Activate, Epochs
  <2>2. toTarget' \in Seq(Requests) BY <1>2, <2>1, Literals, SendType DEF Activate
  <2>3. {epochs', pendingEpoch'} \subseteq Epochs BY <1>2, <2>1 DEF Activate, Epochs
  <2>4. queue' \in Seq(Epochs) /\ Len(queue') <= MaxQueue
    <3>1. queue' = <<>> \/ queue' = queue BY <1>2 DEF Activate
    <3>2. <<>> \in Seq(Epochs) /\ Len(<<>>) <= MaxQueue
      BY EmptySeq, ControllerAssumption DEF ControllerAssumption
    <3>. QED BY <3>1, <3>2
  <2>. QED BY <1>1, <1>2, <2>2, <2>3, <2>4 DEF RunCallback, Activate, CaptureType
<1>3. CASE SendReset
  <2>1. toTarget' \in Seq(Requests)
    BY <1>3, Literals, SendType, ControllerAssumption
       DEF ControllerAssumption, SendReset, Epochs
  <2>. QED BY <1>1, <1>3, <2>1 DEF RunCallback, SendReset, CaptureType
<1>. QED BY <1>2, <1>3 DEF RunCallback

LEMMA ReceiveKeepsType ==
    Typed /\ (ReceiveChallenge \/ ReceiveActivated \/ ReceivePaused) => Typed'
<1>. SUFFICES ASSUME Typed, ReceiveChallenge \/ ReceiveActivated \/ ReceivePaused
              PROVE  Typed'
  OBVIOUS
<1>. USE DEF Typed, captureVars, shared, target, KeepHook, Send, Receive
<1>1. toController' \in Seq(Notices)
  BY TailType DEF ReceiveChallenge, ReceiveActivated, ReceivePaused
<1>2. 0 \in Epochs BY ControllerAssumption DEF ControllerAssumption, Epochs
<1>3. toTarget' \in Seq(Requests)
  BY <1>2, Literals, SendType DEF ReceiveChallenge, ReceiveActivated, ReceivePaused
<1>4. CASE ReceiveChallenge BY <1>1, <1>3, <1>4 DEF ReceiveChallenge, CaptureType
<1>5. CASE ReceiveActivated BY <1>1, <1>3, <1>5 DEF ReceiveActivated, CaptureType
<1>6. CASE ReceivePaused
  <2>1. loop' \in {"run", "stop_capture"} BY <1>6 DEF ReceivePaused
  <2>. QED BY <1>1, <1>3, <1>6, <2>1 DEF ReceivePaused, CaptureType, Stops
<1>. QED BY <1>4, <1>5, <1>6

LEMMA LoopKeepsType == Typed /\ Loop => Typed'
<1>. SUFFICES ASSUME Typed, Loop PROVE Typed' OBVIOUS
<1>. USE DEF Typed, captureVars, shared, target, network, KeepHook, Send
<1>0. 0 \in Epochs BY ControllerAssumption DEF ControllerAssumption, Epochs
<1>1. CASE TakeEpoch BY <1>0, <1>1 DEF TakeEpoch, CaptureType
<1>2. CASE ActivateCapture
  BY <1>2 DEF ActivateCapture, RequestActivation, RequestRefused, CaptureType
<1>3. CASE SendInput
  <2>1. queue' \in Seq(Epochs) /\ Len(queue') <= MaxQueue
    <3>1. Tail(queue) \in Seq(Epochs) /\ Len(Tail(queue)) = Len(queue) - 1
      BY <1>3, HeadTailProperties DEF SendInput
    <3>2. Len(queue) \in Nat BY LenProperties
    <3>. QED
      BY <1>3, <3>1, <3>2, ControllerAssumption DEF ControllerAssumption, SendInput
  <2>2. toTarget' \in Seq(Requests) BY <1>3, Literals, SendType DEF SendInput
  <2>. QED BY <1>3, <2>1, <2>2 DEF SendInput, CaptureType
<1>4. CASE StopControl BY <1>4 DEF StopControl, CaptureType, Stops
<1>5. CASE LoopStops
  <2>1. PICK next : /\ StopLine(loop, next) /\ loop' = Back(next, "run")
                    /\ UNCHANGED <<connected, lease, loaded, network, epochs>>
                    /\ KeepHook
    BY <1>5 DEF LoopStops
  <2>2. loop' \in {"run"} \cup Stops BY <2>1, StopLineType DEF Back, Stops
  <2>. QED BY <2>1, <2>2, StopLineType
<1>6. CASE Connect
  <2>1. toController' \in Seq(Notices)
    BY <1>6, PausedByType, ConcatProperties DEF Connect
  <2>2. targetOffers' \subseteq targetOffers /\ targetNewest' = targetNewest
    BY <1>6 DEF Connect, Target!Recede
  <2>. QED BY <1>0, <1>6, <2>1, <2>2 DEF Connect, CaptureType
<1>7. CASE Disconnect
  <2>1. Underway \subseteq 1 .. MaxEpoch
    BY LenProperties DEF Underway, ToSet, Requests
  <2>2. targetOffers' \subseteq 1 .. MaxEpoch BY <1>7, <2>1 DEF Disconnect
  <2>3. toController' \in Seq(Notices)
    <3>1. PausedBy(targetEpoch) \in Seq(Notices) BY PausedByType
    <3>2. toController' = <<>> \/ toController' = PausedBy(targetEpoch)
      BY <1>7 DEF Disconnect
    <3>. QED BY <3>1, <3>2, EmptySeq
  <2>4. CaptureType' BY <1>7 DEF Disconnect, Deactivate, CaptureType
  <2>5. queue' \in Seq(Epochs) /\ Len(queue') <= MaxQueue /\ toTarget' \in Seq(Requests)
    BY <1>7, ControllerAssumption DEF ControllerAssumption, Disconnect
  <2>. QED BY <1>0, <1>7, <2>2, <2>3, <2>4, <2>5 DEF Disconnect
<1>. QED
  BY <1>1, <1>2, <1>3, <1>4, <1>5, <1>6, <1>7, CallbackKeepsType, ReceiveKeepsType
     DEF Loop

\* The target's messages name no other session than `e'.
Announces(messages, e) ==
    /\ messages \in Seq(Notices)
    /\ \A i \in 1 .. Len(messages) :
           messages[i].type = "activated" => messages[i].epoch = e

\* What a step of the target means for the controller: the target says `messages', and
\* what it says is what it does.
Answers(messages) ==
    /\ toController' = IF connected THEN toController \o messages ELSE toController
    /\ Announces(messages, targetEpoch')
    /\ targetEpoch' # targetEpoch /\ targetEpoch # 0
           => Contains(messages, Message("paused", targetEpoch))
    /\ targetEpoch' # targetEpoch /\ targetEpoch' # 0
           => Contains(messages, Message("activated", targetEpoch'))

LEMMA OneMore ==
    ASSUME NEW e, NEW messages, Announces(messages, e),
           NEW m \in Notices, m.type = "activated" => m.epoch = e
    PROVE  /\ Announces(Append(messages, m), e)
           /\ \A x : Contains(messages, x) => Contains(Append(messages, m), x)
           /\ Contains(Append(messages, m), m)
<1>. DEFINE extended == Append(messages, m)
<1>1. messages \in Seq(Notices) BY DEF Announces
<1>2. /\ extended \in Seq(Notices)
      /\ Len(extended) = Len(messages) + 1 /\ Len(messages) \in Nat
      /\ \A i \in 1 .. Len(messages) : extended[i] = messages[i]
      /\ extended[Len(messages) + 1] = m
  BY <1>1, AppendProperties, LenProperties
<1>3. ASSUME NEW i \in 1 .. Len(extended), extended[i].type = "activated"
      PROVE  extended[i].epoch = e
  <2>1. i \in 1 .. Len(messages) \/ i = Len(messages) + 1 BY <1>2
  <2>. QED BY <1>2, <1>3, <2>1 DEF Announces
<1>. QED BY <1>1, <1>2, <1>3, ContainsAppend DEF Announces

LEMMA PausedByAnnounces ==
    ASSUME NEW old \in Epochs, NEW e
    PROVE  /\ Announces(PausedBy(old), e) /\ Announces(<<>>, e)
           /\ old # 0 => Contains(PausedBy(old), Message("paused", old))
<1>1. PausedBy(old) \in Seq(Notices) /\ <<>> \in Seq(Notices)
  BY PausedByType, EmptySeq
<1>2. PausedBy(old) = <<>> \/ PausedBy(old) = <<Message("paused", old)>>
  BY DEF PausedBy
<1>3. \A i \in 1 .. Len(PausedBy(old)) : PausedBy(old)[i].type # "activated"
  BY <1>2 DEF Message
<1>4. Contains(<<Message("paused", old)>>, Message("paused", old)) BY DEF Contains
<1>. QED BY <1>1, <1>3, <1>4 DEF Announces, PausedBy

LEMMA SilentAnswers ==
    ASSUME Typed, UNCHANGED <<toController, targetEpoch>>
    PROVE  Answers(<<>>)
BY PausedByAnnounces, ConcatEmptySeq, ControllerAssumption
   DEF ControllerAssumption, Typed, Epochs, Answers

LEMMA PausedAnswers ==
    ASSUME Typed, targetEpoch' = 0, Tell(PausedBy(targetEpoch))
    PROVE  Answers(PausedBy(targetEpoch))
BY PausedByAnnounces DEF Typed, Answers, Tell

TargetSteps == TargetReceives \/ TargetDecides \/ TargetSpeaks \/ TargetPauses

LEMMA TargetAnswers ==
    ASSUME Typed, TargetSteps
    PROVE  \E messages : Answers(messages)
<1>. USE DEF Target!Recede
<1>0. targetEpoch \in Epochs BY DEF Typed
<1>1. CASE TargetReceives
  <2>. DEFINE m == Head(toTarget)
  <2>1. CASE m.type = "ACTIVATE"
    BY <1>1, <2>1, SilentAnswers DEF TargetReceives, Target!Offer
  <2>2. CASE m.type = "RESET"
    BY <1>1, <2>2, PausedAnswers DEF TargetReceives
  <2>3. CASE m.type \notin {"ACTIVATE", "RESET"}
    BY <1>1, <2>3, SilentAnswers DEF TargetReceives, target
  <2>. QED BY <2>1, <2>2, <2>3
<1>2. CASE TargetDecides
  <2>1. PICK e \in targetOffers :
        \/ /\ Target!Begin(e)
           /\ Tell(Append(PausedBy(targetEpoch), Message("activated", e)))
        \/ /\ Target!Recede
           /\ Tell((IF targetEpoch' = 0 THEN PausedBy(targetEpoch) ELSE <<>>)
                    \o <<Message("paused", e)>>)
        \/ UNCHANGED <<targetEpoch, toController>>
    BY <1>2 DEF TargetDecides
  <2>2. /\ Message("activated", e) \in Notices /\ Message("paused", e) \in Notices
        /\ Message("activated", e).epoch = e /\ Message("paused", e).type = "paused"
    BY Literals DEF Typed, Message
  <2>3. CASE Target!Begin(e) /\ Tell(Append(PausedBy(targetEpoch), Message("activated", e)))
    <3>. DEFINE before == PausedBy(targetEpoch)
    <3>1. targetEpoch' = e BY <2>3 DEF Target!Begin
    <3>2. /\ Announces(before, e)
          /\ targetEpoch # 0 => Contains(before, Message("paused", targetEpoch))
      BY <1>0, PausedByAnnounces
    <3>3. /\ Announces(Append(before, Message("activated", e)), e)
          /\ \A x : Contains(before, x) => Contains(Append(before, Message("activated", e)), x)
          /\ Contains(Append(before, Message("activated", e)), Message("activated", e))
      BY <2>2, <3>2, OneMore
    <3>4. Answers(Append(before, Message("activated", e)))
      BY <2>3, <3>1, <3>2, <3>3 DEF Answers, Tell
    <3>. QED BY <3>4
  <2>4. CASE Target!Recede /\ Tell((IF targetEpoch' = 0 THEN PausedBy(targetEpoch) ELSE <<>>)
                                   \o <<Message("paused", e)>>)
    <3>. DEFINE before == IF targetEpoch' = 0 THEN PausedBy(targetEpoch) ELSE <<>>
    <3>1. Announces(before, targetEpoch') BY <1>0, PausedByAnnounces
    <3>2. targetEpoch' # targetEpoch /\ targetEpoch # 0
              => Contains(before, Message("paused", targetEpoch))
      BY <1>0, <2>4, PausedByAnnounces
    <3>3. before \o <<Message("paused", e)>> = Append(before, Message("paused", e))
      BY <2>2, <3>1, AppendIsConcat DEF Announces
    <3>4. targetEpoch' # targetEpoch => targetEpoch' = 0 BY <2>4
    <3>. QED BY <2>2, <2>4, <3>1, <3>2, <3>3, <3>4, OneMore DEF Answers, Tell
  <2>. QED BY <2>1, <2>3, <2>4, SilentAnswers
<1>3. CASE TargetSpeaks
  <2>1. targetEpoch' = targetEpoch /\ Tell(<<Message("challenge", 0)>>)
    BY <1>3 DEF TargetSpeaks, target
  <2>2. Message("challenge", 0) \in Notices /\ Message("challenge", 0).type = "challenge"
    BY Literals DEF Message
  <2>3. <<Message("challenge", 0)>> = Append(<<>>, Message("challenge", 0)) OBVIOUS
  <2>. QED BY <1>0, <2>1, <2>2, <2>3, PausedByAnnounces, OneMore DEF Answers, Tell
<1>4. CASE TargetPauses BY <1>4, PausedAnswers DEF TargetPauses
<1>. QED BY <1>1, <1>2, <1>3, <1>4 DEF TargetSteps

LEMMA TargetKeepsType == Typed /\ TargetSteps => Typed'
<1>. SUFFICES ASSUME Typed, TargetSteps PROVE Typed' OBVIOUS
<1>. USE DEF Typed, KeepController, captureVars, shared, threads, history
<1>0. 0 \in Epochs /\ 1 .. MaxEpoch \subseteq Epochs
  BY ControllerAssumption DEF ControllerAssumption, Epochs
<1>1. PICK messages : Answers(messages) BY TargetAnswers
<1>2. toController' \in Seq(Notices)
  BY <1>1, ConcatProperties DEF Answers, Announces
<1>3. toTarget' \in Seq(Requests)
  BY TailType
     DEF TargetSteps, TargetReceives, TargetDecides, TargetSpeaks, TargetPauses
<1>4. /\ {targetEpoch', targetNewest'} \subseteq Epochs
      /\ targetOffers' \subseteq 1 .. MaxEpoch
  <2>1. CASE TargetReceives
    <3>1. Head(toTarget) \in Requests BY <2>1, TailType DEF TargetReceives
    <3>2. Head(toTarget).type = "ACTIVATE" => Head(toTarget).epoch \in 1 .. MaxEpoch
      BY <3>1 DEF Requests
    <3>. QED
      BY <1>0, <2>1, <3>2 DEF TargetReceives, Target!Offer, Target!Recede, target
  <2>2. CASE TargetDecides
    BY <1>0, <2>2 DEF TargetDecides, Target!Begin, Target!Recede
  <2>3. CASE TargetSpeaks BY <2>3 DEF TargetSpeaks, target
  <2>4. CASE TargetPauses BY <1>0, <2>4 DEF TargetPauses, Target!Recede
  <2>. QED BY <2>1, <2>2, <2>3, <2>4 DEF TargetSteps
<1>. QED
  BY <1>2, <1>3, <1>4
     DEF TargetSteps, TargetReceives, TargetDecides, TargetSpeaks, TargetPauses, CaptureType

LEMMA TypedStarts == Init => Typed
<1>. SUFFICES ASSUME Init PROVE Typed OBVIOUS
<1>1. 0 \in Epochs BY ControllerAssumption DEF ControllerAssumption, Epochs
<1>2. queue \in Seq(Epochs) /\ Len(queue) <= MaxQueue
  BY EmptySeq, ControllerAssumption DEF ControllerAssumption, Init
<1>3. callbacks \in Seq(Callbacks) /\ toTarget \in Seq(Requests) /\ toController \in Seq(Notices)
  BY EmptySeq DEF Init
<1>4. CaptureType BY DEF Init, CaptureInit, CaptureType
<1>5. targetEpoch = 0 /\ targetNewest = 0 /\ targetOffers = {}
  BY DEF Init, Target!Init
<1>. QED BY <1>1, <1>2, <1>3, <1>4, <1>5 DEF Init, Typed

LEMMA TypedSteps == Typed /\ [Next]_vars => Typed'
<1>1. Typed /\ UNCHANGED vars => Typed'
  BY DEF Typed, CaptureType, vars, captureVars, shared, threads, network, target,
         history
<1>. QED
  BY <1>1, HookKeepsType, LoopKeepsType, TargetKeepsType DEF Next, TargetSteps

\* Controller, on both threads: the queue keeps its limit, and every epoch that is
\* stored, sent or answered is one of an activation.
THEOREM ControllerTypeCorrect == Spec => []TypeOK
<1>1. Typed => TypeOK
  <2>1. Typed => \A i \in DOMAIN callbacks : callbacks[i] \in Callbacks
    BY LenProperties DEF Typed
  <2>2. 1 .. MaxEpoch \subseteq Epochs
    BY ControllerAssumption DEF ControllerAssumption, Epochs
  <2>3. Typed => {epoch, pendingEpoch, loaded, targetEpoch, targetNewest, epochs}
                     \cup targetOffers \subseteq Epochs
    BY <2>2 DEF Typed
  <2>. QED BY <2>1, <2>3 DEF Typed, TypeOK, Callbacks, Epochs
<1>. QED BY <1>1, TypedStarts, TypedSteps, PTL DEF Spec

-------------------------------------------------------------------------------
\* Suppression and the cursor.

\* Everything that a step does to the capture.
CaptureSteps ==
    \/ Deactivate \/ RequestActivation \/ RequestRefused
    \/ ApplyPause \/ ApplyNothing \/ BeginActivation \/ EndActivation \/ ActivationRaises

LEMMA CaptureChanges ==
    ASSUME [Next]_vars
    PROVE  CaptureSteps \/ UNCHANGED captureVars
<1>1. CASE UNCHANGED vars BY <1>1 DEF vars
<1>2. CASE Hook
  <2>1. \A next : StopLine(hook, next) => Deactivate \/ UNCHANGED captureVars
    BY DEF StopLine, StopCapture, StopEpoch, StopPending, StopQueue, StopSchedule
  <2>. QED
    BY <1>2, <2>1
       DEF Hook, HotkeyToggle, ReadPending, HotkeyStop, CaptureInput, Watchdog, HookStops,
           Apply, EndApply, CaptureSteps
<1>3. CASE Loop
  <2>1. \A next : StopLine(loop, next) => Deactivate \/ UNCHANGED captureVars
    BY DEF StopLine, StopCapture, StopEpoch, StopPending, StopQueue, StopSchedule
  <2>. QED
    BY <1>3, <2>1
       DEF Loop, RunCallback, ReceiveChallenge, ReceiveActivated, ReceivePaused, TakeEpoch,
           ActivateCapture, SendInput, StopControl, LoopStops, Connect, Disconnect,
           CaptureSteps
<1>4. CASE TargetSteps
  BY <1>4
     DEF TargetSteps, TargetReceives, TargetDecides, TargetSpeaks, TargetPauses,
         KeepController
<1>. QED BY <1>1, <1>2, <1>3, <1>4 DEF Next, TargetSteps

LEMMA SuppressionSteps == CaptureType /\ SuppressesOnRequest /\ [Next]_vars
                              => CaptureType' /\ SuppressesOnRequest'
<1>. SUFFICES ASSUME CaptureType, SuppressesOnRequest, [Next]_vars
              PROVE  CaptureType' /\ SuppressesOnRequest'
  OBVIOUS
<1>. USE DEF CaptureType, SuppressesOnRequest
<1>1. CASE UNCHANGED captureVars BY <1>1 DEF captureVars
<1>2. CASE Deactivate BY <1>2 DEF Deactivate
<1>3. CASE RequestActivation BY <1>3 DEF RequestActivation
<1>4. CASE RequestRefused BY <1>4 DEF RequestRefused
<1>5. CASE ApplyPause BY <1>5 DEF ApplyPause
<1>6. CASE ApplyNothing BY <1>6 DEF ApplyNothing
<1>7. CASE BeginActivation BY <1>7 DEF BeginActivation
<1>8. CASE EndActivation BY <1>8 DEF EndActivation
<1>9. CASE ActivationRaises BY <1>9 DEF ActivationRaises
<1>. QED
  BY <1>1, <1>2, <1>3, <1>4, <1>5, <1>6, <1>7, <1>8, <1>9, CaptureChanges
     DEF CaptureSteps

\* WindowsCapture.set_active and _apply_state: whatever callback cancels an activation
\* during its native calls, input is suppressed on the newest request only.
THEOREM SuppressesOnNewestRequest == Spec => []SuppressesOnRequest
<1>1. Init => CaptureType /\ SuppressesOnRequest
  BY DEF Init, CaptureInit, CaptureType, SuppressesOnRequest
<1>. QED BY <1>1, SuppressionSteps, PTL DEF Spec

\* The cursor while a stop has not begun, and the callbacks that leave none behind.
CursorInv ==
    /\ hook = "idle" => ~nested
    /\ anchored /\ ~active /\ hook \notin {"apply", "stop_capture"} /\ ~nested
           => posted \/ unposted

LEMMA CursorHookSteps == CaptureType /\ CursorInv /\ Hook => CursorInv'
<1>. SUFFICES ASSUME CaptureType, CursorInv, Hook PROVE CursorInv' OBVIOUS
<1>. USE DEF CaptureType, CursorInv, captureVars
<1>1. CASE HotkeyToggle BY <1>1 DEF HotkeyToggle, Interruptible, EnterCallback
<1>2. CASE ReadPending BY <1>2 DEF ReadPending
<1>3. CASE HotkeyStop BY <1>3 DEF HotkeyStop, Interruptible, EnterCallback
<1>4. CASE CaptureInput BY <1>4 DEF CaptureInput, EnterCallback
<1>5. CASE Watchdog BY <1>5 DEF Watchdog
<1>6. CASE HookStops
  <2>1. PICK next : /\ StopLine(hook, next) /\ UNCHANGED nested
                    /\ hook' = Back(next, IF nested THEN "apply" ELSE "idle")
                    /\ hook # "apply" /\ next \notin {"stop_capture", "idle"}
    BY <1>6 DEF HookStops, StopLine
  <2>2. CASE StopCapture
    BY <2>1, <2>2 DEF StopCapture, Deactivate, StopLine, Back
  <2>3. CASE hook # "stop_capture" /\ UNCHANGED captureVars
    BY <2>1, <2>3 DEF Back
  <2>. QED
    BY <2>1, <2>2, <2>3
       DEF StopLine, StopEpoch, StopPending, StopQueue, StopSchedule
<1>7. CASE Apply BY <1>7 DEF Apply, ApplyPause, ApplyNothing, BeginActivation
<1>8. CASE EndApply BY <1>8 DEF EndApply, EndActivation, ActivationRaises
<1>. QED BY <1>1, <1>2, <1>3, <1>4, <1>5, <1>6, <1>7, <1>8 DEF Hook

LEMMA CursorLoopSteps == CaptureType /\ CursorInv /\ Loop => CursorInv'
<1>. SUFFICES ASSUME CaptureType, CursorInv, Loop PROVE CursorInv' OBVIOUS
<1>. USE DEF CaptureType, CursorInv, captureVars
<1>1. UNCHANGED <<hook, nested>>
  BY DEF Loop, RunCallback, ReceiveChallenge, ReceiveActivated, ReceivePaused,
         TakeEpoch,
         ActivateCapture, SendInput, StopControl, LoopStops, Connect, Disconnect, KeepHook
<1>2. \/ Deactivate \/ RequestActivation \/ RequestRefused \/ UNCHANGED captureVars
  BY DEF Loop, RunCallback, ReceiveChallenge, ReceiveActivated, ReceivePaused,
         TakeEpoch,
         ActivateCapture, SendInput, StopControl, LoopStops, Connect, Disconnect,
         StopLine, StopCapture, StopEpoch, StopPending, StopQueue, StopSchedule
<1>. QED BY <1>1, <1>2 DEF Deactivate, RequestActivation, RequestRefused

\* WindowsCapture: a cursor that is away while input is the user's will be brought
\* back, however a pause, a stop and an interrupted activation interleave.
THEOREM CursorAlwaysFollows == Spec => []CursorFollows
<1>. DEFINE CInv == CaptureType /\ SuppressesOnRequest /\ CursorInv
<1>1. Init => CInv
  BY DEF Init, CaptureInit, CaptureType, SuppressesOnRequest, CursorInv
<1>2. CInv /\ [Next]_vars => CInv'
  <2>1. CursorInv /\ (UNCHANGED vars \/ TargetSteps) => CursorInv'
    BY DEF CursorInv, vars, captureVars, threads, TargetSteps, TargetReceives,
           TargetDecides, TargetSpeaks, TargetPauses, KeepController
  <2>. QED
    BY <2>1, SuppressionSteps, CursorHookSteps, CursorLoopSteps
       DEF Next, TargetSteps
<1>3. CInv => CursorFollows BY DEF CursorInv, CursorFollows, Stops
<1>. QED BY <1>1, <1>2, <1>3, PTL DEF Spec

-------------------------------------------------------------------------------
\* The handling of "activated", line by line against a stop of the hook thread.

LoopInv ==
    /\ loop \notin {"take", "taken"} => loaded = 0
    /\ loop \in {"take", "taken"} => pendingEpoch \in {0, loaded}
    /\ loop \in {"load", "take", "taken"} => connected
    /\ loop \in {"load", "take"} => epoch = 0
    /\ loop # "taken" => epoch = 0 \/ pendingEpoch = 0
    /\ ~connected => loop = "run" /\ epoch = 0 /\ pendingEpoch = 0

\* A stop is under way, or has asked for a RESET to be sent.
ResetDue == Contains(callbacks, "reset") \/ hook \in Stops \/ loop \in Stops

\* What a step of the hook thread means for the loop: an epoch goes only in a stop, and
\* a stop ends with a reset scheduled.
LEMMA HookEffect ==
    ASSUME Typed, Hook
    PROVE  /\ KeepLoop
           /\ epoch' \in {0, epoch} /\ pendingEpoch' \in {0, pendingEpoch}
           /\ epoch' # epoch \/ pendingEpoch' # pendingEpoch => ResetDue'
           /\ ResetDue => ResetDue'
<1>. USE DEF shared, ResetDue
<1>0. KeepLoop
  BY DEF Hook, HotkeyToggle, ReadPending, HotkeyStop, CaptureInput, Watchdog,
         HookStops,
         Apply, EndApply
<1>1. CASE HotkeyToggle \/ HotkeyStop \/ CaptureInput \/ Watchdog \/ Apply \/ EndApply
  BY <1>1
     DEF HotkeyToggle, HotkeyStop, Interruptible, CaptureInput, Watchdog, Apply, EndApply,
         KeepLoop, Stops
<1>2. CASE ReadPending
  <2>1. \A x : Contains(callbacks, x) => Contains(Append(callbacks, "activate"), x)
    BY ContainsAppend DEF Typed, Callbacks
  <2>. QED BY <1>2, <2>1 DEF ReadPending, KeepLoop, Stops
<1>3. CASE HookStops
  <2>1. PICK next : StopLine(hook, next) /\ KeepLoop
                    /\ hook' = Back(next, IF nested THEN "apply" ELSE "idle")
    BY <1>3 DEF HookStops
  <2>2. CASE next = "done"
    <3>1. callbacks' = Append(callbacks, "reset") /\ UNCHANGED shared
      BY <2>1, <2>2 DEF StopLine, StopSchedule
    <3>2. Contains(callbacks', "reset") BY <3>1, ContainsAppend DEF Typed, Callbacks
    <3>. QED BY <2>1, <3>1, <3>2
  <2>3. CASE next # "done"
    <3>1. hook' \in Stops BY <2>1, <2>3 DEF StopLine, Back, Stops
    <3>. QED
      BY <2>1, <2>3, <3>1
         DEF StopLine, StopCapture, StopEpoch, StopPending, StopQueue, KeepLoop
  <2>. QED BY <2>2, <2>3
<1>. QED BY <1>0, <1>1, <1>2, <1>3 DEF Hook

\* ... and the same of a stop on the loop.
LEMMA StopEffect ==
    ASSUME Typed, LoopStops
    PROVE  /\ UNCHANGED <<connected, loaded, network, hook>>
           /\ loop \in Stops /\ loop' \in Stops \cup {"run"}
           /\ epoch' \in {0, epoch} /\ pendingEpoch' \in {0, pendingEpoch}
           /\ loop = "stop_epoch" => epoch' = 0
           /\ loop # "stop_epoch" => epoch' = epoch
           /\ loop = "stop_capture" => loop' = "stop_epoch"
           /\ ResetDue'
<1>. USE DEF shared, ResetDue
<1>1. PICK next : StopLine(loop, next) /\ loop' = Back(next, "run")
  BY DEF LoopStops
<1>2. UNCHANGED <<connected, loaded, network, hook>> BY DEF LoopStops, KeepHook
<1>3. CASE next = "done"
  <2>1. callbacks' = Append(callbacks, "reset") /\ UNCHANGED shared
        /\ loop = "stop_schedule" /\ loop' = "run"
    BY <1>1, <1>3 DEF StopLine, StopSchedule, Back
  <2>2. Contains(callbacks', "reset") BY <2>1, ContainsAppend DEF Typed, Callbacks
  <2>. QED BY <1>2, <2>1, <2>2 DEF Stops
<1>4. CASE next # "done"
  <2>1. loop \in Stops /\ loop' = next /\ next \in Stops
    BY <1>1, <1>4 DEF StopLine, Back, Stops
  <2>. QED
    BY <1>1, <1>2, <1>4, <2>1
       DEF StopLine, StopCapture, StopEpoch, StopPending, StopQueue
<1>. QED BY <1>3, <1>4

LEMMA LoopInvSteps == Typed /\ LoopInv /\ [Next]_vars => LoopInv'
<1>. SUFFICES ASSUME Typed, LoopInv, [Next]_vars PROVE LoopInv' OBVIOUS
<1>. USE DEF LoopInv, shared
<1>1. CASE UNCHANGED vars \/ TargetSteps
  BY <1>1
     DEF vars, threads, TargetSteps, TargetReceives, TargetDecides, TargetSpeaks,
         TargetPauses, KeepController
<1>2. CASE Hook BY <1>2, HookEffect DEF KeepLoop
<1>3. CASE RunCallback
  BY <1>3 DEF RunCallback, Activate, SendReset
<1>4. CASE ReceiveChallenge \/ ReceiveActivated \/ ReceivePaused
  BY <1>4 DEF ReceiveChallenge, ReceiveActivated, ReceivePaused, Receive
<1>5. CASE TakeEpoch BY <1>5 DEF TakeEpoch
<1>6. CASE ActivateCapture BY <1>6 DEF ActivateCapture
<1>7. CASE SendInput \/ StopControl BY <1>7 DEF SendInput, StopControl
<1>8. CASE LoopStops BY <1>8, StopEffect DEF Stops
<1>9. CASE Connect \/ Disconnect BY <1>9 DEF Connect, Disconnect
<1>. QED
  BY <1>1, <1>2, <1>3, <1>4, <1>5, <1>6, <1>7, <1>8, <1>9
     DEF Next, Loop, TargetSteps

-------------------------------------------------------------------------------
\* Nobody's control.

\* What the loop read before a stop cleared the pending epoch is written after it.
OrphanInv ==
    /\ NoOrphanControl
    /\ loop = "taken" => epoch = loaded \/ ResetDue

LEMMA OrphanHookSteps ==
    ASSUME Typed, LoopInv, OrphanInv, Hook
    PROVE  OrphanInv'
BY HookEffect DEF OrphanInv, NoOrphanControl, KeepLoop, network, target, ResetDue

LEMMA OrphanTargetSteps ==
    ASSUME Typed, LoopInv, OrphanInv, TargetSteps
    PROVE  OrphanInv'
<1>1. PICK messages : Answers(messages) BY TargetAnswers
<1>2. UNCHANGED <<connected, epoch, pendingEpoch, loaded, callbacks, hook, loop>>
  BY DEF TargetSteps, TargetReceives, TargetDecides, TargetSpeaks, TargetPauses,
         KeepController, threads, shared
<1>3. ASSUME targetEpoch' # 0, Contains(toTarget, Message("RESET", 0))
      PROVE  Contains(toTarget', Message("RESET", 0))
  <2>1. CASE TargetReceives
    <3>1. Head(toTarget) # Message("RESET", 0)
      BY <1>3, <2>1 DEF TargetReceives, Message
    <3>. QED BY <1>3, <2>1, <3>1, ContainsTail DEF TargetReceives, Typed
  <2>2. CASE UNCHANGED toTarget BY <1>3, <2>2
  <2>. QED BY <2>1, <2>2 DEF TargetSteps, TargetDecides, TargetSpeaks, TargetPauses
<1>4. ASSUME connected, NEW x, Contains(toController, x) \/ Contains(messages, x)
      PROVE  Contains(toController', x)
  BY <1>1, <1>4, ContainsConcat DEF Answers, Announces, Typed
<1>5. CASE targetEpoch' = targetEpoch
  BY <1>2, <1>3, <1>4, <1>5 DEF OrphanInv, NoOrphanControl, ResetDue
<1>6. CASE targetEpoch' # targetEpoch
  BY <1>1, <1>2, <1>4, <1>6 DEF Answers, OrphanInv, NoOrphanControl, ResetDue
<1>. QED BY <1>5, <1>6

LEMMA SendContains ==
    ASSUME Typed, NEW type, NEW e, Message(type, e) \in Requests, Send(type, e)
    PROVE  /\ Contains(toTarget', Message(type, e))
           /\ \A x : Contains(toTarget, x) => Contains(toTarget', x)
BY ContainsAppend DEF Typed, Send

LEMMA OrphanReceives ==
    ASSUME Typed, LoopInv, OrphanInv, ReceiveChallenge \/ ReceiveActivated \/ ReceivePaused
    PROVE  OrphanInv'
<1>. USE DEF OrphanInv, ResetDue, NoOrphanControl, Receive, KeepHook, shared, target
<1>. DEFINE answer == Message("activated", targetEpoch)
<1>0. /\ UNCHANGED <<connected, epoch, pendingEpoch, loaded, callbacks, hook, targetEpoch>>
      /\ loop = "run" /\ loop' # "taken"
  BY DEF ReceiveChallenge, ReceiveActivated, ReceivePaused
<1>1. /\ \A e \in Epochs, type \in {"RESET", "HEARTBEAT"} : Message(type, e) \in Requests
      /\ 0 \in Epochs /\ epoch \in Epochs /\ pendingEpoch \in Epochs
  BY Literals, ControllerAssumption DEF ControllerAssumption, Epochs, Typed
<1>2. Contains(toTarget, Message("RESET", 0)) => Contains(toTarget', Message("RESET", 0))
  BY <1>1, SendContains DEF ReceiveChallenge, ReceiveActivated, ReceivePaused
<1>3. ASSUME Contains(toController, answer), Head(toController) # answer
      PROVE  Contains(toController', answer)
  BY <1>3, ContainsTail
     DEF ReceiveChallenge, ReceiveActivated, ReceivePaused, Typed
<1>4. CASE ReceiveChallenge \/ ReceivePaused
  <2>1. Head(toController) # answer
    BY <1>4 DEF ReceiveChallenge, ReceivePaused, Message
  <2>. QED BY <1>0, <1>2, <1>3, <2>1 DEF Stops
<1>5. CASE ReceiveActivated /\ UNCHANGED toTarget
  <2>1. Head(toController) = answer => targetEpoch = pendingEpoch
    <3>1. Head(toController).epoch = pendingEpoch
      <4>1. ASSUME Send("RESET", 0), UNCHANGED toTarget PROVE FALSE
        <5>1. Len(toTarget') = Len(toTarget) + 1 /\ Len(toTarget) \in Nat
          BY <1>1, <4>1, AppendProperties, LenProperties DEF Send, Typed
        <5>. QED BY <4>1, <5>1
      <4>. QED BY <1>5, <4>1 DEF ReceiveActivated
    <3>. QED BY <3>1 DEF Message
  <2>. QED BY <1>0, <1>3, <1>5, <2>1 DEF Stops
<1>6. CASE ReceiveActivated /\ Send("RESET", 0)
  <2>1. Contains(toTarget', Message("RESET", 0)) BY <1>1, <1>6, SendContains
  <2>. QED BY <1>0, <2>1
<1>. QED BY <1>4, <1>5, <1>6 DEF ReceiveActivated

LEMMA OrphanLoopSteps ==
    ASSUME Typed, LoopInv, OrphanInv, Loop
    PROVE  OrphanInv'
<1>. USE DEF OrphanInv, LoopInv, ResetDue, NoOrphanControl, KeepHook, shared,
             target, network
<1>1. /\ \A e \in Epochs, type \in {"RESET", "INPUT"} : Message(type, e) \in Requests
      /\ 0 \in Epochs /\ epoch \in Epochs
  BY Literals, ControllerAssumption DEF ControllerAssumption, Epochs, Typed
<1>2. CASE RunCallback
  <2>0. /\ UNCHANGED <<connected, loaded, loop, hook, toController, targetEpoch>>
        /\ callbacks' = Tail(callbacks) /\ loop = "run" /\ callbacks # <<>>
    BY <1>2 DEF RunCallback
  <2>1. CASE Activate /\ Head(callbacks) = "activate"
    <3>1. Contains(callbacks, "reset") => Contains(callbacks', "reset")
      BY <2>0, <2>1, ContainsTail DEF Typed
    <3>2. Contains(toTarget, Message("RESET", 0)) => Contains(toTarget', Message("RESET", 0))
      <4>1. CASE UNCHANGED toTarget BY <4>1
      <4>2. CASE epochs < MaxEpoch /\ Send("ACTIVATE", epochs + 1)
        <5>1. epochs + 1 \in 1 .. MaxEpoch
          BY <4>2, ControllerAssumption DEF ControllerAssumption, Typed, Epochs
        <5>. QED BY <4>2, <5>1, Literals, SendContains
      <4>. QED BY <2>1, <4>1, <4>2 DEF Activate
    <3>. QED BY <2>0, <2>1, <3>1, <3>2 DEF Activate
  <2>2. CASE SendReset
    <3>1. connected => Contains(toTarget', Message("RESET", 0))
      BY <1>1, <2>2, SendContains DEF SendReset
    <3>. QED BY <2>0, <3>1
  <2>. QED BY <1>2, <2>1, <2>2 DEF RunCallback
<1>3. CASE ReceiveChallenge \/ ReceiveActivated \/ ReceivePaused
  BY <1>3, OrphanReceives
<1>4. CASE TakeEpoch BY <1>4 DEF TakeEpoch, Stops
<1>5. CASE ActivateCapture BY <1>5 DEF ActivateCapture, Stops
<1>6. CASE SendInput
  <2>1. Contains(toTarget, Message("RESET", 0)) => Contains(toTarget', Message("RESET", 0))
    BY <1>1, <1>6, SendContains DEF SendInput
  <2>. QED BY <1>6, <2>1 DEF SendInput
<1>7. CASE StopControl BY <1>7 DEF StopControl, Stops
<1>8. CASE LoopStops BY <1>8, StopEffect DEF Stops
<1>9. CASE Connect \/ Disconnect BY <1>9 DEF Connect, Disconnect
<1>. QED BY <1>2, <1>3, <1>4, <1>5, <1>6, <1>7, <1>8, <1>9 DEF Loop

LEMMA LoopInvStarts == Init => LoopInv BY DEF Init, LoopInv

\* Controller and target: whatever the order of hotkeys, messages, timeouts and stops of
\* two threads, the target does not stay in control for a controller without its epoch.
THEOREM NeverOrphanControl == Spec => []NoOrphanControl
<1>. DEFINE IInv == Typed /\ LoopInv /\ OrphanInv
<1>1. Init => IInv
  BY TypedStarts, LoopInvStarts DEF Init, Target!Init, OrphanInv, NoOrphanControl
<1>2. IInv /\ [Next]_vars => IInv'
  <2>1. OrphanInv /\ UNCHANGED vars => OrphanInv'
    BY DEF OrphanInv, NoOrphanControl, ResetDue, vars, shared, threads, network,
           target
  <2>. QED
    BY <2>1, TypedSteps, LoopInvSteps, OrphanHookSteps, OrphanLoopSteps,
       OrphanTargetSteps
       DEF Next, TargetSteps
<1>3. IInv => NoOrphanControl BY DEF OrphanInv
<1>. QED BY <1>1, <1>2, <1>3, PTL DEF Spec

-------------------------------------------------------------------------------
\* Control of nothing.

\* The target is in this epoch, or has told the controller that it is over.
Told(e) == targetEpoch = e \/ Contains(toController, Message("paused", e))

\* The end of a session follows the notice of its begin.
AnswersInv ==
    \A i \in 1 .. Len(toController) : toController[i].type = "activated" =>
        /\ connected
        /\ \/ targetEpoch = toController[i].epoch
           \/ \E j \in i + 1 .. Len(toController) :
                  toController[j] = Message("paused", toController[i].epoch)

DeadInv ==
    /\ epoch # 0 => Told(epoch) \/ loop \in {"stop_capture", "stop_epoch"}
    /\ loop \in {"load", "take", "taken"}
           => \A e \in {pendingEpoch, loaded} \ {0} : Told(e)

\* A message that is taken leaves the order of the others.
LEMMA AnswersTail ==
    ASSUME Typed, AnswersInv, toController # <<>>, toController' = Tail(toController),
           UNCHANGED <<connected, targetEpoch>>
    PROVE  /\ AnswersInv'
           /\ \A e : Head(toController).type = "activated" /\ Head(toController).epoch = e
                    => Told(e)'
<1>1. /\ Len(toController) \in Nat \ {0} /\ Len(toController') = Len(toController) - 1
      /\ Head(toController) = toController[1]
      /\ \A i \in 1 .. Len(toController') : toController'[i] = toController[i + 1]
  BY HeadTailProperties, LenProperties, EmptySeq DEF Typed
<1>2. ASSUME NEW i \in 1 .. Len(toController), NEW j \in i + 1 .. Len(toController)
      PROVE  /\ j - 1 \in 1 .. Len(toController') /\ j - 1 \in (i - 1) + 1 .. Len(toController')
             /\ toController'[j - 1] = toController[j]
  BY <1>1
<1>3. AnswersInv'
  <2>. SUFFICES ASSUME NEW i \in 1 .. Len(toController'), toController'[i].type = "activated"
                PROVE  /\ connected
                       /\ \/ targetEpoch = toController'[i].epoch
                          \/ \E j \in i + 1 .. Len(toController') :
                                toController'[j] = Message("paused", toController'[i].epoch)
    BY DEF AnswersInv
  <2>1. i + 1 \in 1 .. Len(toController) /\ toController'[i] = toController[i + 1]
        /\ (i + 1) - 1 = i
    BY <1>1
  <2>2. CASE targetEpoch = toController[i + 1].epoch BY <2>1, <2>2 DEF AnswersInv
  <2>3. CASE targetEpoch # toController[i + 1].epoch
    <3>1. PICK j \in (i + 1) + 1 .. Len(toController) :
                  toController[j] = Message("paused", toController[i + 1].epoch)
      BY <2>1, <2>3 DEF AnswersInv
    <3>. QED BY <1>2, <2>1, <3>1 DEF AnswersInv
  <2>. QED BY <2>2, <2>3
<1>4. ASSUME Head(toController).type = "activated", targetEpoch # Head(toController).epoch
      PROVE  Contains(toController', Message("paused", Head(toController).epoch))
  <2>1. PICK j \in 1 + 1 .. Len(toController) :
                toController[j] = Message("paused", toController[1].epoch)
    BY <1>1, <1>4 DEF AnswersInv
  <2>2. j - 1 \in 1 .. Len(toController') /\ toController'[j - 1] = toController[j]
    BY <1>1, <1>2, <2>1
  <2>. QED BY <1>1, <2>1, <2>2 DEF Contains
<1>. QED BY <1>3, <1>4 DEF Told

\* What the target does, it tells.
LEMMA AnswersTarget ==
    ASSUME Typed, LoopInv, AnswersInv, NEW messages, Answers(messages), UNCHANGED connected
    PROVE  /\ AnswersInv'
           /\ \A e \in Epochs \ {0} : connected /\ Told(e) => Told(e)'
<1>1. CASE ~connected
  BY <1>1 DEF Answers, AnswersInv
<1>2. CASE connected
  <2>1. messages \in Seq(Notices) /\ toController' = toController \o messages
    BY <1>2 DEF Answers, Announces
  <2>2. /\ Len(toController) \in Nat /\ Len(messages) \in Nat
        /\ Len(toController') = Len(toController) + Len(messages)
        /\ \A i \in 1 .. Len(toController) : toController'[i] = toController[i]
        /\ \A i \in 1 .. Len(messages) : toController'[i + Len(toController)] = messages[i]
    BY <2>1, ConcatProperties, LenProperties DEF Typed
  <2>3. ASSUME NEW e \in Epochs \ {0}, targetEpoch = e, targetEpoch' # e
        PROVE  \E j \in Len(toController) + 1 .. Len(toController') :
                   toController'[j] = Message("paused", e)
    <3>1. PICK k \in 1 .. Len(messages) : messages[k] = Message("paused", e)
      BY <2>3 DEF Answers, Contains
    <3>2. k + Len(toController) \in Len(toController) + 1 .. Len(toController')
          /\ toController'[k + Len(toController)] = Message("paused", e)
      BY <2>2, <3>1
    <3>. QED BY <3>2
  <2>4. ASSUME NEW e \in Epochs \ {0}, Told(e) PROVE Told(e)'
    <3>1. Contains(toController, Message("paused", e))
              => Contains(toController', Message("paused", e))
      BY <2>1, ContainsConcat DEF Typed
    <3>2. targetEpoch = e /\ targetEpoch' # e => Contains(toController', Message("paused", e))
      BY <2>2, <2>3 DEF Contains
    <3>. QED BY <2>4, <3>1, <3>2 DEF Told
  <2>5. AnswersInv'
    <3>. SUFFICES ASSUME NEW i \in 1 .. Len(toController'),
                         toController'[i].type = "activated",
                         targetEpoch' # toController'[i].epoch
                  PROVE  \E j \in i + 1 .. Len(toController') :
                             toController'[j] = Message("paused", toController'[i].epoch)
      BY <1>2 DEF AnswersInv
    <3>1. CASE i > Len(toController)
      <4>1. i - Len(toController) \in 1 .. Len(messages)
            /\ (i - Len(toController)) + Len(toController) = i
        BY <2>2, <3>1
      <4>. QED BY <2>2, <4>1 DEF Answers, Announces
    <3>2. CASE i <= Len(toController)
      <4>. DEFINE e == toController[i].epoch
      <4>1. i \in 1 .. Len(toController) /\ toController'[i] = toController[i]
        BY <2>2, <3>2
      <4>2. e \in Epochs \ {0}
        <5>1. toController[i] \in Notices BY <4>1 DEF Typed
        <5>. QED BY <4>1, <5>1, ControllerAssumption
                 DEF Notices, Epochs, ControllerAssumption
      <4>3. CASE targetEpoch = e
        <5>1. PICK j \in Len(toController) + 1 .. Len(toController') :
                      toController'[j] = Message("paused", e)
          BY <2>3, <4>1, <4>2, <4>3
        <5>2. j \in i + 1 .. Len(toController') BY <2>2, <4>1, <5>1
        <5>. QED BY <4>1, <5>1, <5>2
      <4>4. CASE targetEpoch # e
        <5>1. PICK j \in i + 1 .. Len(toController) : toController[j] = Message("paused", e)
          BY <4>1, <4>4 DEF AnswersInv
        <5>2. j \in i + 1 .. Len(toController') /\ toController'[j] = toController[j]
          BY <2>2, <4>1, <5>1
        <5>. QED BY <4>1, <5>1, <5>2
      <4>. QED BY <4>3, <4>4
    <3>. QED BY <2>2, <3>1, <3>2
  <2>. QED BY <2>4, <2>5
<1>. QED BY <1>1, <1>2

LEMMA DeadReceives ==
    ASSUME Typed, LoopInv, AnswersInv, DeadInv,
           ReceiveChallenge \/ ReceiveActivated \/ ReceivePaused
    PROVE  AnswersInv' /\ DeadInv'
<1>. USE DEF Receive, KeepHook, shared, target
<1>1. /\ UNCHANGED <<connected, epoch, pendingEpoch, loaded, targetEpoch>>
      /\ loop = "run" /\ loop' \in {"run", "load", "stop_capture"}
      /\ toController # <<>> /\ toController' = Tail(toController)
  BY DEF ReceiveChallenge, ReceiveActivated, ReceivePaused
<1>2. /\ AnswersInv'
      /\ \A e : Head(toController).type = "activated" /\ Head(toController).epoch = e
               => Told(e)'
  BY <1>1, AnswersTail
<1>3. ASSUME NEW e, Told(e), Head(toController) # Message("paused", e) PROVE Told(e)'
  BY <1>1, <1>3, ContainsTail DEF Told, Typed
<1>4. CASE ReceiveChallenge
  <2>1. \A e : Head(toController) # Message("paused", e)
    BY <1>4 DEF ReceiveChallenge, Message
  <2>. QED BY <1>1, <1>2, <1>3, <1>4, <2>1 DEF DeadInv, ReceiveChallenge
<1>5. CASE ReceiveActivated
  <2>1. \A e : Head(toController) # Message("paused", e)
    BY <1>5 DEF ReceiveActivated, Message
  <2>2. loop' = "load" => Told(pendingEpoch)'
    BY <1>1, <1>2, <1>5 DEF ReceiveActivated
  <2>3. loop' \in {"run", "load"} /\ loaded = 0
    BY <1>1, <1>5 DEF ReceiveActivated, LoopInv
  <2>. QED BY <1>1, <1>2, <1>3, <2>1, <2>2, <2>3 DEF DeadInv
<1>6. CASE ReceivePaused
  <2>1. loop' # "stop_capture" => Head(toController) # Message("paused", epoch)
    BY <1>6 DEF ReceivePaused, Message
  <2>2. loop' \in {"run", "stop_capture"} BY <1>6 DEF ReceivePaused
  <2>. QED BY <1>1, <1>2, <1>3, <2>1, <2>2 DEF DeadInv
<1>. QED BY <1>4, <1>5, <1>6

\* Steps that leave the target and what it said as they are.
LEMMA DeadSilent ==
    ASSUME DeadInv, AnswersInv, UNCHANGED <<connected, toController, targetEpoch>>
    PROVE  AnswersInv' /\ \A e : Told(e) <=> Told(e)'
BY DEF AnswersInv, Told

LEMMA DeadLoopSteps ==
    ASSUME Typed, LoopInv, AnswersInv, DeadInv, Loop
    PROVE  AnswersInv' /\ DeadInv'
<1>. USE DEF KeepHook, shared, target, network, LoopInv
<1>1. CASE RunCallback
  <2>1. UNCHANGED <<connected, toController, targetEpoch, epoch, loop>> /\ loop = "run"
    BY <1>1 DEF RunCallback, Activate, SendReset
  <2>. QED BY <2>1, DeadSilent DEF DeadInv
<1>2. CASE ReceiveChallenge \/ ReceiveActivated \/ ReceivePaused
  BY <1>2, DeadReceives
<1>3. CASE TakeEpoch BY <1>3, DeadSilent DEF DeadInv, TakeEpoch
<1>4. CASE ActivateCapture BY <1>4, DeadSilent DEF DeadInv, ActivateCapture
<1>5. CASE SendInput BY <1>5, DeadSilent DEF DeadInv, SendInput
<1>6. CASE StopControl BY <1>6, DeadSilent DEF DeadInv, StopControl
<1>7. CASE LoopStops
  <2>1. loop' \notin {"load", "take", "taken"} BY <1>7, StopEffect DEF Stops
  <2>. QED BY <1>7, <2>1, StopEffect, DeadSilent DEF DeadInv
<1>8. CASE Connect
  <2>1. /\ ~connected /\ toController' = toController \o PausedBy(targetEpoch)
        /\ UNCHANGED <<epoch, loop>>
    BY <1>8 DEF Connect
  <2>2. \A i \in 1 .. Len(toController) : toController[i].type # "activated"
    BY <2>1 DEF AnswersInv
  <2>3. targetEpoch \in Epochs /\ PausedBy(targetEpoch) \in Seq(Notices)
    BY PausedByType DEF Typed
  <2>4. \A i \in 1 .. Len(PausedBy(targetEpoch)) :
            PausedBy(targetEpoch)[i].type # "activated"
    BY DEF PausedBy, Message
  <2>5. ASSUME NEW i \in 1 .. Len(toController') PROVE toController'[i].type # "activated"
    <3>1. /\ Len(toController) \in Nat /\ Len(PausedBy(targetEpoch)) \in Nat
          /\ Len(toController') = Len(toController) + Len(PausedBy(targetEpoch))
          /\ \A k \in 1 .. Len(toController) : toController'[k] = toController[k]
          /\ \A k \in 1 .. Len(PausedBy(targetEpoch)) :
                 toController'[k + Len(toController)] = PausedBy(targetEpoch)[k]
      BY <2>1, <2>3, ConcatProperties, LenProperties DEF Typed
    <3>2. CASE i <= Len(toController) BY <2>2, <3>1, <3>2
    <3>3. CASE i > Len(toController)
      <4>1. i - Len(toController) \in 1 .. Len(PausedBy(targetEpoch))
            /\ (i - Len(toController)) + Len(toController) = i
        BY <3>1, <3>3
      <4>. QED BY <2>4, <3>1, <4>1
    <3>. QED BY <3>1, <3>2, <3>3
  <2>. QED BY <2>1, <2>5 DEF AnswersInv, DeadInv
<1>9. CASE Disconnect
  <2>1. toController' \in {<<>>, PausedBy(targetEpoch)} /\ epoch' = 0 /\ loop' = "run"
    BY <1>9 DEF Disconnect
  <2>2. \A i \in 1 .. Len(toController') : toController'[i].type # "activated"
    BY <2>1 DEF PausedBy, Message
  <2>. QED BY <2>1, <2>2 DEF AnswersInv, DeadInv
<1>. QED BY <1>1, <1>2, <1>3, <1>4, <1>5, <1>6, <1>7, <1>8, <1>9 DEF Loop

LEMMA DeadHookSteps ==
    ASSUME Typed, LoopInv, AnswersInv, DeadInv, Hook
    PROVE  AnswersInv' /\ DeadInv'
<1>1. UNCHANGED <<connected, toController, targetEpoch, loop, loaded>>
      /\ epoch' \in {0, epoch} /\ pendingEpoch' \in {0, pendingEpoch}
  BY HookEffect DEF KeepLoop, network, target
<1>. QED BY <1>1, DeadSilent DEF DeadInv

LEMMA DeadTargetSteps ==
    ASSUME Typed, LoopInv, AnswersInv, DeadInv, TargetSteps
    PROVE  AnswersInv' /\ DeadInv'
<1>1. PICK messages : Answers(messages) BY TargetAnswers
<1>2. UNCHANGED <<connected, epoch, pendingEpoch, loaded, loop>>
  BY DEF TargetSteps, TargetReceives, TargetDecides, TargetSpeaks, TargetPauses,
         KeepController, threads, shared
<1>3. /\ AnswersInv'
      /\ \A e \in Epochs \ {0} : connected /\ Told(e) => Told(e)'
  BY <1>1, <1>2, AnswersTarget
<1>4. {epoch, pendingEpoch, loaded} \subseteq Epochs BY DEF Typed
<1>. QED BY <1>2, <1>3, <1>4 DEF DeadInv, LoopInv

\* Controller and target: an epoch of the controller is one that the target is in, or
\* the notice of its end, or a stop, is under way.
THEOREM NeverDeadControl == Spec => []NoDeadControl
<1>. DEFINE IInv == Typed /\ LoopInv /\ AnswersInv /\ DeadInv
<1>1. Init => IInv
  BY TypedStarts, LoopInvStarts DEF Init, AnswersInv, DeadInv
<1>2. IInv /\ [Next]_vars => IInv'
  <2>1. AnswersInv /\ DeadInv /\ UNCHANGED vars => AnswersInv' /\ DeadInv'
    BY DEF AnswersInv, DeadInv, Told, vars, shared, threads, network, target
  <2>. QED
    BY <2>1, TypedSteps, LoopInvSteps, DeadHookSteps, DeadLoopSteps, DeadTargetSteps
       DEF Next, TargetSteps
<1>3. IInv => NoDeadControl BY DEF DeadInv, Told, NoDeadControl, Stops
<1>. QED BY <1>1, <1>2, <1>3, PTL DEF Spec

===============================================================================
