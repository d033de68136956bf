-------------------------- MODULE CapturePolicyProofs --------------------------
(***************************************************************************)
(* Each press belongs to one computer, and so does its release: proofs     *)
(* about the capture policy for every keyboard and mouse.                  *)
(*                                                                         *)
(* None of the properties is inductive.  What makes them so is where a key *)
(* that one computer holds cannot be: in the sets that hide its release    *)
(* from that computer.                                                     *)
(***************************************************************************)
EXTENDS CapturePolicy, TLAPS

\* While controlling, the release of a key that the target holds, or soon will, is
\* neither swallowed nor ignored.
RemoteReleasable ==
    /\ active => (remote \cup pending) \cap (swallowed \cup ignored) = {}
    /\ active => pending \subseteq keys
    /\ remote \cap ignoredButtons = {}
    /\ ~active => remote = {}

\* The keys that the desktop may go on holding.
Exceptions == refused \cup slipped

\* The desktop holds no key while controlling, and before that none but those still to
\* be released; nor does it hold one whose release is swallowed.  All but the exceptions.
LocalReleasable ==
    /\ active => local \cap Keys \subseteq Exceptions
    /\ activation # "none" => local \cap Keys \subseteq releasing \cup Exceptions
    /\ ~active => local \cap swallowed \subseteq Exceptions

\* A key that the target got stays out of reach of the desktop by `forwarded' and then
\* by `swallowed'.
SentHidden ==
    /\ active => sent \subseteq forwarded \cup swallowed
    /\ ~active => sent \subseteq swallowed

\* A hotkey can only repeat in its chord when the chord began with it.
RepeatIsSwallowed ==
    last \in keys \cap {F9, F10} /\ keys \cap Ctrl # {} /\ keys \cap Alt # {}
        => last \in swallowed

IInv ==
    /\ TypeOK
    /\ RemoteHeldPhysically /\ RemoteReleasable
    /\ LocalKeysReleased /\ LocalReleasable /\ SentHidden
    /\ RepeatIsSwallowed

\* How a key event reaches the hooks: a press, a repeat, or a release.
Event(key, down) ==
    /\ key \in Keys /\ down \in BOOLEAN
    /\ down => key \notin keys \/ key = last
    /\ ~down => key \in keys

-------------------------------------------------------------------------------

LEMMA HotkeyKeeps ==
    ASSUME IInv, NEW key, NEW down, Event(key, down),
           Physical(key, down), Hotkey(key, down), NoteHistory
    PROVE  IInv'
<1>. USE DEF Event, IInv, mode, Hotkey, Physical, NoteHistory, Becomes, Deliver,
             Suppress, Pausing, Cancel, Chord
<1>1. TypeOK'
  <2>1. CASE active' = active BY <2>1 DEF TypeOK
  <2>2. CASE active' = FALSE BY <2>2 DEF TypeOK
  <2>. QED BY <2>1, <2>2
<1>2. RemoteHeldPhysically' BY DEF RemoteHeldPhysically
<1>3. RemoteReleasable'
  BY PolicyAssumption
     DEF PolicyAssumption, Keys, Reserved, TypeOK, RemoteHeldPhysically,
         RemoteReleasable, RepeatIsSwallowed
<1>4. LocalKeysReleased'
  BY DEF TypeOK, LocalKeysReleased, LocalReleasable, Exceptions
<1>5. LocalReleasable'
  BY PolicyAssumption
     DEF PolicyAssumption, TypeOK, LocalKeysReleased, LocalReleasable, Exceptions,
         RepeatIsSwallowed
<1>6. RepeatIsSwallowed'
  BY PolicyAssumption
     DEF PolicyAssumption, Keys, Reserved, TypeOK, RepeatIsSwallowed
<1>7. SentHidden' BY DEF TypeOK, SentHidden, Keys, Reserved
<1>. QED BY <1>1, <1>2, <1>3, <1>4, <1>5, <1>6, <1>7

\* Outside the chord nothing but its release takes a key out of `swallowed'.
LEMMA RepeatKept ==
    ASSUME IInv, NEW key, NEW down, Event(key, down), Physical(key, down),
           ~Chord(key, down),
           swallowed \ {key} \subseteq swallowed', down => swallowed \subseteq swallowed'
    PROVE  RepeatIsSwallowed'
BY PolicyAssumption
   DEF PolicyAssumption, Keys, Reserved, Event, Physical, Becomes, Chord, IInv, TypeOK,
       RepeatIsSwallowed

LEMMA SwallowKeeps ==
    ASSUME IInv, NEW key, NEW down, Event(key, down),
           Physical(key, down), Swallow(key, down), NoteHistory
    PROVE  IInv'
<1>. USE DEF Event, IInv, mode, Swallow, Physical, NoteHistory, Becomes, Deliver,
             Suppress, Chord
<1>1. TypeOK' BY DEF TypeOK
<1>2. RemoteHeldPhysically' BY DEF RemoteHeldPhysically, RemoteReleasable
<1>3. RemoteReleasable' BY DEF TypeOK, RemoteHeldPhysically, RemoteReleasable
<1>4. LocalKeysReleased'
  BY DEF TypeOK, LocalKeysReleased, LocalReleasable, Exceptions
<1>5. LocalReleasable'
  BY PolicyAssumption
     DEF PolicyAssumption, TypeOK, LocalKeysReleased, LocalReleasable, Exceptions
<1>6. RepeatIsSwallowed' BY RepeatKept
<1>7. SentHidden' BY DEF TypeOK, SentHidden, Keys, Reserved
<1>. QED BY <1>1, <1>2, <1>3, <1>4, <1>5, <1>6, <1>7

LEMMA IgnoreKeeps ==
    ASSUME IInv, NEW key, NEW down, Event(key, down),
           Physical(key, down), Ignore(key, down), NoteHistory
    PROVE  IInv'
<1>. USE DEF Event, IInv, mode, Ignore, Physical, NoteHistory, Becomes, Deliver,
             Suppress, Chord, PassOn
<1>1. TypeOK' BY DEF TypeOK
<1>2. RemoteHeldPhysically' BY DEF RemoteHeldPhysically, RemoteReleasable
<1>3. RemoteReleasable' BY DEF TypeOK, RemoteHeldPhysically, RemoteReleasable
<1>4. LocalKeysReleased'
  BY DEF TypeOK, LocalKeysReleased, LocalReleasable, Exceptions
<1>5. LocalReleasable'
  BY PolicyAssumption
     DEF PolicyAssumption, TypeOK, LocalKeysReleased, LocalReleasable, Exceptions
<1>6. RepeatIsSwallowed' BY RepeatKept
<1>7. SentHidden' BY DEF TypeOK, SentHidden, Keys, Reserved
<1>. QED BY <1>1, <1>2, <1>3, <1>4, <1>5, <1>6, <1>7

LEMMA LocalKeeps ==
    ASSUME IInv, NEW key, NEW down, Event(key, down),
           Physical(key, down), Local(key, down), NoteHistory
    PROVE  IInv'
<1>. USE DEF Event, IInv, mode, Local, Physical, NoteHistory, Becomes, Deliver, Suppress,
             Chord, Free, PassOn, policy
<1>1. TypeOK' BY DEF TypeOK
<1>2. RemoteHeldPhysically' BY DEF RemoteHeldPhysically, RemoteReleasable
<1>3. RemoteReleasable' BY DEF TypeOK, RemoteHeldPhysically, RemoteReleasable
<1>4. LocalKeysReleased'
  BY DEF TypeOK, LocalKeysReleased, LocalReleasable, Exceptions
<1>5. LocalReleasable'
  BY PolicyAssumption
     DEF PolicyAssumption, TypeOK, LocalKeysReleased, LocalReleasable, Exceptions
<1>6. RepeatIsSwallowed' BY RepeatKept
<1>7. SentHidden' BY DEF TypeOK, SentHidden, Keys, Reserved
<1>. QED BY <1>1, <1>2, <1>3, <1>4, <1>5, <1>6, <1>7

LEMMA DeferModifierKeeps ==
    ASSUME IInv, NEW key, NEW down, Event(key, down),
           Physical(key, down), DeferModifier(key, down), NoteHistory
    PROVE  IInv'
<1>. USE DEF Event, IInv, mode, DeferModifier, Physical, NoteHistory, Becomes, Deliver,
             Suppress, Chord, Free
<1>1. TypeOK' BY DEF TypeOK
<1>2. RemoteHeldPhysically' BY DEF RemoteHeldPhysically, RemoteReleasable
<1>3. RemoteReleasable' BY DEF TypeOK, RemoteHeldPhysically, RemoteReleasable
<1>4. LocalKeysReleased'
  BY DEF TypeOK, LocalKeysReleased, LocalReleasable, Exceptions
<1>5. LocalReleasable'
  BY PolicyAssumption
     DEF PolicyAssumption, TypeOK, LocalKeysReleased, LocalReleasable, Exceptions
<1>6. RepeatIsSwallowed' BY RepeatKept
<1>7. SentHidden' BY DEF TypeOK, SentHidden, Keys, Reserved
<1>. QED BY <1>1, <1>2, <1>3, <1>4, <1>5, <1>6, <1>7

LEMMA EndModifierKeeps ==
    ASSUME IInv, NEW key, NEW down, Event(key, down),
           Physical(key, down), EndModifier(key, down), NoteHistory
    PROVE  IInv'
<1>. USE DEF Event, IInv, mode, EndModifier, Physical, NoteHistory, Becomes, Deliver,
             Suppress, Chord, Free
<1>1. TypeOK' BY DEF TypeOK
<1>2. RemoteHeldPhysically' BY DEF RemoteHeldPhysically, RemoteReleasable
<1>3. RemoteReleasable' BY DEF TypeOK, RemoteHeldPhysically, RemoteReleasable
<1>4. LocalKeysReleased'
  BY DEF TypeOK, LocalKeysReleased, LocalReleasable, Exceptions
<1>5. LocalReleasable'
  BY PolicyAssumption
     DEF PolicyAssumption, TypeOK, LocalKeysReleased, LocalReleasable, Exceptions
<1>6. RepeatIsSwallowed' BY RepeatKept
<1>7. SentHidden' BY DEF TypeOK, SentHidden, Keys, Reserved
<1>. QED BY <1>1, <1>2, <1>3, <1>4, <1>5, <1>6, <1>7

LEMMA EndModifierOverloadKeeps ==
    ASSUME IInv, NEW key, NEW down, Event(key, down),
           Physical(key, down), EndModifierOverload(key, down), NoteHistory
    PROVE  IInv'
<1>. USE DEF Event, IInv, mode, EndModifierOverload, Physical, NoteHistory, Becomes,
             Deliver, Suppress, Pausing, Cancel, Chord, Free
<1>1. TypeOK' BY DEF TypeOK
<1>2. RemoteHeldPhysically' BY DEF RemoteHeldPhysically, RemoteReleasable
<1>3. RemoteReleasable' BY DEF TypeOK, RemoteHeldPhysically, RemoteReleasable
<1>4. LocalKeysReleased'
  BY DEF TypeOK, LocalKeysReleased, LocalReleasable, Exceptions
<1>5. LocalReleasable'
  BY PolicyAssumption
     DEF PolicyAssumption, TypeOK, LocalKeysReleased, LocalReleasable, Exceptions
<1>6. RepeatIsSwallowed' BY RepeatKept
<1>7. SentHidden' BY DEF TypeOK, SentHidden, Keys, Reserved
<1>. QED BY <1>1, <1>2, <1>3, <1>4, <1>5, <1>6, <1>7

LEMMA TapOverloadKeeps ==
    ASSUME IInv, NEW key, NEW down, Event(key, down),
           Physical(key, down), TapOverload(key, down), NoteHistory
    PROVE  IInv'
<1>. USE DEF Event, IInv, mode, TapOverload, Physical, NoteHistory, Becomes, Deliver,
             Suppress, Pausing, Cancel, Chord, Free, PauseKeys, PassOn
<1>1. TypeOK' BY DEF TypeOK
<1>2. RemoteHeldPhysically' BY DEF RemoteHeldPhysically, RemoteReleasable
<1>3. RemoteReleasable' BY DEF TypeOK, RemoteHeldPhysically, RemoteReleasable
<1>4. LocalKeysReleased'
  BY DEF TypeOK, LocalKeysReleased, LocalReleasable, Exceptions
<1>5. LocalReleasable'
  BY PolicyAssumption
     DEF PolicyAssumption, TypeOK, LocalKeysReleased, LocalReleasable, Exceptions
<1>6. RepeatIsSwallowed' BY RepeatKept
<1>7. SentHidden' BY DEF TypeOK, SentHidden, Keys, Reserved
<1>. QED BY <1>1, <1>2, <1>3, <1>4, <1>5, <1>6, <1>7

LEMMA SendKeyKeeps ==
    ASSUME IInv, NEW key, NEW down, Event(key, down),
           Physical(key, down), SendKey(key, down), NoteHistory
    PROVE  IInv'
<1>. USE DEF Event, IInv, mode, SendKey, Physical, NoteHistory, Becomes, Deliver,
             Suppress, Chord, Free
<1>1. TypeOK' BY DEF TypeOK, Keys, Reserved
<1>2. RemoteHeldPhysically' BY DEF RemoteHeldPhysically, RemoteReleasable
<1>3. RemoteReleasable'
  <2>1. remote' \subseteq remote \cup pending \cup {key} OBVIOUS
  <2>2. (pending \cup {key}) \cap ignoredButtons = {}
    BY PolicyAssumption DEF PolicyAssumption, TypeOK, Keys, Reserved
  <2>. QED BY <2>1, <2>2 DEF RemoteReleasable
<1>4. LocalKeysReleased'
  BY DEF TypeOK, LocalKeysReleased, LocalReleasable, Exceptions
<1>5. LocalReleasable'
  BY PolicyAssumption
     DEF PolicyAssumption, TypeOK, LocalKeysReleased, LocalReleasable, Exceptions
<1>6. RepeatIsSwallowed' BY RepeatKept
<1>7. SentHidden' BY DEF TypeOK, SentHidden, Keys, Reserved
<1>. QED BY <1>1, <1>2, <1>3, <1>4, <1>5, <1>6, <1>7

LEMMA SendKeyOverloadKeeps ==
    ASSUME IInv, NEW key, NEW down, Event(key, down),
           Physical(key, down), SendKeyOverload(key, down), NoteHistory
    PROVE  IInv'
<1>. USE DEF Event, IInv, mode, SendKeyOverload, Physical, NoteHistory, Becomes, Deliver,
             Suppress, Pausing, Cancel, Chord, Free, PauseKeys
<1>1. TypeOK' BY DEF TypeOK, Keys, Reserved
<1>2. RemoteHeldPhysically' BY DEF RemoteHeldPhysically, RemoteReleasable
<1>3. RemoteReleasable' BY DEF TypeOK, RemoteHeldPhysically, RemoteReleasable
<1>4. LocalKeysReleased'
  BY DEF TypeOK, LocalKeysReleased, LocalReleasable, Exceptions
<1>5. LocalReleasable'
  BY PolicyAssumption
     DEF PolicyAssumption, TypeOK, LocalKeysReleased, LocalReleasable, Exceptions,
         Keys, Reserved
<1>6. RepeatIsSwallowed' BY RepeatKept
<1>7. SentHidden' BY DEF TypeOK, SentHidden, Keys, Reserved
<1>. QED BY <1>1, <1>2, <1>3, <1>4, <1>5, <1>6, <1>7

LEMMA KeyEvents ==
    ASSUME IInv, Press \/ Repeat \/ Release
    PROVE  \E key, down : Event(key, down) /\ Handle(key, down)
<1>1. CASE Press
  BY <1>1, PolicyAssumption DEF PolicyAssumption, Press, Event
<1>2. CASE Repeat
  BY <1>2 DEF Repeat, Event, IInv, TypeOK
<1>3. CASE Release
  BY <1>3 DEF Release, Event, IInv, TypeOK
<1>. QED BY <1>1, <1>2, <1>3

LEMMA HandleKeeps ==
    ASSUME IInv, NEW key, NEW down, Event(key, down), Handle(key, down) PROVE IInv'
BY HotkeyKeeps, SwallowKeeps, IgnoreKeeps, LocalKeeps, DeferModifierKeeps,
   EndModifierKeeps,
   EndModifierOverloadKeeps, TapOverloadKeeps, SendKeyKeeps, SendKeyOverloadKeeps
   DEF Handle

LEMMA PauseKeeps == IInv /\ Pause => IInv'
<1>. SUFFICES ASSUME IInv, Pause PROVE IInv' OBVIOUS
<1>. USE DEF IInv, mode, Pause, Pausing, Cancel, PauseKeys, NoteHistory
<1>1. TypeOK' BY DEF TypeOK
<1>2. RemoteHeldPhysically' /\ RemoteReleasable'
  BY DEF RemoteHeldPhysically, RemoteReleasable, TypeOK
<1>3. LocalKeysReleased' BY DEF TypeOK, LocalKeysReleased, Exceptions
<1>4. LocalReleasable'
  BY DEF TypeOK, LocalKeysReleased, LocalReleasable, Exceptions
<1>5. SentHidden' BY DEF TypeOK, SentHidden
<1>6. RepeatIsSwallowed' BY DEF RepeatIsSwallowed
<1>. QED BY <1>1, <1>2, <1>3, <1>4, <1>5, <1>6

LEMMA BeginActivationKeeps == IInv /\ BeginActivation => IInv'
<1>. SUFFICES ASSUME IInv, BeginActivation PROVE IInv' OBVIOUS
<1>. USE DEF IInv, policy, history, BeginActivation
<1>1. TypeOK' BY DEF TypeOK
<1>2. RemoteHeldPhysically' /\ RemoteReleasable'
  BY DEF RemoteHeldPhysically, RemoteReleasable, TypeOK
<1>3. LocalKeysReleased' BY DEF TypeOK, LocalKeysReleased, Exceptions
<1>4. LocalReleasable'
  BY DEF TypeOK, LocalKeysReleased, LocalReleasable, Exceptions
<1>5. SentHidden' BY DEF TypeOK, SentHidden
<1>6. RepeatIsSwallowed' BY DEF RepeatIsSwallowed
<1>. QED BY <1>1, <1>2, <1>3, <1>4, <1>5, <1>6

LEMMA ReleaseLocallyKeeps ==
    ASSUME IInv, NEW key \in releasing, ReleaseLocally(key) PROVE IInv'
<1>. USE DEF IInv, policy, mode, ReleaseLocally, NoteHistory
<1>1. TypeOK' BY DEF TypeOK
<1>2. RemoteHeldPhysically' /\ RemoteReleasable'
  BY DEF RemoteHeldPhysically, RemoteReleasable, TypeOK
<1>3. LocalKeysReleased' BY DEF TypeOK, LocalKeysReleased, Exceptions
<1>4. LocalReleasable'
  BY DEF TypeOK, LocalKeysReleased, LocalReleasable, Exceptions
<1>5. SentHidden' BY DEF TypeOK, SentHidden
<1>6. RepeatIsSwallowed' BY DEF RepeatIsSwallowed
<1>. QED BY <1>1, <1>2, <1>3, <1>4, <1>5, <1>6

LEMMA EndActivationKeeps == IInv /\ EndActivation => IInv'
<1>. SUFFICES ASSUME IInv, EndActivation PROVE IInv' OBVIOUS
<1>. USE DEF IInv, policy, EndActivation, NoteHistory
<1>1. TypeOK' BY DEF TypeOK
<1>2. RemoteHeldPhysically' /\ RemoteReleasable'
  BY DEF RemoteHeldPhysically, RemoteReleasable, TypeOK
<1>3. LocalKeysReleased' BY DEF TypeOK, LocalKeysReleased, Exceptions
<1>4. LocalReleasable'
  BY DEF TypeOK, LocalKeysReleased, LocalReleasable, Exceptions
<1>5. SentHidden' BY DEF TypeOK, SentHidden
<1>6. RepeatIsSwallowed' BY DEF RepeatIsSwallowed
<1>. QED BY <1>1, <1>2, <1>3, <1>4, <1>5, <1>6

LEMMA ActivationFailsKeeps == IInv /\ ActivationFails => IInv'
<1>. SUFFICES ASSUME IInv, ActivationFails PROVE IInv' OBVIOUS
<1>. USE DEF IInv, ActivationFails, PauseKeys, NoteHistory
<1>1. TypeOK' BY DEF TypeOK
<1>2. RemoteHeldPhysically' /\ RemoteReleasable'
  BY DEF RemoteHeldPhysically, RemoteReleasable, TypeOK
<1>3. LocalKeysReleased' BY DEF TypeOK, LocalKeysReleased, Exceptions
<1>4. LocalReleasable'
  BY DEF TypeOK, LocalKeysReleased, LocalReleasable, Exceptions
<1>5. SentHidden' BY DEF TypeOK, SentHidden
<1>6. RepeatIsSwallowed' BY DEF RepeatIsSwallowed
<1>. QED BY <1>1, <1>2, <1>3, <1>4, <1>5, <1>6

LEMMA MoveKeeps == IInv /\ Move => IInv'
<1>. SUFFICES ASSUME IInv, Move PROVE IInv' OBVIOUS
<1>. USE PolicyAssumption
         DEF PolicyAssumption, IInv, mode, Move, FlushForMouse, MouseOverload, Pausing,
             Cancel, PauseKeys, NoteHistory
<1>1. TypeOK' BY DEF TypeOK, Keys, Reserved
<1>2. RemoteHeldPhysically'
  BY DEF RemoteHeldPhysically, RemoteReleasable, TypeOK, Keys, Reserved
<1>3. RemoteReleasable'
  BY DEF RemoteHeldPhysically, RemoteReleasable, TypeOK, Keys, Reserved
<1>4. LocalKeysReleased'
  BY DEF TypeOK, LocalKeysReleased, Exceptions, Keys, Reserved
<1>5. LocalReleasable'
  BY DEF TypeOK, LocalKeysReleased, LocalReleasable, Exceptions, Keys, Reserved
<1>6. SentHidden' BY DEF TypeOK, SentHidden
<1>7. RepeatIsSwallowed' BY DEF RepeatIsSwallowed
<1>. QED BY <1>1, <1>2, <1>3, <1>4, <1>5, <1>6, <1>7

LEMMA ClickKeeps == ASSUME IInv, NEW button \in Buttons, Click(button) PROVE IInv'
<1>. USE PolicyAssumption
         DEF PolicyAssumption, IInv, mode, Click, FlushForMouse, MouseOverload, Pausing,
             Cancel, PauseKeys, NoteHistory, Becomes, PassOn, Suppress
<1>1. TypeOK'
  <2>1. active' \in BOOLEAN /\ activation' \in {"none", "begun", "cancelled"}
        /\ (active' => activation' = "none") /\ (releasing' # {} => activation' # "none")
    BY DEF TypeOK
  <2>2. pending' \subseteq pending /\ (pending' # {} => active')
        /\ forwarded' \subseteq Keys /\ swallowed' \subseteq Keys /\ sent' \subseteq Keys
    BY DEF TypeOK, Keys, Reserved
  <2>3. remote' \subseteq Keys \cup Buttons /\ local' \subseteq Keys \cup Buttons
        /\ buttons' \subseteq Buttons
    BY DEF TypeOK, Keys, Reserved
  <2>4. refused' \subseteq Keys /\ slipped' \subseteq Keys
    BY <2>3 DEF TypeOK
  <2>. QED BY <2>1, <2>2, <2>3, <2>4 DEF TypeOK
<1>2. RemoteHeldPhysically'
  BY DEF RemoteHeldPhysically, RemoteReleasable, TypeOK, Keys, Reserved
<1>3. RemoteReleasable'
  BY DEF RemoteHeldPhysically, RemoteReleasable, TypeOK, Keys, Reserved
<1>4. LocalKeysReleased'
  BY DEF TypeOK, LocalKeysReleased, Exceptions, Keys, Reserved
<1>5. LocalReleasable'
  BY DEF TypeOK, LocalKeysReleased, LocalReleasable, Exceptions, Keys, Reserved
<1>6. SentHidden' BY DEF TypeOK, SentHidden
<1>7. RepeatIsSwallowed' BY DEF RepeatIsSwallowed
<1>. QED BY <1>1, <1>2, <1>3, <1>4, <1>5, <1>6, <1>7

LEMMA Started == Init => IInv
BY DEF Init, IInv, TypeOK, Keys, RemoteHeldPhysically, RemoteReleasable,
       LocalKeysReleased, LocalReleasable, Exceptions, SentHidden, RepeatIsSwallowed

LEMMA Stepped == IInv /\ [Next]_vars => IInv'
<1>. SUFFICES ASSUME IInv, [Next]_vars PROVE IInv' OBVIOUS
<1>1. CASE Press \/ Repeat \/ Release BY <1>1, KeyEvents, HandleKeeps
<1>2. CASE UNCHANGED vars
  BY <1>2 DEF vars, mode, policy, history, IInv, TypeOK, RemoteHeldPhysically,
              RemoteReleasable, LocalKeysReleased, LocalReleasable, Exceptions,
              SentHidden, RepeatIsSwallowed
<1>. QED
  BY <1>1, <1>2, PauseKeeps, BeginActivationKeeps, ReleaseLocallyKeeps,
     EndActivationKeeps, ActivationFailsKeeps, MoveKeeps, ClickKeeps DEF Next

\* CapturePolicy.key, mouse, activate and pause keep the sets of the policy apart.
THEOREM PolicyTypeCorrect == Spec => []TypeOK
<1>1. IInv => TypeOK BY DEF IInv
<1>. QED BY <1>1, Started, Stepped, PTL DEF Spec

\* What key does with the release of a press that was sent: it reaches the target, or
\* control ends and the target releases everything.
THEOREM RemoteAlwaysHeld == Spec => []RemoteHeldPhysically
<1>1. IInv => RemoteHeldPhysically BY DEF IInv
<1>. QED BY <1>1, Started, Stepped, PTL DEF Spec

\* _apply_state releases the local keys before activate, and key swallows only releases of
\* keys that the desktop does not hold; the two exceptions are what the hooks let through
\* between those native calls, and what a second pause swallows of a refused event.
THEOREM LocalAlwaysReleased == Spec => []LocalKeysReleased
<1>1. IInv => LocalKeysReleased BY DEF IInv
<1>. QED BY <1>1, Started, Stepped, PTL DEF Spec

\* A key that was sent is forwarded or swallowed until it is released, so that the
\* desktop sees nothing of it.
THEOREM PressInOnePlace == Spec => []OnePlace
<1>1. IInv => OnePlace
  <2>1. SUFFICES ASSUME IInv PROVE OnePlace OBVIOUS
  <2>2. sent \subseteq Keys /\ local \cap sent \subseteq local \cap Keys
    BY <2>1 DEF IInv, TypeOK
  <2>3. CASE active BY <2>1, <2>2, <2>3 DEF IInv, LocalReleasable, Exceptions, OnePlace
  <2>4. CASE ~active
    BY <2>1, <2>4 DEF IInv, LocalReleasable, Exceptions, SentHidden, OnePlace
  <2>. QED BY <2>1, <2>3, <2>4 DEF IInv, TypeOK
<1>. QED BY <1>1, Started, Stepped, PTL DEF Spec

-------------------------------------------------------------------------------

\* What key sends of a hotkey is its press, and it looked for the chord before.
LEMMA KeySendsNoChord ==
    ASSUME IInv, NEW key, NEW down, Event(key, down), Handle(key, down),
           NEW hotkey \in {F9, F10}, hotkey \in remote' \ remote
    PROVE  ~(remote' \cap Ctrl # {} /\ remote' \cap Alt # {})
<1>1. SendKey(key, down)
  BY DEF Handle, Hotkey, Swallow, Ignore, Local, DeferModifier, EndModifier,
         EndModifierOverload, TapOverload, SendKeyOverload, Pausing
<1>2. hotkey \notin Reserved
  BY PolicyAssumption DEF PolicyAssumption
<1>3. down /\ key = hotkey
  BY <1>1, <1>2 DEF SendKey, Becomes, IInv, TypeOK
<1>4. keys \cap Ctrl = {} \/ keys \cap Alt = {}
  BY <1>1, <1>3 DEF SendKey, Free, Chord
<1>5. keys' = keys \cup {key}
  BY <1>3 DEF Handle, Physical, Becomes
<1>6. remote' \subseteq keys' \cup buttons' /\ buttons' \subseteq Buttons
  BY HandleKeeps DEF IInv, RemoteHeldPhysically, TypeOK
<1>7. remote' \cap Reserved \subseteq keys
  BY <1>2, <1>3, <1>5, <1>6, PolicyAssumption DEF PolicyAssumption, Keys
<1>. QED BY <1>4, <1>7 DEF Reserved

LEMMA OthersSendNoHotkey ==
    ASSUME IInv, NEW hotkey \in {F9, F10}, hotkey \in remote' \ remote,
           \/ Move \/ Pause \/ (\E button \in Buttons : Click(button))
           \/ BeginActivation \/ (\E key \in releasing : ReleaseLocally(key))
           \/ EndActivation \/ ActivationFails
    PROVE  FALSE
<1>1. hotkey \notin Reserved /\ hotkey \notin Buttons
  BY PolicyAssumption DEF PolicyAssumption, Keys
<1>2. CASE Move
  BY <1>1, <1>2 DEF Move, FlushForMouse, MouseOverload, Pausing, IInv, TypeOK
<1>3. ASSUME NEW button \in Buttons, Click(button) PROVE FALSE
  BY <1>1, <1>3
     DEF Click, FlushForMouse, MouseOverload, Pausing, Becomes, IInv, TypeOK
<1>4. CASE Pause \/ BeginActivation \/ EndActivation \/ ActivationFails
  BY <1>4 DEF Pause, Pausing, BeginActivation, EndActivation, ActivationFails
<1>5. ASSUME NEW key \in releasing, ReleaseLocally(key) PROVE FALSE
  BY <1>5 DEF ReleaseLocally
<1>. QED BY <1>2, <1>3, <1>4, <1>5

\* The policy suppresses the press of a hotkey in its chord before any other rule of key
\* sees it; the modifiers the target holds, or gets with the press, are all down, so that
\* the chord of the keyboard covers the chord of the target at the press.
THEOREM ChordAlwaysLocal == Spec => ChordStaysLocal
<1>. DEFINE A == \A key \in {F9, F10} :
                     key \in remote' \ remote =>
                         ~(remote' \cap Ctrl # {} /\ remote' \cap Alt # {})
<1>1. IInv /\ [Next]_vars => [A]_vars
  <2>1. SUFFICES ASSUME IInv, Next, NEW hotkey \in {F9, F10}, hotkey \in remote' \ remote
                 PROVE  ~(remote' \cap Ctrl # {} /\ remote' \cap Alt # {})
    OBVIOUS
  <2>2. \E key, down : Event(key, down) /\ Handle(key, down)
    BY <2>1, OthersSendNoHotkey, KeyEvents DEF Next
  <2>. QED BY <2>1, <2>2, KeySendsNoChord
<1>2. ChordStaysLocal <=> [][A]_vars BY DEF ChordStaysLocal
<1>. QED BY <1>1, <1>2, Started, Stepped, PTL DEF Spec
===============================================================================
