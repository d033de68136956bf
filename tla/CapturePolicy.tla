---------------------------- MODULE CapturePolicy ----------------------------
(***************************************************************************)
(* The capture policy of remoteinput/capture.py: for each physical key and *)
(* button event it decides whether the local desktop or the target gets    *)
(* it.  The hook thread calls key and mouse; activate runs on it too, and  *)
(* pause comes from any thread.  One reentrant lock makes each call one    *)
(* step, but an emitted event can be refused by a full queue, and then     *)
(* Controller.enqueue pauses the policy in the middle of the call.         *)
(*                                                                         *)
(* Before an activation WindowsCapture._apply_state releases the local     *)
(* keys with native calls, under the same lock; each may dispatch callbacks*)
(* of the hooks on its own thread.                                         *)
(*                                                                         *)
(* Of the pending modifiers only the set is kept.  No key is held down     *)
(* when the hooks start, and the hooks see every event.                    *)
(***************************************************************************)
EXTENDS FiniteSets, Integers

CONSTANTS
    Ctrl, Alt,      \* the reserved modifiers
    F9, F10,        \* the hotkeys, with both modifiers
    Plain,          \* the other keys
    Buttons,        \* of the mouse
    Keyboard        \* the keys that the user presses

Reserved == Ctrl \cup Alt
Keys == Reserved \cup {F9, F10} \cup Plain

ASSUME PolicyAssumption ==
    /\ F9 # F10
    /\ Ctrl \cap Alt = {}
    /\ Reserved \cap ({F9, F10} \cup Plain) = {}
    /\ Buttons \cap Keys = {}
    /\ Keyboard \subseteq Keys

VARIABLES
    active,
    activation,               \* of _apply_state: "none", "begun" or "cancelled"
    releasing,                \* its snapshot of `keys', as far as not yet released
    keys, buttons,            \* physically down, as far as the hooks saw
    ignored, ignoredButtons,  \* down at the activation
    swallowed,                \* kept from the desktop until released
    pending,                  \* modifiers that are down and not yet sent
    forwarded,                \* keys whose press was sent
    \* --- the keyboard, the desktop and the target ---
    last,                     \* the key pressed last, the one that repeats
    local,                    \* what the local desktop holds pressed
    remote,                   \* what this activation holds pressed on the target
    \* --- history ---
    sent,                     \* keys down whose present press the target got
    refused,                  \* held locally since a second pause swallowed a refused key
    slipped                   \* held locally since a press during the native releases

policy == <<ignored, ignoredButtons, swallowed, pending, forwarded>>
mode == <<active, activation>>
history == <<refused, slipped>>
vars == <<mode, releasing, keys, buttons, policy, last, local, remote, sent, history>>

Init ==
    /\ active = FALSE /\ activation = "none" /\ releasing = {}
    /\ keys = {} /\ buttons = {} /\ ignored = {} /\ ignoredButtons = {}
    /\ swallowed = {} /\ pending = {} /\ forwarded = {}
    /\ last = F9 /\ local = {} /\ remote = {} /\ sent = {}
    /\ refused = {} /\ slipped = {}

-------------------------------------------------------------------------------

Becomes(set, x, down) == IF down THEN set \cup {x} ELSE set \ {x}

\* The first lines of key; the desktop sees the event or not.
Physical(key, down) ==
    /\ keys' = Becomes(keys, key, down)
    /\ last' = IF down THEN key ELSE last
    /\ UNCHANGED <<releasing, buttons, ignoredButtons>>

PassOn(x, down) == local' = Becomes(local, x, down)
Suppress == UNCHANGED local

\* The presses in `new' went out; `key' itself may be released.
Deliver(new, key, down) ==
    sent' = IF down THEN sent \cup new ELSE (sent \cup new) \ {key}

\* A pause cancels the activation that it interrupts.
Cancel == activation' = IF activation = "none" THEN "none" ELSE "cancelled"

Pausing_KeepsPending(swallow, left) ==
    /\ active' = FALSE /\ Cancel
    /\ swallowed' = swallow
    /\ forwarded' = left
    /\ remote' = {}
    /\ UNCHANGED <<ignored, pending>>

\* pause, possibly in the middle of a call that then still adds to `forwarded'.
Pausing(swallow, left) ==
    /\ active' = FALSE /\ Cancel
    /\ swallowed' = swallow
    /\ pending' = {}
    /\ forwarded' = left
    /\ remote' = {}
    /\ UNCHANGED ignored

\* While paused, `forwarded' holds nothing but what a refusal left there.
NoteHistory ==
    /\ refused' = local' \cap (refused \cup IF active \/ active' THEN {}
                                            ELSE forwarded \cap (swallowed' \ swallowed))
    /\ slipped' = local' \cap (slipped \cup IF activation = "none" THEN {}
                                            ELSE (local' \ local) \ Buttons)

PauseKeys_Forgotten == swallowed
PauseKeys == swallowed \cup forwarded

\* Other threads wait for the lock while an activation is under way.
Pause ==
    /\ activation = "none"
    /\ Pausing(PauseKeys, {})
    /\ UNCHANGED <<releasing, keys, buttons, ignoredButtons, last, local, sent>>
    /\ NoteHistory

\* _apply_state: the list of the keys to release locally; a callback during the calls
\* before it may have cancelled the activation ...
BeginActivation ==
    /\ ~active /\ activation = "none"
    /\ activation' \in {"begun", "cancelled"} /\ releasing' = keys
    /\ UNCHANGED <<active, keys, buttons, ignoredButtons, policy, last, local, remote,
                   sent, history>>

ReleaseLocally_OnlyModifiers(key) ==
    /\ releasing' = releasing \ {key}
    /\ local' = IF key \in Reserved THEN local \ {key} ELSE local
    /\ UNCHANGED <<mode, keys, buttons, ignoredButtons, policy, last, remote, sent>>
    /\ NoteHistory

\* ... one native call for each; the hooks let the injected event pass ...
ReleaseLocally(key) ==
    /\ releasing' = releasing \ {key}
    /\ local' = local \ {key}
    /\ UNCHANGED <<mode, keys, buttons, ignoredButtons, policy, last, remote, sent>>
    /\ NoteHistory

\* ... and activate, unless a callback of a hook has cancelled it meanwhile.
EndActivation ==
    /\ activation # "none" /\ releasing = {}
    /\ activation' = "none"
    /\ \/ /\ activation = "cancelled"
          /\ UNCHANGED <<active, ignoredButtons, policy, remote>>
       \/ /\ activation = "begun"
          /\ active' = TRUE
          /\ ignored' = keys /\ ignoredButtons' = buttons
          /\ pending' = {} /\ forwarded' = {} /\ remote' = {}
          /\ UNCHANGED swallowed
    /\ UNCHANGED <<releasing, keys, buttons, last, local, sent>>
    /\ NoteHistory

\* A native call fails, and the message loop pauses.
ActivationFails ==
    /\ activation # "none"
    /\ active' = FALSE /\ activation' = "none" /\ releasing' = {}
    /\ swallowed' = PauseKeys /\ pending' = {} /\ forwarded' = {} /\ remote' = {}
    /\ UNCHANGED <<keys, buttons, ignored, ignoredButtons, last, local, sent>>
    /\ NoteHistory

-------------------------------------------------------------------------------
\* key, one operator for each way through it.

Chord_Pending(key, down) ==
    /\ down /\ key \in {F9, F10}
    /\ pending \cap Ctrl # {} /\ pending \cap Alt # {}

Chord(key, down) ==
    /\ down /\ key \in {F9, F10}
    /\ keys \cap Ctrl # {} /\ keys \cap Alt # {}

\* The stop hotkey stops control; the toggle hotkey does, or asks for activation.
Hotkey(key, down) ==
    /\ Chord(key, down)
    /\ \/ /\ key \in keys
          /\ swallowed' = swallowed \cup {key}
          /\ UNCHANGED <<mode, ignored, pending, forwarded, remote>>
       \/ /\ key \notin keys
          /\ Pausing(swallowed \cup {key} \cup forwarded, {})
       \/ /\ key \notin keys /\ key = F9
          /\ swallowed' = swallowed \cup {key}
          /\ pending' = {}
          /\ UNCHANGED <<mode, ignored, forwarded, remote>>
    /\ Suppress /\ Deliver({}, key, down)

Swallow(key, down) ==
    /\ ~Chord(key, down) /\ key \in swallowed
    /\ swallowed' = IF down THEN swallowed ELSE swallowed \ {key}
    /\ UNCHANGED <<mode, ignored, pending, forwarded, remote>>
    /\ Suppress /\ Deliver({}, key, down)

Ignore(key, down) ==
    /\ ~Chord(key, down) /\ key \notin swallowed /\ key \in ignored
    /\ ignored' = IF down THEN ignored ELSE ignored \ {key}
    /\ UNCHANGED <<mode, swallowed, pending, forwarded, remote>>
    /\ IF active THEN Suppress ELSE PassOn(key, down)
    /\ Deliver({}, key, down)

Free(key, down) == ~Chord(key, down) /\ key \notin swallowed \cup ignored

Local(key, down) ==
    /\ ~active /\ Free(key, down)
    /\ PassOn(key, down)
    /\ UNCHANGED <<mode, policy, remote>>
    /\ Deliver({}, key, down)

DeferModifier(key, down) ==
    /\ active /\ Free(key, down) /\ down /\ key \in Reserved
    /\ pending' = IF key \in forwarded THEN pending ELSE pending \cup {key}
    /\ UNCHANGED <<mode, ignored, swallowed, forwarded, remote>>
    /\ Suppress /\ Deliver({}, key, down)

\* A tap sends both halves now.
EndModifier(key, down) ==
    /\ active /\ Free(key, down) /\ ~down /\ key \in Reserved
    /\ pending' = pending \ {key}
    /\ forwarded' = forwarded \ {key}
    /\ remote' = remote \ {key}
    /\ UNCHANGED <<mode, ignored, swallowed>>
    /\ Suppress /\ Deliver({}, key, down)

\* The release is refused.
EndModifierOverload(key, down) ==
    /\ active /\ Free(key, down) /\ ~down
    /\ key \in Reserved /\ key \in pending \cup forwarded
    /\ Pausing(swallowed \cup forwarded \cup {key}, {})
    /\ Suppress /\ Deliver({}, key, down)

\* The press of a tap is refused: pause empties pending, pending.pop then raises,
\* and the hook passes the event on.
TapOverload(key, down) ==
    /\ active /\ Free(key, down) /\ ~down /\ key \in pending
    /\ Pausing(PauseKeys, {})
    /\ PassOn(key, down) /\ Deliver({}, key, down)

SendKey_OnlyWhenPressed(key, down) ==
    /\ active /\ Free(key, down) /\ key \notin Reserved
    /\ forwarded' = IF down THEN forwarded \cup pending \cup {key}
                    ELSE (forwarded \cup pending) \ {key}
    /\ remote' = IF down THEN remote \cup pending \cup {key} ELSE remote \cup pending
    /\ pending' = {}
    /\ UNCHANGED <<mode, ignored, swallowed>>
    /\ Suppress
    /\ Deliver(IF down THEN pending \cup {key} ELSE pending, key, down)

\* Any other key first sends the pending modifiers.
SendKey(key, down) ==
    /\ active /\ Free(key, down) /\ key \notin Reserved
    /\ forwarded' = Becomes(forwarded \cup pending, key, down)
    /\ remote' = Becomes(remote \cup pending, key, down)
    /\ pending' = {}
    /\ UNCHANGED <<mode, ignored, swallowed>>
    /\ Suppress
    /\ Deliver(IF down THEN pending \cup {key} ELSE pending, key, down)

\* Only the modifiers in `ok' were accepted before an event was refused.
SendKeyOverload(key, down) ==
    /\ active /\ Free(key, down) /\ key \notin Reserved
    /\ \E ok \in SUBSET pending :
        /\ ok # pending \/ down \/ key \in forwarded
        /\ Pausing(PauseKeys \cup ok, (pending \ ok) \cup (IF down THEN {key} ELSE {}))
        /\ Deliver(ok, key, down)
    /\ Suppress

Handle(key, down) ==
    /\ Physical(key, down)
    /\ \/ Hotkey(key, down) \/ Swallow(key, down) \/ Ignore(key, down)
       \/ Local(key, down)
       \/ DeferModifier(key, down)
       \/ EndModifier(key, down) \/ EndModifierOverload(key, down)
       \/ TapOverload(key, down)
       \/ SendKey(key, down) \/ SendKeyOverload(key, down)
    /\ NoteHistory

Press == \E key \in Keyboard \ keys : Handle(key, TRUE)
Repeat == last \in keys /\ Handle(last, TRUE)
Release == \E key \in keys : Handle(key, FALSE)

-------------------------------------------------------------------------------
\* mouse

FlushForMouse(new) ==
    /\ forwarded' = forwarded \cup pending
    /\ remote' = new
    /\ pending' = {}
    /\ sent' = sent \cup pending
    /\ UNCHANGED <<mode, ignored, swallowed>>

MouseOverload ==
    \E ok \in SUBSET pending :
        Pausing(PauseKeys \cup ok, pending \ ok) /\ sent' = sent \cup ok

\* A move or a scroll.
Move ==
    /\ active
    /\ FlushForMouse(remote \cup pending) \/ MouseOverload
    /\ UNCHANGED <<releasing, keys, buttons, ignoredButtons, last, local>>
    /\ NoteHistory

Click(button) ==
    LET down == button \notin buttons
    IN  /\ buttons' = Becomes(buttons, button, down)
        /\ IF button \in ignoredButtons
           THEN /\ ignoredButtons' = IF down THEN ignoredButtons ELSE ignoredButtons \ {button}
                /\ IF active THEN Suppress ELSE PassOn(button, down)
                /\ UNCHANGED <<mode, ignored, swallowed, pending, forwarded, remote, sent>>
           ELSE /\ UNCHANGED ignoredButtons
                /\ \/ /\ ~active
                      /\ PassOn(button, down)
                      /\ UNCHANGED <<mode, ignored, swallowed, pending, forwarded, remote, sent>>
                   \/ /\ active
                      /\ FlushForMouse(Becomes(remote \cup pending, button, down))
                         \/ MouseOverload
                      /\ Suppress
        /\ UNCHANGED <<releasing, keys, last>>
        /\ NoteHistory

-------------------------------------------------------------------------------

Next ==
    \/ Press \/ Repeat \/ Release
    \/ Move \/ (\E button \in Buttons : Click(button))
    \/ BeginActivation \/ (\E key \in releasing : ReleaseLocally(key))
    \/ EndActivation \/ ActivationFails
    \/ Pause

Spec == Init /\ [][Next]_vars

-------------------------------------------------------------------------------

\* The type invariant; only reserved modifiers wait, and nothing does while paused.
TypeOK ==
    /\ active \in BOOLEAN /\ activation \in {"none", "begun", "cancelled"}
    /\ active => activation = "none"
    /\ releasing \subseteq Keys /\ (releasing # {} => activation # "none")
    /\ keys \subseteq Keys /\ buttons \subseteq Buttons
    /\ ignored \subseteq Keys /\ ignoredButtons \subseteq Buttons
    /\ swallowed \subseteq Keys /\ forwarded \subseteq Keys
    /\ pending \subseteq Reserved /\ (pending # {} => active)
    /\ last \in Keys
    /\ local \subseteq Keys \cup Buttons /\ remote \subseteq Keys \cup Buttons
    /\ sent \subseteq Keys /\ refused \subseteq Keys /\ slipped \subseteq Keys

\* While controlling, the target holds nothing that the user has let go of: no way
\* through the handlers swallows the release of a press that was sent.
RemoteHeldPhysically == remote \subseteq keys \cup buttons

\* No key stays pressed on the local desktop after the user let go of it, though
\* releases are suppressed while controlling and for a while after.  There are two
\* exceptions: keys whose press the queue refused, since a second pause swallows their
\* release, and keys that a callback gave to the desktop during the native releases of
\* an activation, since activate then ignores them.
LocalKeysReleased == local \cap Keys \subseteq keys \cup refused \cup slipped

\* One physical press never reaches both computers, not even by the repeats that
\* follow a pause (with the same exceptions).
OnePlace == local \cap sent \subseteq refused \cup slipped

\* The press of a hotkey stays local in its chord: the target never gets it while it
\* holds both modifiers, or with them, whichever of them were deferred, sent or ignored
\* before.  (Modifiers that the target gets after the press are another matter.)
ChordStaysLocal ==
    [][\A key \in {F9, F10} :
        key \in remote' \ remote =>
            ~(remote' \cap Ctrl # {} /\ remote' \cap Alt # {})]_vars

\* "Physical keys held during activation are ignored until released" (DESIGN): a key is
\* ignored only until then.
IgnoredUntilReleased == active => ignored \subseteq keys
===============================================================================
