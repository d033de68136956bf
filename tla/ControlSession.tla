----------------------------- MODULE ControlSession -----------------------------
(***************************************************************************)
(* What a target promises about control, whoever offers it: the abstract   *)
(* specification that TargetEngine implements and Controller relies on.    *)
(*                                                                         *)
(* An epoch is offered by an ACTIVATE message.  It may begin a session     *)
(* once, in the order of the offers, also after a reset that came later;   *)
(* offers may be dropped without a word, a session may end at any time,    *)
(* and one that ended never comes back.                                    *)
(***************************************************************************)
EXTENDS Integers

CONSTANT Epochs  \* positive numbers, larger for a later activation

VARIABLES
    session,  \* the epoch in control, 0 for none
    offered,  \* the epochs offered and not decided
    newest    \* the epoch that began last

Init == session = 0 /\ offered = {} /\ newest = 0

Offer(e) ==
    /\ e > newest /\ \A o \in offered : o < e
    /\ offered' = offered \cup {e}
    /\ UNCHANGED <<session, newest>>

\* A new session ends the old one, and with it the offers behind it.
Begin(e) ==
    /\ e \in offered /\ \A o \in offered : e <= o
    /\ session' = e /\ newest' = e /\ offered' = {}

\* A session ends, offers are dropped or declined.
Recede ==
    /\ session' \in {0, session}
    /\ offered' \in SUBSET offered
    /\ UNCHANGED newest

Next == Recede \/ (\E e \in offered : Begin(e)) \/ (\E e \in Epochs : Offer(e))

Spec == Init /\ [][Next]_<<session, offered, newest>>
===============================================================================
