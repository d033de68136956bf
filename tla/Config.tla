-------------------------------- MODULE Config --------------------------------
(***************************************************************************)
(* The limits of remoteinput/config.py that the components share.  Time is *)
(* a natural number of ticks.                                              *)
(***************************************************************************)
EXTENDS Integers

CONSTANTS
    QueueLimit,         \* QUEUE_LIMIT: items an input queue holds
    MaxQueueAge,        \* MAX_QUEUE_AGE: ticks an item may wait in it
    ChallengeInterval,  \* CHALLENGE_INTERVAL: ticks between two challenges
    TimeoutMin,         \* NETWORK_TIMEOUT_MIN
    TimeoutMax          \* NETWORK_TIMEOUT_MAX

ASSUME ConfigAssumption ==
    /\ QueueLimit \in Nat \ {0}
    /\ MaxQueueAge \in Nat
    /\ ChallengeInterval \in Nat \ {0}
    /\ TimeoutMin \in Nat \ {0}
    /\ TimeoutMax \in Nat
    /\ TimeoutMin <= TimeoutMax
===============================================================================
