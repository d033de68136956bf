---------------------------- MODULE NetworkTiming ----------------------------
(***************************************************************************)
(* The network deadlines of remoteinput/timing.py as pure operators.       *)
(*                                                                         *)
(* A value of the class NetworkTiming is a record [rtt, variation]; rtt is *)
(* NoRtt until the first observation.  The code computes with floating     *)
(* point seconds; here time is a natural number of ticks, and the smoothed *)
(* averages are rounded down to a tick.                                    *)
(***************************************************************************)
EXTENDS Config

NoRtt == -1

\* Every reachable value: a sample is below TimeoutMax, so both averages are.
Networks == [rtt : {NoRtt} \cup (0 .. TimeoutMax), variation : 0 .. TimeoutMax]

FreshNetwork_NoVariation == [rtt |-> NoRtt, variation |-> NoRtt]
FreshNetwork == [rtt |-> NoRtt, variation |-> 0]

Distance(x, y) == IF x >= y THEN x - y ELSE y - x

\* A sample outside [0, TimeoutMax) is ignored: observe returns False.
Observe(network, seconds) ==
    IF ~(0 <= seconds /\ seconds < TimeoutMax) THEN network
    ELSE IF network.rtt = NoRtt
         THEN [rtt |-> seconds, variation |-> seconds \div 2]
         ELSE [rtt |-> (7 * network.rtt + seconds) \div 8,
               variation |-> (3 * network.variation
                                + Distance(network.rtt, seconds)) \div 4]

Estimate_PlainVariation(network) ==
    network.rtt + network.variation + ChallengeInterval
Estimate(network) == network.rtt + 4 * network.variation + ChallengeInterval

\* The limit on the age of a challenge echo, and on the silence of a controller.
Timeout(network) ==
    IF network.rtt = NoRtt \/ Estimate(network) <= TimeoutMin THEN TimeoutMin
    ELSE IF Estimate(network) >= TimeoutMax THEN TimeoutMax
    ELSE Estimate(network)

\* The limit on the age of the challenge that an input frame carries.
InputTimeout(network) == Timeout(network) + ChallengeInterval + MaxQueueAge
==============================================================================
