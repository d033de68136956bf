--------------------------- MODULE NetworkTimingSpec ---------------------------
(***************************************************************************)
(* The life of one NetworkTiming: round trips are observed in any order,   *)
(* and a new connection or peer starts afresh.                             *)
(***************************************************************************)
EXTENDS NetworkTiming

CONSTANT Samples  \* the round trips that are measured, in ticks

ASSUME SamplesAssumption == Samples \subseteq Nat

VARIABLES
    network,
    sample    \* history: the last round trip taken into account, or NoRtt

vars == <<network, sample>>

Init == network = FreshNetwork /\ sample = NoRtt

Measure ==
    \E s \in Samples :
        /\ network' = Observe(network, s)
        /\ sample' = IF s < TimeoutMax THEN s ELSE sample

Restart == network' = FreshNetwork /\ sample' = NoRtt

Next == Measure \/ Restart

Spec == Init /\ [][Next]_vars

-------------------------------------------------------------------------------

\* The type invariant: the averages stay below the greatest sample.
TypeOK == network \in Networks /\ sample \in {NoRtt} \cup (0 .. TimeoutMax - 1)

\* The deadline is between the two limits of the design ("2-3 seconds") whatever
\* was measured.
DeadlineBounded == Timeout(network) \in TimeoutMin .. TimeoutMax

\* Rounding the two averages down loses less than four ticks.
Rounding == 4

\* A round trip that was just measured, plus the interval between challenges,
\* still fits in the deadline (up to the absolute bound): a route whose delay
\* jumps and stays is not cut off by the smoothing of the average.
DeadlineCoversSample ==
    sample # NoRtt =>
        \/ Timeout(network) = TimeoutMax
        \/ Timeout(network) + Rounding > sample + ChallengeInterval
================================================================================
