-------------------------- MODULE NetworkTimingProofs --------------------------
(* Proofs about the deadlines, for every choice of the limits and samples. *)
EXTENDS NetworkTimingSpec, NetworkTimingLemmas, TLAPS

\* One observation is enough for the estimate to reach the sample, up to rounding.
LEMMA EstimateCoversSample ==
    ASSUME NEW n \in Networks, NEW s \in Nat, s < TimeoutMax
    PROVE  /\ Observe(n, s).rtt # NoRtt
           /\ Estimate(Observe(n, s)) + Rounding > s + ChallengeInterval
<1> USE ConfigAssumption DEF ConfigAssumption
<1>1. CASE n.rtt = NoRtt
  <2>1. Observe(n, s) = [rtt |-> s, variation |-> s \div 2]
    BY <1>1 DEF Observe
  <2>2. s \div 2 \in Nat
    BY DivisionRoundsDown
  <2> QED BY <2>1, <2>2 DEF Estimate, Rounding, NoRtt
<1>2. CASE n.rtt # NoRtt
  <2> DEFINE d == Distance(n.rtt, s)
             a == 7 * n.rtt + s
             b == 3 * n.variation + d
  <2>1. n.rtt \in Nat /\ n.variation \in Nat
    BY <1>2 DEF Networks
  <2>2. d \in Nat /\ n.rtt + d >= s
    BY <2>1 DEF Distance
  <2>3. Observe(n, s) = [rtt |-> a \div 8, variation |-> b \div 4]
    BY <1>2 DEF Observe
  <2>4. a \in Nat /\ b \in Nat
    BY <2>1, <2>2
  <2>5. /\ a \div 8 \in Nat /\ a < 8 * (a \div 8) + 8
        /\ b \div 4 \in Nat /\ b < 4 * (b \div 4) + 4
    BY <2>4, DivisionRoundsDown
  <2>6. \A p, q \in Nat : a < 8 * p + 8 /\ b < 4 * q + 4 => p + 4 * q + Rounding > s
    <3> HIDE DEF d
    <3> QED BY <2>1, <2>2 DEF Rounding
  <2>7. (a \div 8) + 4 * (b \div 4) + Rounding > s
    BY <2>5, <2>6
  <2> HIDE DEF a, b
  <2> QED BY <2>3, <2>5, <2>7 DEF Estimate, NoRtt, Rounding
<1> QED BY <1>1, <1>2

\* The averages and the history keep their types.
THEOREM TimingTypeCorrect == Spec => []TypeOK
<1>1. Init => TypeOK
  BY ConfigAssumption DEF ConfigAssumption, Init, TypeOK, FreshNetwork, Networks
<1>2. TypeOK /\ [Next]_vars => TypeOK'
  <2> SUFFICES ASSUME TypeOK, [Next]_vars PROVE TypeOK'
    OBVIOUS
  <2> USE ConfigAssumption, SamplesAssumption DEF ConfigAssumption, SamplesAssumption
  <2>1. CASE Measure
    BY <2>1, ObserveType DEF Measure, TypeOK
  <2>2. CASE Restart
    BY <2>2 DEF Restart, TypeOK, FreshNetwork, Networks
  <2>3. CASE UNCHANGED vars
    BY <2>3 DEF TypeOK, vars
  <2> QED BY <2>1, <2>2, <2>3 DEF Next
<1> QED BY <1>1, <1>2, PTL DEF Spec

\* The deadline of either endpoint always lies between the two limits.
THEOREM DeadlineIsBounded == Spec => []DeadlineBounded
<1>1. TypeOK => DeadlineBounded
  BY TimeoutBounds DEF TypeOK, DeadlineBounded
<1> QED BY <1>1, TimingTypeCorrect, PTL

\* The deadline always covers the round trip that was measured last.
THEOREM DeadlineAlwaysCovers == Spec => []DeadlineCoversSample
<1> USE ConfigAssumption, SamplesAssumption DEF ConfigAssumption, SamplesAssumption
<1>1. Init => DeadlineCoversSample
  BY DEF Init, DeadlineCoversSample
<1>2. TypeOK /\ DeadlineCoversSample /\ [Next]_vars => DeadlineCoversSample'
  <2> SUFFICES ASSUME TypeOK, DeadlineCoversSample, [Next]_vars
               PROVE  DeadlineCoversSample'
    OBVIOUS
  <2>1. ASSUME NEW s \in Samples, network' = Observe(network, s),
               sample' = IF s < TimeoutMax THEN s ELSE sample
        PROVE  DeadlineCoversSample'
    <3>1. CASE s < TimeoutMax
      <4>1. /\ network'.rtt # NoRtt
            /\ Estimate(network') + Rounding > s + ChallengeInterval
        BY <2>1, <3>1, EstimateCoversSample DEF TypeOK
      <4>2. network' \in Networks
        BY <2>1, ObserveType DEF TypeOK
      <4>3. Estimate(network') \in Int
        BY <4>2 DEF Estimate, Networks, NoRtt
      <4> HIDE DEF Estimate
      <4> QED BY <2>1, <3>1, <4>1, <4>3 DEF DeadlineCoversSample, Timeout, Rounding
    <3>2. CASE ~(s < TimeoutMax)
      BY <2>1, <3>2 DEF DeadlineCoversSample, Observe
    <3> QED BY <3>1, <3>2
  <2>2. CASE Restart
    BY <2>2 DEF Restart, DeadlineCoversSample
  <2>3. CASE UNCHANGED vars
    BY <2>3 DEF DeadlineCoversSample, vars
  <2> QED BY <2>1, <2>2, <2>3 DEF Next, Measure
<1> QED BY <1>1, <1>2, TimingTypeCorrect, PTL DEF Spec
================================================================================
