-------------------------- MODULE NetworkTimingLemmas --------------------------
(* Facts about the operators of NetworkTiming, for every choice of the limits. *)
EXTENDS NetworkTiming, TLAPS

\* Integer division rounds down: the only fact about it the proofs need.
LEMMA DivisionRoundsDown ==
    ASSUME NEW n \in Nat
    PROVE  /\ n \div 8 \in Nat /\ 8 * (n \div 8) <= n /\ n < 8 * (n \div 8) + 8
           /\ n \div 4 \in Nat /\ 4 * (n \div 4) <= n /\ n < 4 * (n \div 4) + 4
           /\ n \div 2 \in Nat /\ 2 * (n \div 2) <= n /\ n < 2 * (n \div 2) + 2
  BY SMT

LEMMA DistanceBounds ==
    ASSUME NEW b \in Nat, NEW x \in 0 .. b, NEW y \in 0 .. b
    PROVE  Distance(x, y) \in 0 .. b
  BY DEF Distance

\* The smoothed averages never leave the range of the samples.
LEMMA ObserveType ==
    ASSUME NEW n \in Networks, NEW s \in Nat
    PROVE  Observe(n, s) \in Networks
<1> USE ConfigAssumption DEF ConfigAssumption
<1>1. CASE ~(0 <= s /\ s < TimeoutMax)
  BY <1>1 DEF Observe
<1>2. CASE s < TimeoutMax /\ n.rtt = NoRtt
  <2>1. s \div 2 \in 0 .. TimeoutMax
    BY <1>2, DivisionRoundsDown
  <2> QED BY <1>2, <2>1 DEF Observe, Networks
<1>3. CASE s < TimeoutMax /\ n.rtt # NoRtt
  <2>1. n.rtt \in 0 .. TimeoutMax /\ n.variation \in 0 .. TimeoutMax
    BY <1>3 DEF Networks
  <2>2. (7 * n.rtt + s) \div 8 \in 0 .. TimeoutMax
    BY <1>3, <2>1, 7 * n.rtt + s \in Nat, DivisionRoundsDown
  <2>3. Distance(n.rtt, s) \in 0 .. TimeoutMax
    BY <1>3, <2>1, s \in 0 .. TimeoutMax, DistanceBounds
  <2>4. (3 * n.variation + Distance(n.rtt, s)) \div 4 \in 0 .. TimeoutMax
    BY <2>1, <2>3, 3 * n.variation + Distance(n.rtt, s) \in Nat, DivisionRoundsDown
  <2> QED BY <1>3, <2>2, <2>4 DEF Observe, Networks
<1> QED BY <1>1, <1>2, <1>3

\* The deadline is clamped, whatever the averages are.
LEMMA TimeoutBounds ==
    ASSUME NEW n \in Networks
    PROVE  Timeout(n) \in TimeoutMin .. TimeoutMax
<1>1. Estimate(n) \in Int
  BY ConfigAssumption DEF ConfigAssumption, Estimate, Networks, NoRtt
<1> QED BY <1>1, ConfigAssumption DEF ConfigAssumption, Timeout
================================================================================
