--------------------------- MODULE MCNetworkTiming ---------------------------
(* Ticks of 20 ms: round trips from none to more than the absolute bound. *)
EXTENDS NetworkTimingSpec

RoundTrips == {0, 1, 7, 40, 75, 120, 149, 150, 151}
==============================================================================
