--------------------------- MODULE MCTargetEngine ---------------------------
(* A small instance of the target's engine for TLC. *)
EXTENDS TargetEngine

CONSTANTS k1, k2, b1

\* States that differ only in values the engine will not read again are one: while
\* it is paused it overwrites seq and lastHeartbeat before it looks at them, and the
\* history variables of an epoch end with it.
LiveState ==
    <<clock, connected, timing, route, epoch, lastEpoch, os, faulty, queue, pc, popped,
      overloaded, lifecycle, epochs, told, crossed,
      IF epoch = 0 THEN <<>> ELSE <<seq, lastHeartbeat, proof, renewed>>>>
=============================================================================
