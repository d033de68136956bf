--------------------------- MODULE MCCapturePolicy ---------------------------
(***************************************************************************)
(* A small instance of the capture policy for TLC: one key of each kind.   *)
(* F10 stays untouched: what F9 may do includes all that F10 does.         *)
(***************************************************************************)
EXTENDS CapturePolicy

CONSTANTS ctrl, alt, x, left

\* States that differ only in what no step reads again are one: an activation
\* overwrites what was ignored, only a key that is down repeats, and no property is
\* about the buttons that the desktop holds.
LiveState ==
    <<mode, releasing, keys, buttons, swallowed, pending, forwarded, local \cap Keys, remote,
      sent, history,
      IF last \in keys THEN last ELSE F9,
      IF active THEN <<ignored, ignoredButtons>> ELSE <<>>>>

\* The bound: behaviours go on while at most one key is an exception.
FewExceptions == Cardinality(refused \cup slipped) <= 1
==============================================================================
