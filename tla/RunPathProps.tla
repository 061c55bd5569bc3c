---------------------------- MODULE RunPathProps ----------------------------
(***************************************************************************)
(* The splits follow the levels: a run consumes the same segments whatever *)
(* the umbrellas, the shortcut, the dimensions and the lost reads do       *)
(* (docs/specs/level-crossings.md).                                        *)
(***************************************************************************)
EXTENDS RunPath

\* The splits file is in step with the run: when the level confirmed is the
\* one of the player, and an end was not missed, the timer is on the segment
\* the moves of the player lead to, a skip standing for a level flown over.
\* A splits file with too few segments for the run ends or caps the timer.
SegmentsInStep ==
  timer.phase = "Running" /\ due < SEGMENTS /\ Known /\ (over => finished) =>
    timer.segment = due

\* No read, torn, lost or repeated, closes a segment the player did not
\* close: the timer never gets ahead of the run.
NeverAhead == timer.segment <= due

\* A full list of commands would drop one silently: it never fills.
NoCommandIsDropped == C!CommandsOf(actions) = C!Wanted(actions)

\* Once the reads are no longer lost, the policy finds out where the player
\* is, and keeps it: no level the memory shows for a moment, and no return
\* from a dimension, leaves the route behind for good.
FindsThePlayer == <>[][~ ReadNothing]_vars => <>[]Known

=============================================================================
