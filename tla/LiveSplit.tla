----------------------------- MODULE LiveSplit ------------------------------
(***************************************************************************)
(* The LiveSplit timer, as the code that drives it relies on it: it is not *)
(* part of the repository.  A command the timer cannot take in its phase   *)
(* does nothing.                                                           *)
(***************************************************************************)
EXTENDS Integers

CONSTANT SEGMENTS   \* the segments of the runner's splits file

\* segment is the segment being run, and paused says that the game clock does
\* not run on its own.
Timer ==
  [phase : {"NotRunning", "Running", "Ended"}, segment : 0..SEGMENTS,
   gameTime : Int, paused : BOOLEAN]

Stopped ==
  [phase |-> "NotRunning", segment |-> 0, gameTime |-> 0, paused |-> FALSE]

Start(t) ==
  IF t.phase = "NotRunning" THEN [Stopped EXCEPT !.phase = "Running"] ELSE t

Split(t) ==
  IF t.phase = "Running"
  THEN [t EXCEPT
         !.segment = t.segment + 1,
         !.phase = IF t.segment + 1 = SEGMENTS THEN "Ended" ELSE @]
  ELSE t

\* The last segment cannot be skipped.
SkipSplit(t) ==
  IF t.phase = "Running" /\ t.segment + 1 < SEGMENTS
  THEN [t EXCEPT !.segment = t.segment + 1]
  ELSE t

\* That many skips in a row.
SkipSplits(t, n) ==
  IF t.phase = "Running" /\ t.segment + 1 < SEGMENTS
  THEN [t EXCEPT
         !.segment = IF t.segment + n < SEGMENTS
                     THEN t.segment + n
                     ELSE SEGMENTS - 1]
  ELSE t

PauseGameTime(t) ==
  IF t.phase = "NotRunning" THEN t ELSE [t EXCEPT !.paused = TRUE]

SetGameTime(t, ms) ==
  IF t.phase = "NotRunning" THEN t ELSE [t EXCEPT !.gameTime = ms]

=============================================================================
