----------------------------- MODULE MCRunPath ------------------------------
(***************************************************************************)
(* A run through a short adventure with the shortcut of the real one.      *)
(***************************************************************************)
EXTENDS RunPathProps, SequencesExt

MCWorld == {"adventure", "deepnight"}

\* The reads of a run come from its memory, not from this set.
MCReads == {}

-----------------------------------------------------------------------------
(* The commands of a tick sent one by one, as send of src/lib.rs does       *)

Send(t, command) ==
  CASE command.name = "Reset" -> C!Timer!Stopped
    [] command.name = "Start" -> C!Timer!Start(t)
    [] command.name = "Split" -> C!Timer!Split(t)
    [] command.name = "SkipSplit" -> C!Timer!SkipSplit(t)
    [] command.name = "PauseGameTime" -> C!Timer!PauseGameTime(t)
    [] command.name = "SetGameTime" -> C!Timer!SetGameTime(t, command.ms)

SmallTimers ==
  [phase : {"NotRunning", "Running", "Ended"}, segment : 0..SEGMENTS,
   gameTime : {0, 7}, paused : BOOLEAN]

\* Enough skips to fill the list before the time, and in the middle of it.
SmallActions ==
  [reset : BOOLEAN, start : BOOLEAN, split : BOOLEAN, skips : 0..(MAX + 1),
   time : {None, 3}]

\* Apply is the loop over the list, whatever the list and the timer are.
ASSUME ApplyIsTheLoop ==
  \A t \in SmallTimers, a \in SmallActions :
    C!Apply(t, a) = FoldLeft(Send, t, C!CommandsOf(a))

=============================================================================
