---------------------------- MODULE SessionProps ----------------------------
(***************************************************************************)
(* What a session guarantees: the time on the timer is the time of the     *)
(* game, and the run on the timer is the run of the game.                  *)
(***************************************************************************)
EXTENDS Session, PolicyProps

\* A timer that is started for a game is timed from that game, and not from
\* the origin of the one before: a restart by the game clock relies on it,
\* for a clock does not fall unless duration, or the clock of the player,
\* fell before it.  The clock must be the one of the game dated last: one
\* dated and quit before its level was read twice leaves an older clock
\* behind.  An ended timer is restarted whatever the clocks say.
StartsAreTimedFromTheirGame ==
  [][/\ runOf' # runOf /\ runOf' # 0
     /\ timer.phase # "Ended" /\ clockOf = originOf /\ origin' # None
     => originOf' = runOf']_vars

\* The published time is never ahead of the time since level 0 appeared,
\* whenever the game was found and whatever it had paused before.
TimeIsNeverAhead ==
  game # None /\ originOf = game.id /\ origin # None =>
    origin >= game.startedAt

\* A game is dated once: however often its object is lost and found again,
\* its origin never moves, and so its published time never goes backwards.
OneOriginPerGame ==
  [][origin' # None /\ originOf' = originOf => origin' = origin]_vars

\* The final time is the one of the elevator, whichever read notices it,
\* when the notice comes soon enough for the correction to be trusted, and
\* the one of the read otherwise.
FinishIsTheElevator ==
  [][finishTime' # finishTime /\ finishTime' # None
     /\ game # None /\ finishOf' = game.id /\ originOf' = game.id
       => finishTime' + origin' =
            IF game.frame - game.endedAt <= MAX_CORRECTION_MS
            THEN game.endedAt
            ELSE game.frame]_vars

\* A finished run stays finished until another game is dated.
FinishedUntilAnotherGame ==
  [][finished /\ ~ finished' => originOf' # finishOf]_vars

\* A read that confirms the level of a game seen to start, whose clock is
\* below the one of the last level confirmed by more than the slack.
MeetsAnotherGame ==
  /\ ReadGame /\ held = "game" /\ Confirmed(StateOf(game))
  /\ launched' /\ ~ finished' /\ originOf' = game.id
  /\ met > game.chrono + CLOCK_SLACK

GoesOnWithTheRun ==
  timer'.phase = "Running" /\ runOf' # 0 /\ runOf' # game.id

\* The segments of an unfinished run are not gone on with in the next game
\* (README.md:8: the timer starts when level 0 appears), whatever was lost,
\* found again, quit, reset by hand or read of a game that was left, unless
\* that game was declared dead in between: what it taught is forgotten then,
\* its clock too (see ANewGameIsNoRisk).
TheRunFollowsTheGame ==
  [][MeetsAnotherGame /\ ~ rested => ~ GoesOnWithTheRun]_vars

\* While a run goes on, the timer shows the time that was published last,
\* on a clock that does not run by itself.
TimerShowsTheTime ==
  timer.phase = "Running" /\ actions.time # None =>
    timer.gameTime = actions.time /\ timer.paused

-----------------------------------------------------------------------------
(* What the documents say of the code, and the code does not do *)

\* The game time is the correct one (README.md:22): the time published for a
\* game that runs counts from the origin of that game.
TheTimeIsOfTheGameRead ==
  /\ held = "game" /\ game.phase = "play"
  /\ actions.time # None /\ ~ finished
  => originOf = game.id

\* "A new game is no risk: its clock restarts from zero, and decide restarts
\* the run on that before it compares any level" (policy.rs:333-335).
ANewGameIsNoRisk == [][MeetsAnotherGame => ~ GoesOnWithTheRun]_vars

=============================================================================
