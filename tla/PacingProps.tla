---------------------------- MODULE PacingProps -----------------------------
(***************************************************************************)
(* What the pacing promises the player and the machine                     *)
(* (docs/specs/resolution-pacing.md).                                      *)
(***************************************************************************)
EXTENDS Pacing

CountersOK ==
  /\ wait \in 0..MAX_WAIT
  /\ next_wait \in MIN_WAIT..MAX_WAIT
  /\ heap \in Nat
  /\ loading \in 0..LOADING_WINDOW
  /\ refused \in Nat
  /\ bought \in {0} \cup MIN_WAIT..MAX_WAIT
  /\ spacing \in {0, LOADING_WAIT, bought}

FlagsOK == holds_a_game \in BOOLEAN /\ game \in BOOLEAN

\* The fields of the struct Pacing keep their bounds.
PacingTypeOK == CountersOK /\ FlagsOK

\* The pacing and the loop agree on what is held: the pacing learns of every
\* game and of every loss, by whichever path the loop came to it.
HoldsWhatTheLoopHolds == holds_a_game = game

\* The loop is never silent for longer than the ceiling on the wait.
SilenceIsBounded == refused + wait <= MAX_WAIT

\* The wait that is left covers what the last failure still owes: what
\* SilenceIsBounded and ScansAreSpaced rest on, at every turn.
DebtIsCovered == spacing <= refused + wait

\* The next failure will set the wait that the spec says it buys: what
\* ScansAreSpaced rests on from one failure to the next.
LadderIsKept == next_wait = Buys(bought)

\* Failures are spaced, and further apart each time: a scan that follows a
\* failed one comes after the wait the spec says that failure buys, short in
\* a loading window, else twice the last one up to the ceiling, unless the
\* heap has grown or a game was lost.
ScansAreSpaced ==
  [][\A size \in Heaps :
       Scan(size) /\ ~ Grown(size) => refused >= spacing]_pacing_vars

\* A game lost scans at once: the turn after it never waits.
LossScansAtOnce == [][game /\ ~ game' => wait' = 0]_pacing_vars

\* The search never gives up: while no game is held, scans follow each other.
KeepsLooking == []<>(game \/ refused = 0)

=============================================================================
