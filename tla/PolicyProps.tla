---------------------------- MODULE PolicyProps -----------------------------
(***************************************************************************)
(* What the policy guarantees whatever the game and the timer say: the     *)
(* properties of the open state machine Policy.                            *)
(***************************************************************************)
EXTENDS Policy

\* Every variable of the policy has its type (the struct Policy, the struct
\* Actions).  The counters stop just above their thresholds.
TypeOK ==
  /\ prev \in Optional(Int)
  /\ seen \in Optional(Sight)
  /\ route \in Routes
  /\ sawNoGame \in BOOLEAN
  /\ launched \in BOOLEAN
  /\ origin \in Optional(Int)
  /\ durationSeen \in Int
  /\ hadGame \in BOOLEAN
  /\ lost \in 0..(LOST_BEFORE_RESET + 1)
  /\ heartbeat \in Int
  /\ frozen \in 0..STALE_TICKS
  /\ finished \in BOOLEAN
  /\ finishTime \in Optional(Int)
  /\ actions \in Actions

\* The timer never gets a split in the tick that restarts or resets it, and
\* a tick skips a segment only behind a split, at most as many as a warp
\* zone flies over: what the list of commands of one tick relies on.
OneStory ==
  /\ actions.split => ~ actions.reset /\ ~ actions.start
  /\ actions.skips > 0 => actions.split
  /\ actions.skips < WARP_REACH

\* A game declared dead leaves nothing behind: as long as its frameTimer is
\* the last one seen, there is no origin, no clock and no level to act from,
\* and no tick publishes a time or touches the timer, except the reset of a
\* game over or of a game that stays lost.
DeadGamesAreForgotten ==
  frozen = STALE_TICKS =>
    /\ prev = None /\ seen = None /\ origin = None
    /\ actions.time = None
    /\ ~ actions.start /\ ~ actions.split

\* The date of the end exists only for a finished run, and then it is the
\* only time that is published.
FinishIsTheLastTime ==
  finishTime # None =>
    /\ finished
    /\ actions.time \in {None, finishTime}

\* Losing a game resets at most once per loss: after the reset, no tick
\* without a game resets again until a game is read.
OneResetPerLoss ==
  [][lost >= LOST_BEFORE_RESET /\ lost' # 0 => ~ actions'.reset]_policyVars

\* The policy keeps the promise of FinishLine: once finished, a run is not
\* reset, not split, not restarted, and its time stands still, until another
\* one is dated (game over and the loss of the plugin both come later).
Finish == INSTANCE FinishLine WITH
  over <- finished,
  mark <- finishTime,
  out <- [reset |-> actions.reset, start |-> actions.start,
          split |-> actions.split, time |-> actions.time]

KeepsTheFinish == Finish!Spec

=============================================================================
