------------------------------- MODULE Policy -------------------------------
(***************************************************************************)
(* When to start, split, reset, or drop a resolution                       *)
(* (src/core/policy.rs and src/core/end_sequence.rs).                      *)
(*                                                                         *)
(* One step of this module is one call of Policy::tick.  Its inputs are    *)
(* the state of the timer and what the game says of itself, or None when   *)
(* no game could be read; its output is the variable actions.  Every early *)
(* return of tick is an action of its own: NoGame, GameOver, Stale, and    *)
(* Play for a tick that goes to the end.                                   *)
(*                                                                         *)
(* Of the previous states the code keeps, only what a decision reads is    *)
(* kept here: the clock of prev, the level and the end sequence of seen.   *)
(* The fields previous and dim of a read decide nothing and are left out.  *)
(***************************************************************************)
EXTENDS Levels

CONSTANTS
  FIRST_LEVEL,         \* the first level of an adventure
  STALE_TICKS,         \* ticks with one frameTimer before a game is dead
  LOST_BEFORE_RESET,   \* ticks without a read before a game is abandoned
  CLOCK_SLACK,         \* how far the game clock falls only for a new game
  FULL_MS,             \* the length of the end sequence
  MAX_CORRECTION_MS,   \* the largest date correction that is accepted
  Reads                \* what the game may say of itself

TimerStates == {"NotRunning", "Running", "Ended", "Unknown"}

\* What the game says of itself at one instant.
State ==
  [level : Level, chrono : Int, frame : Int, gameOver : BOOLEAN,
   locked : BOOLEAN, duration : Int, remaining : Nat]

Sight == [level : Level, started : BOOLEAN]

Actions ==
  [reset : BOOLEAN, start : BOOLEAN, split : BOOLEAN, skips : Nat,
   drop : BOOLEAN, time : Optional(Int)]

ASSUME ThresholdAssumption ==
  /\ FIRST_LEVEL \in Int
  /\ STALE_TICKS \in Nat \ {0}
  /\ LOST_BEFORE_RESET \in Nat \ {0}
  /\ CLOCK_SLACK \in Nat
  /\ FULL_MS \in Nat
  /\ MAX_CORRECTION_MS \in Nat
ASSUME ReadsAssumption == Reads \subseteq State
ASSUME NoSightAssumption == None \notin Sight /\ None \notin State

VARIABLES
  prev,           \* game clock of the last confirmed state
  seen,           \* the previous read, not confirmed yet
  route,          \* where the player is, and where they left each world
  sawNoGame,      \* was the absence of a game seen since the last one?
  launched,       \* was this game seen to start?
  origin,         \* origin of real time, on the clock of the player
  durationSeen,   \* the last duration read
  hadGame,        \* was a game ever read?
  lost,           \* ticks without a read, since the last one
  heartbeat,      \* the last frameTimer that was new
  frozen,         \* ticks since frameTimer last moved
  finished,       \* the player entered the elevator
  finishTime,     \* real time at that instant
  actions         \* what this tick orders

beat == <<heartbeat, frozen>>
outcome == <<finished, finishTime>>
policyVars ==
  <<prev, seen, route, sawNoGame, launched, origin, durationSeen, hadGame,
    lost, heartbeat, frozen, finished, finishTime, actions>>

Nothing ==
  [reset |-> FALSE, start |-> FALSE, split |-> FALSE, skips |-> 0,
   drop |-> FALSE, time |-> None]

Init ==
  /\ prev = None
  /\ seen = None
  /\ route = NewRoute
  /\ sawNoGame = FALSE
  /\ launched = FALSE
  /\ origin = None
  /\ durationSeen = 0
  /\ hadGame = FALSE
  /\ lost = 0
  /\ heartbeat = 0
  /\ frozen = 0
  /\ finished = FALSE
  /\ finishTime = None
  /\ actions = Nothing

-----------------------------------------------------------------------------
(* The end sequence *)

Started(now) == now.remaining > 0

\* Mutant: every gap is taken for a correction.
AnySinceTheElevator(now) == IF Started(now) THEN FULL_MS - now.remaining ELSE 0

\* A gap that is not plausible is not a correction.
SinceTheElevator(now) ==
  LET gap == FULL_MS - now.remaining
  IN  IF Started(now) /\ gap \in 0..MAX_CORRECTION_MS THEN gap ELSE 0

-----------------------------------------------------------------------------
(* The absence of a game, and the ends of one *)

\* Mutant: the counter does not stop.
CountFor(limit, count) == count + 1

\* A counter that is only compared with its threshold stops just above it.
CountTo(limit, count) == IF count > limit THEN count ELSE count + 1

\* Mutant: the end of a game resets a finished run too.
AnyRun(timer) == timer = "Running"

\* A run that goes on: the one that the end of a game resets.
Unfinished(timer) == timer = "Running" /\ ~ finished

\* Mutant: every tick from the threshold on.
AbandonsAgain(timer) ==
  hadGame /\ lost + 1 >= LOST_BEFORE_RESET /\ Unfinished(timer)

\* The tick on which a lost game counts as abandoned: this one and no other.
Abandons(timer) ==
  hadGame /\ lost + 1 = LOST_BEFORE_RESET /\ Unfinished(timer)

\* Mutant: a lost read forgets the clock.
ForgetsTheClock ==
  /\ prev' = None
  /\ UNCHANGED <<route, launched, origin, durationSeen>>

\* Mutant: a lost read forgets the route.
ForgetsTheRoute ==
  /\ route' = NewRoute
  /\ UNCHANGED <<prev, launched, origin, durationSeen>>

\* Mutant: a lost read forgets the origin.
ForgetsTheOrigin ==
  /\ origin' = None
  /\ UNCHANGED <<prev, route, launched, durationSeen>>

\* What a lost read leaves alone: a dimension entered through it must still
\* see the level it left, and a new game the clock of the last one.
SurvivesALostRead == UNCHANGED <<prev, route, launched, origin, durationSeen>>

\* No game could be read.
NoGame(timer) ==
  /\ sawNoGame' = TRUE
  /\ seen' = None
  /\ lost' = IF hadGame THEN CountTo(LOST_BEFORE_RESET, lost) ELSE lost
  /\ actions' = [Nothing EXCEPT !.drop = TRUE, !.reset = Abandons(timer)]
  /\ SurvivesALostRead
  /\ UNCHANGED <<hadGame, beat, outcome>>

\* Mutant: the origin outlives the game.
ForgetsAllButTheOrigin ==
  /\ prev' = None /\ seen' = None /\ route' = NewRoute
  /\ sawNoGame' = TRUE /\ launched' = FALSE /\ durationSeen' = 0
  /\ UNCHANGED origin

\* Forgets the game, but not that the run is finished, nor the heartbeat.
Forget ==
  /\ prev' = None
  /\ seen' = None
  /\ route' = NewRoute
  /\ sawNoGame' = TRUE
  /\ origin' = None
  /\ launched' = FALSE
  /\ durationSeen' = 0

GameIsRead ==
  /\ lost' = 0
  /\ hadGame' = TRUE

\* A finished run must survive its own end.
GameOver(timer, now) ==
  /\ now.gameOver
  /\ GameIsRead
  /\ Forget
  /\ actions' = [Nothing EXCEPT !.drop = TRUE, !.reset = Unfinished(timer)]
  /\ UNCHANGED <<beat, outcome>>

Beats(now) == now.frame # heartbeat

Frozen(now) ==
  IF Beats(now) THEN 0 ELSE IF frozen < STALE_TICKS THEN frozen + 1 ELSE frozen

Alive(now) == Frozen(now) < STALE_TICKS

\* frameTimer moves on every frame of a game that runs: this one is dead.
Stale(now) ==
  /\ ~ now.gameOver
  /\ ~ Alive(now)
  /\ GameIsRead
  /\ Forget
  /\ frozen' = Frozen(now)
  /\ actions' = [Nothing EXCEPT !.drop = TRUE]
  /\ UNCHANGED <<heartbeat, outcome>>

-----------------------------------------------------------------------------
(* A game that runs *)

\* Mutant: only the clock of the player tells a new game.
NewGameByFrame(now) == origin # None /\ now.frame < origin

\* Two counters fall only from one game to the next.
NewGame(now) ==
  \/ origin # None /\ now.frame < origin
  \/ now.duration < durationSeen

KeptOrigin(now) == IF NewGame(now) THEN None ELSE origin
KeptRoute(now) == IF NewGame(now) THEN NewRoute ELSE route

\* The official start: the first read of this game that is not locked.
Dates(now) == KeptOrigin(now) = None /\ ~ now.locked

\* Mutant: the game clock, which runs in the black screen, dates the run.
OriginOfTheGameClock(now) ==
  IF Dates(now) THEN now.frame - now.chrono ELSE KeptOrigin(now)

NextOrigin(now) ==
  IF Dates(now) THEN now.frame - now.duration ELSE KeptOrigin(now)

RealTime(now) ==
  IF NextOrigin(now) = None THEN None ELSE now.frame - NextOrigin(now)

\* Mutant: a game that appears is a new run.
StillFinishedHere(now) == finished /\ ~ Dates(now) /\ ~ sawNoGame

\* A new origin is a new run, whatever the last one ended as.
StillFinished(now) == finished /\ ~ Dates(now)

\* The rise of the end sequence, in the main world, ends the run.
Finishes(now) ==
  /\ Started(now)
  /\ now.level.world = Adventure
  /\ ~ StillFinished(now)
  /\ seen # None
  /\ ~ seen.started

\* Mutant: another run keeps the time of the last one.
OldFinishTime(now) ==
  IF Finishes(now)
  THEN IF RealTime(now) = None
       THEN None
       ELSE RealTime(now) - SinceTheElevator(now)
  ELSE finishTime

NextFinishTime(now) ==
  IF Finishes(now)
  THEN IF RealTime(now) = None
       THEN None
       ELSE RealTime(now) - SinceTheElevator(now)
  ELSE IF Dates(now) THEN None ELSE finishTime

NowFinished(now) == StillFinished(now) \/ Finishes(now)

PublishedTime(now) ==
  IF NowFinished(now) /\ NextFinishTime(now) # None
  THEN NextFinishTime(now)
  ELSE RealTime(now)

\* Mutant: one read is enough.
ConfirmedAtOnce(now) == TRUE

\* The level was read twice in a row, in the same world.
Confirmed(now) == seen # None /\ seen.level = now.level

\* Mutant: a finished run decides like another.
DecidesAnyway(now) == Confirmed(now) /\ prev # None

\* decide acts on a confirmed level, of a run that is not finished, once
\* there is a confirmed state to compare it with.
Decides(now) == Confirmed(now) /\ ~ NowFinished(now) /\ prev # None

\* An ended timer is reset before it is started.
RestartsEnded(timer, now) ==
  Decides(now) /\ timer = "Ended" /\ now.level.id = FIRST_LEVEL

\* The game clock fell: another game started, and nobody saw it.
Rewinds(timer, now) ==
  /\ Decides(now)
  /\ ~ RestartsEnded(timer, now)
  /\ now.chrono + CLOCK_SLACK < prev

Splits(timer, now) ==
  /\ Decides(now)
  /\ ~ RestartsEnded(timer, now)
  /\ ~ Rewinds(timer, now)
  /\ timer = "Running"
  /\ Crosses(KeptRoute(now), now.level)

\* A game that appears where there was none was seen to start.
NowLaunched == launched \/ sawNoGame

\* What a tick that goes to the end orders.
Ordered(timer, now) ==
  [reset |-> \/ RestartsEnded(timer, now)
             \/ Rewinds(timer, now) /\ timer = "Running",
   start |-> \/ Dates(now) /\ NowLaunched /\ timer = "NotRunning"
             \/ RestartsEnded(timer, now)
             \/ Rewinds(timer, now),
   split |-> \/ Finishes(now) /\ timer = "Running"
             \/ Splits(timer, now),
   skips |-> IF Splits(timer, now) THEN Skips(KeptRoute(now), now.level) ELSE 0,
   drop |-> FALSE,
   time |-> PublishedTime(now)]

Play(timer, now) ==
  /\ ~ now.gameOver
  /\ Alive(now)
  /\ GameIsRead
  /\ sawNoGame' = FALSE
  /\ launched' = NowLaunched
  /\ heartbeat' = now.frame
  /\ frozen' = Frozen(now)
  /\ durationSeen' = now.duration
  /\ origin' = NextOrigin(now)
  /\ finished' = NowFinished(now)
  /\ finishTime' = NextFinishTime(now)
  /\ route' = IF Confirmed(now)
              THEN Enter(KeptRoute(now), now.level)
              ELSE KeptRoute(now)
  /\ prev' = IF Confirmed(now) THEN now.chrono ELSE prev
  /\ seen' = [level |-> now.level, started |-> Started(now)]
  /\ actions' = Ordered(timer, now)

-----------------------------------------------------------------------------

\* One call of tick on a game that was read.
Read(timer, now) == GameOver(timer, now) \/ Stale(now) \/ Play(timer, now)

Tick(timer, read) ==
  \/ read = None /\ NoGame(timer)
  \/ read # None /\ Read(timer, read)

Next ==
  \/ \E timer \in TimerStates : NoGame(timer)
  \/ \E timer \in TimerStates, now \in Reads : GameOver(timer, now)
  \/ \E now \in Reads : Stale(now)
  \/ \E timer \in TimerStates, now \in Reads : Play(timer, now)

Spec == Init /\ [][Next]_policyVars

=============================================================================
