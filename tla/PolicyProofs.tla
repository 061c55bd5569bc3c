---------------------------- MODULE PolicyProofs ----------------------------
(***************************************************************************)
(* The policy keeps its promises whatever the game and the timer say, for  *)
(* every set of worlds, every threshold and every set of reads: the types  *)
(* of its variables, the orders of one tick that tell one story, a dead    *)
(* game that is forgotten, and a finished run that stays as it ended, the  *)
(* promise of FinishLine.  The lemmas on one tick speak of any state of    *)
(* the game, for the modules where the policy runs in a larger system.     *)
(***************************************************************************)
EXTENDS PolicyProps, TLAPS

-----------------------------------------------------------------------------
(* What the operators on routes return *)

\* None is not a number, and not a level.
LEMMA NoneIsApart == None \notin Int /\ None \notin Level
BY NoneAssumption

LEMMA NewRouteType == NewRoute \in Routes
BY DEF NewRoute, Routes, Optional

\* The route stays a route, whatever level the player is read on.
LEMMA EnterType ==
  ASSUME NEW r \in Routes, NEW level \in Level
  PROVE  Enter(r, level) \in Routes
<1>1. /\ r.here \in Optional(Level)
      /\ r.left \in [World -> Optional(Int)]
  BY DEF Routes
<1>2. CASE ShowsTheLevelLeft(r, level)
  BY <1>2 DEF Enter
<1>3. CASE ~ ShowsTheLevelLeft(r, level)
  <2> DEFINE left == IF ChangesWorld(r, level)
                     THEN [r.left EXCEPT ![r.here.world] = r.here.id]
                     ELSE r.left
  <2>1. left \in [World -> Optional(Int)]
    <3>1. CASE ChangesWorld(r, level)
      <4>1. r.here \in Level
        BY <1>1, <3>1 DEF ChangesWorld, Elsewhere, Optional
      <4>2. r.here.world \in World /\ r.here.id \in Optional(Int)
        BY <4>1 DEF Level, Optional
      <4> QED
        BY <1>1, <3>1, <4>2
    <3>2. CASE ~ ChangesWorld(r, level)
      BY <1>1, <3>2
    <3> QED
      BY <3>1, <3>2
  <2>2. level \in Optional(Level)
    BY DEF Optional
  <2> HIDE DEF left
  <2>3. [here |-> level, left |-> left] \in Routes
    BY <2>1, <2>2 DEF Routes
  <2>4. Enter(r, level) = [here |-> level, left |-> left]
    BY <1>3 DEF Enter, left
  <2> QED
    BY <2>3, <2>4
<1> QED
  BY <1>2, <1>3

\* A move of one level or more skips less than a warp zone moves by: the u8
\* never wraps around.
LEMMA SkipsAfterBound ==
  ASSUME NEW jump \in Int, jump >= 1
  PROVE  SkipsAfter(jump) \in 0..(WARP_REACH - 1)
<1>1. WARP_REACH \in 1..256
  BY WarpReachAssumption
<1>2. CASE jump <= WARP_REACH
  <2>1. jump - 1 \in 0..255
    BY <1>1, <1>2
  <2>2. (jump - 1) % 256 = jump - 1
    BY <2>1
  <2> QED
    BY <1>1, <1>2, <2>2 DEF SkipsAfter
<1>3. CASE ~ (jump <= WARP_REACH)
  BY <1>1, <1>3 DEF SkipsAfter
<1> QED
  BY <1>2, <1>3

\* A read skips less than a warp zone moves by.
LEMMA SkipsBound ==
  ASSUME NEW r \in Routes, NEW level \in Level
  PROVE  Skips(r, level) \in 0..(WARP_REACH - 1)
<1>1. CASE GoesForward(r, level)
  <2>1. r.here \in Level
    BY <1>1 DEF GoesForward, Routes, Optional
  <2>2. level.id - r.here.id \in Int /\ level.id - r.here.id >= 1
    BY <1>1, <2>1 DEF GoesForward, Level
  <2> QED
    BY <1>1, <2>2, SkipsAfterBound DEF Skips
<1>2. CASE ~ GoesForward(r, level)
  BY <1>2, WarpReachAssumption DEF Skips
<1> QED
  BY <1>1, <1>2

-----------------------------------------------------------------------------
(* What the operators on one read return *)

LEMMA ReadType ==
  ASSUME NEW now \in State
  PROVE  /\ now.level \in Level
         /\ now.chrono \in Int /\ now.frame \in Int
         /\ now.gameOver \in BOOLEAN /\ now.locked \in BOOLEAN
         /\ now.duration \in Int /\ now.remaining \in Nat
BY DEF State

LEMMA NothingType == Nothing \in Actions
BY DEF Nothing, Actions, Optional

LEMMA ActionsType ==
  ASSUME NEW reset \in BOOLEAN, NEW start \in BOOLEAN, NEW split \in BOOLEAN,
         NEW skips \in Nat, NEW drop \in BOOLEAN, NEW time \in Optional(Int)
  PROVE  [reset |-> reset, start |-> start, split |-> split, skips |-> skips,
          drop |-> drop, time |-> time] \in Actions
BY DEF Actions

LEMMA FrozenType ==
  ASSUME NEW now \in State, frozen \in 0..STALE_TICKS
  PROVE  Frozen(now) \in 0..STALE_TICKS
BY ThresholdAssumption DEF Frozen

LEMMA SinceTheElevatorType ==
  ASSUME NEW now \in State
  PROVE  SinceTheElevator(now) \in Int
BY ReadType, ThresholdAssumption DEF SinceTheElevator

LEMMA NextOriginType ==
  ASSUME NEW now \in State, origin \in Optional(Int)
  PROVE  NextOrigin(now) \in Optional(Int)
BY ReadType DEF NextOrigin, KeptOrigin, Optional

LEMMA RealTimeType ==
  ASSUME NEW now \in State, origin \in Optional(Int)
  PROVE  RealTime(now) \in Optional(Int)
BY ReadType, NextOriginType DEF RealTime, Optional

LEMMA NextFinishTimeType ==
  ASSUME NEW now \in State, origin \in Optional(Int),
         finishTime \in Optional(Int)
  PROVE  NextFinishTime(now) \in Optional(Int)
BY RealTimeType, SinceTheElevatorType DEF NextFinishTime, Optional

LEMMA PublishedTimeType ==
  ASSUME NEW now \in State, origin \in Optional(Int),
         finishTime \in Optional(Int)
  PROVE  PublishedTime(now) \in Optional(Int)
BY RealTimeType, NextFinishTimeType DEF PublishedTime

LEMMA KeptRouteType ==
  ASSUME NEW now \in State, route \in Routes
  PROVE  KeptRoute(now) \in Routes
BY NewRouteType DEF KeptRoute

-----------------------------------------------------------------------------
(* What one tick orders *)

LEMMA OrderedType ==
  ASSUME NEW timer \in TimerStates, NEW now \in State, TypeOK
  PROVE  Ordered(timer, now) \in Actions
<1> DEFINE
      reset == \/ RestartsEnded(timer, now)
               \/ Rewinds(timer, now) /\ timer = "Running"
      start == \/ Dates(now) /\ NowLaunched /\ timer = "NotRunning"
               \/ RestartsEnded(timer, now)
               \/ Rewinds(timer, now)
      split == \/ Finishes(now) /\ timer = "Running"
               \/ Splits(timer, now)
      skips == IF Splits(timer, now)
               THEN Skips(KeptRoute(now), now.level)
               ELSE 0
<1>1. reset \in BOOLEAN /\ start \in BOOLEAN /\ split \in BOOLEAN
  OBVIOUS
<1>2. skips \in Nat
  <2>1. KeptRoute(now) \in Routes
    BY KeptRouteType DEF TypeOK
  <2>2. Skips(KeptRoute(now), now.level) \in 0..(WARP_REACH - 1)
    BY <2>1, ReadType, SkipsBound
  <2> QED
    BY <2>2, WarpReachAssumption
<1>3. PublishedTime(now) \in Optional(Int)
  BY PublishedTimeType DEF TypeOK
<1> HIDE DEF reset, start, split, skips
<1>4. [reset |-> reset, start |-> start, split |-> split, skips |-> skips,
       drop |-> FALSE, time |-> PublishedTime(now)] \in Actions
  BY <1>1, <1>2, <1>3, ActionsType
<1> QED
  BY <1>4 DEF Ordered, reset, start, split, skips

LEMMA OnlyADropType ==
  ASSUME NEW reset \in BOOLEAN
  PROVE  /\ [Nothing EXCEPT !.drop = TRUE] \in Actions
         /\ [Nothing EXCEPT !.drop = TRUE, !.reset = reset] \in Actions
BY DEF Nothing, Actions, Optional

-----------------------------------------------------------------------------
(* Types *)

LEMMA InitType == Init => TypeOK
<1> SUFFICES ASSUME Init PROVE TypeOK
  OBVIOUS
<1>1. /\ prev \in Optional(Int) /\ seen \in Optional(Sight)
      /\ origin \in Optional(Int) /\ finishTime \in Optional(Int)
  BY DEF Init, Optional
<1>2. /\ sawNoGame \in BOOLEAN /\ launched \in BOOLEAN
      /\ hadGame \in BOOLEAN /\ finished \in BOOLEAN
  BY DEF Init
<1>3. /\ durationSeen \in Int /\ heartbeat \in Int
      /\ lost \in 0..(LOST_BEFORE_RESET + 1) /\ frozen \in 0..STALE_TICKS
  BY ThresholdAssumption DEF Init
<1>4. route \in Routes /\ actions \in Actions
  BY NewRouteType, NothingType DEF Init
<1> QED
  BY <1>1, <1>2, <1>3, <1>4 DEF TypeOK

LEMMA NoGameType ==
  ASSUME NEW timer, TypeOK, NoGame(timer)
  PROVE  TypeOK'
<1>1. lost' \in 0..(LOST_BEFORE_RESET + 1)
  BY ThresholdAssumption DEF TypeOK, NoGame, CountTo
<1>2. seen' \in Optional(Sight) /\ sawNoGame' \in BOOLEAN
  BY DEF NoGame, Optional
<1>3. actions' \in Actions
  <2>1. Abandons(timer) \in BOOLEAN
    BY DEF Abandons, Unfinished
  <2>2. [Nothing EXCEPT !.drop = TRUE, !.reset = Abandons(timer)] \in Actions
    BY <2>1, OnlyADropType
  <2> QED
    BY <2>2 DEF NoGame
<1>4. UNCHANGED <<prev, route, launched, origin, durationSeen, hadGame,
                  heartbeat, frozen, finished, finishTime>>
  BY DEF NoGame, SurvivesALostRead, beat, outcome
<1> QED
  BY <1>1, <1>2, <1>3, <1>4 DEF TypeOK

\* A game that is forgotten leaves well-typed variables behind.
LEMMA ForgetType ==
  ASSUME Forget, GameIsRead
  PROVE  /\ prev' \in Optional(Int) /\ seen' \in Optional(Sight)
         /\ route' \in Routes /\ origin' \in Optional(Int)
         /\ sawNoGame' \in BOOLEAN /\ launched' \in BOOLEAN
         /\ hadGame' \in BOOLEAN /\ durationSeen' \in Int
         /\ lost' \in 0..(LOST_BEFORE_RESET + 1)
<1>1. /\ prev' \in Optional(Int) /\ seen' \in Optional(Sight)
      /\ origin' \in Optional(Int)
  BY DEF Forget, Optional
<1>2. /\ sawNoGame' \in BOOLEAN /\ launched' \in BOOLEAN
      /\ hadGame' \in BOOLEAN
  BY DEF Forget, GameIsRead
<1>3. durationSeen' \in Int /\ lost' \in 0..(LOST_BEFORE_RESET + 1)
  BY ThresholdAssumption DEF Forget, GameIsRead
<1>4. route' \in Routes
  BY NewRouteType DEF Forget
<1> QED
  BY <1>1, <1>2, <1>3, <1>4

LEMMA GameOverType ==
  ASSUME NEW timer, NEW now, TypeOK, GameOver(timer, now)
  PROVE  TypeOK'
<1>1. actions' \in Actions
  <2>1. Unfinished(timer) \in BOOLEAN
    BY DEF Unfinished
  <2>2. [Nothing EXCEPT !.drop = TRUE, !.reset = Unfinished(timer)] \in Actions
    BY <2>1, OnlyADropType
  <2> QED
    BY <2>2 DEF GameOver
<1>2. UNCHANGED <<heartbeat, frozen, finished, finishTime>>
  BY DEF GameOver, beat, outcome
<1> QED
  BY <1>1, <1>2, ForgetType DEF TypeOK, GameOver

LEMMA StaleType ==
  ASSUME NEW now \in State, TypeOK, Stale(now)
  PROVE  TypeOK'
<1>1. frozen' \in 0..STALE_TICKS
  BY FrozenType DEF TypeOK, Stale
<1>2. actions' \in Actions
  BY OnlyADropType DEF Stale
<1>3. UNCHANGED <<heartbeat, finished, finishTime>>
  BY DEF Stale, outcome
<1> QED
  BY <1>1, <1>2, <1>3, ForgetType DEF TypeOK, Stale

LEMMA PlayType ==
  ASSUME NEW timer \in TimerStates, NEW now \in State,
         TypeOK, Play(timer, now)
  PROVE  TypeOK'
<1>1. /\ origin' \in Optional(Int) /\ finishTime' \in Optional(Int)
  BY NextOriginType, NextFinishTimeType DEF TypeOK, Play
<1>2. prev' \in Optional(Int)
  BY ReadType DEF TypeOK, Play, Optional
<1>3. seen' \in Optional(Sight)
  <2>1. [level |-> now.level, started |-> Started(now)] \in Sight
    <3>1. Started(now) \in BOOLEAN
      BY DEF Started
    <3> QED
      BY <3>1, ReadType DEF Sight
  <2> QED
    BY <2>1 DEF Play, Optional
<1>4. route' \in Routes
  BY KeptRouteType, EnterType, ReadType DEF TypeOK, Play
<1>5. /\ sawNoGame' \in BOOLEAN /\ launched' \in BOOLEAN
      /\ hadGame' \in BOOLEAN /\ finished' \in BOOLEAN
  BY DEF Play, GameIsRead, NowLaunched, NowFinished
<1>6. /\ durationSeen' \in Int /\ heartbeat' \in Int
      /\ lost' \in 0..(LOST_BEFORE_RESET + 1)
  BY ReadType, ThresholdAssumption DEF Play, GameIsRead
<1>7. frozen' \in 0..STALE_TICKS
  BY FrozenType DEF TypeOK, Play
<1>8. actions' \in Actions
  BY OrderedType DEF Play
<1> QED
  BY <1>1, <1>2, <1>3, <1>4, <1>5, <1>6, <1>7, <1>8 DEF TypeOK

\* One call of tick keeps the types, whatever was read.
LEMMA TickType ==
  ASSUME NEW timer \in TimerStates, NEW read \in Optional(State),
         TypeOK, Tick(timer, read)
  PROVE  TypeOK'
BY NoGameType, GameOverType, StaleType, PlayType
   DEF Tick, Read, Optional

LEMMA NextType == TypeOK /\ [Next]_policyVars => TypeOK'
<1> SUFFICES ASSUME TypeOK, [Next]_policyVars PROVE TypeOK'
  OBVIOUS
<1>1. CASE UNCHANGED policyVars
  BY <1>1 DEF policyVars, beat, outcome, TypeOK
<1>2. CASE Next
  BY <1>2, ReadsAssumption, NoGameType, GameOverType, StaleType, PlayType
     DEF Next
<1> QED
  BY <1>1, <1>2

\* Every variable of the policy keeps its type, and the counters their
\* bounds, whatever is read.
THEOREM TypeCorrect == Spec => []TypeOK
BY InitType, NextType, PTL DEF Spec

-----------------------------------------------------------------------------
(* The orders, the dead games and the finish *)

Safe == OneStory /\ DeadGamesAreForgotten /\ FinishIsTheLastTime

-----------------------------------------------------------------------------
(* The orders of one tick *)

\* A tick that splits does not restart: the elevator makes the run finished,
\* and a crossing splits only where decide did not restart.
LEMMA SplitsAlone ==
  ASSUME NEW timer, NEW now, Ordered(timer, now).split
  PROVE  ~ Ordered(timer, now).reset /\ ~ Ordered(timer, now).start
<1>1. \/ Finishes(now) /\ timer = "Running"
      \/ Splits(timer, now)
  BY DEF Ordered
<1>2. ~ RestartsEnded(timer, now) /\ ~ Rewinds(timer, now)
  BY <1>1 DEF Splits, RestartsEnded, Rewinds, Decides, NowFinished
<1>3. timer = "Running"
  BY <1>1 DEF Splits
<1> QED
  BY <1>2, <1>3 DEF Ordered

LEMMA OrderedTellsOneStory ==
  ASSUME NEW timer \in TimerStates, NEW now \in State, TypeOK,
         actions' = Ordered(timer, now)
  PROVE  OneStory'
<1>1. actions'.split => ~ actions'.reset /\ ~ actions'.start
  BY SplitsAlone
<1>2. actions'.skips > 0 => actions'.split
  BY DEF Ordered
<1>3. actions'.skips < WARP_REACH
  <2>1. Skips(KeptRoute(now), now.level) \in 0..(WARP_REACH - 1)
    BY KeptRouteType, ReadType, SkipsBound DEF TypeOK
  <2> QED
    BY <2>1, WarpReachAssumption DEF Ordered
<1> QED
  BY <1>1, <1>2, <1>3 DEF OneStory

\* A tick that stops early orders no split.
LEMMA NoSplitOneStory ==
  ASSUME ~ actions'.split, actions'.skips = 0
  PROVE  OneStory'
BY WarpReachAssumption DEF OneStory

\* One call of tick tells one story, whatever was read.
LEMMA TickOneStory ==
  ASSUME NEW timer \in TimerStates, NEW read \in Optional(State),
         TypeOK, Tick(timer, read)
  PROVE  OneStory'
<1>1. CASE NoGame(timer)
  BY <1>1, NoSplitOneStory DEF NoGame, Nothing
<1>2. CASE read \in State /\ GameOver(timer, read)
  BY <1>2, NoSplitOneStory DEF GameOver, Nothing
<1>3. CASE read \in State /\ Stale(read)
  BY <1>3, NoSplitOneStory DEF Stale, Nothing
<1>4. CASE read \in State /\ Play(timer, read)
  BY <1>4, OrderedTellsOneStory DEF Play
<1> QED
  BY <1>1, <1>2, <1>3, <1>4 DEF Tick, Read, Optional

LEMMA NextOneStory == TypeOK /\ OneStory /\ [Next]_policyVars => OneStory'
<1> SUFFICES ASSUME TypeOK, OneStory, [Next]_policyVars PROVE OneStory'
  OBVIOUS
<1>1. ASSUME NEW timer \in TimerStates, NoGame(timer) PROVE OneStory'
  BY <1>1, NoSplitOneStory DEF NoGame, Nothing
<1>2. ASSUME NEW timer \in TimerStates, NEW now \in State, GameOver(timer, now)
      PROVE OneStory'
  BY <1>2, NoSplitOneStory DEF GameOver, Nothing
<1>3. ASSUME NEW now \in State, Stale(now) PROVE OneStory'
  BY <1>3, NoSplitOneStory DEF Stale, Nothing
<1>4. ASSUME NEW timer \in TimerStates, NEW now \in State, Play(timer, now)
      PROVE OneStory'
  BY <1>4, OrderedTellsOneStory DEF Play
<1>5. CASE UNCHANGED policyVars
  BY <1>5 DEF policyVars, OneStory
<1> QED
  BY <1>1, <1>2, <1>3, <1>4, <1>5, ReadsAssumption DEF Next

-----------------------------------------------------------------------------
(* A dead game, and the end of a run *)

LEMMA NextDeadGames ==
  TypeOK /\ DeadGamesAreForgotten /\ [Next]_policyVars
    => DeadGamesAreForgotten'
<1> SUFFICES ASSUME TypeOK, DeadGamesAreForgotten, [Next]_policyVars
             PROVE DeadGamesAreForgotten'
  OBVIOUS
<1>1. ASSUME NEW timer \in TimerStates, NoGame(timer)
      PROVE DeadGamesAreForgotten'
  BY <1>1 DEF NoGame, SurvivesALostRead, Nothing, beat, DeadGamesAreForgotten
<1>2. ASSUME NEW timer \in TimerStates, NEW now \in State, GameOver(timer, now)
      PROVE DeadGamesAreForgotten'
  BY <1>2 DEF GameOver, Forget, Nothing, DeadGamesAreForgotten
<1>3. ASSUME NEW now \in State, Stale(now) PROVE DeadGamesAreForgotten'
  BY <1>3 DEF Stale, Forget, Nothing, DeadGamesAreForgotten
<1>4. ASSUME NEW timer \in TimerStates, NEW now \in State, Play(timer, now)
      PROVE DeadGamesAreForgotten'
  <2>1. frozen' \in 0..STALE_TICKS /\ frozen' < STALE_TICKS
    BY <1>4, FrozenType DEF TypeOK, Play, Alive
  <2> QED
    BY <2>1, ThresholdAssumption DEF DeadGamesAreForgotten
<1>5. CASE UNCHANGED policyVars
  BY <1>5 DEF policyVars, beat, DeadGamesAreForgotten
<1> QED
  BY <1>1, <1>2, <1>3, <1>4, <1>5, ReadsAssumption DEF Next

\* A tick that goes to the end dates the end only of a finished run, and
\* then publishes nothing else.
LEMMA PlayPublishesTheFinish ==
  ASSUME NEW timer, NEW now, FinishIsTheLastTime, Play(timer, now),
         finishTime' # None
  PROVE  finished' /\ actions'.time = finishTime'
<1>1. finishTime' = NextFinishTime(now) /\ finished' = NowFinished(now)
  BY DEF Play
<1>2. NowFinished(now)
  BY <1>1 DEF NextFinishTime, NowFinished, StillFinished, FinishIsTheLastTime
<1>3. actions'.time = PublishedTime(now)
  BY DEF Play, Ordered
<1> QED
  BY <1>1, <1>2, <1>3 DEF PublishedTime

LEMMA NextFinish ==
  FinishIsTheLastTime /\ [Next]_policyVars => FinishIsTheLastTime'
<1> SUFFICES ASSUME FinishIsTheLastTime, [Next]_policyVars
             PROVE FinishIsTheLastTime'
  OBVIOUS
<1>1. ASSUME NEW timer \in TimerStates, NoGame(timer)
      PROVE FinishIsTheLastTime'
  BY <1>1 DEF NoGame, Nothing, outcome, FinishIsTheLastTime
<1>2. ASSUME NEW timer \in TimerStates, NEW now \in State, GameOver(timer, now)
      PROVE FinishIsTheLastTime'
  BY <1>2 DEF GameOver, Nothing, outcome, FinishIsTheLastTime
<1>3. ASSUME NEW now \in State, Stale(now) PROVE FinishIsTheLastTime'
  BY <1>3 DEF Stale, Nothing, outcome, FinishIsTheLastTime
<1>4. ASSUME NEW timer \in TimerStates, NEW now \in State, Play(timer, now)
      PROVE FinishIsTheLastTime'
  BY <1>4, PlayPublishesTheFinish DEF FinishIsTheLastTime
<1>5. CASE UNCHANGED policyVars
  BY <1>5 DEF policyVars, outcome, FinishIsTheLastTime
<1> QED
  BY <1>1, <1>2, <1>3, <1>4, <1>5, ReadsAssumption DEF Next

LEMMA InitSafe == Init => Safe
<1> SUFFICES ASSUME Init PROVE Safe
  OBVIOUS
<1>1. OneStory
  BY WarpReachAssumption DEF Init, Nothing, OneStory
<1>2. DeadGamesAreForgotten
  BY ThresholdAssumption DEF Init, DeadGamesAreForgotten
<1>3. FinishIsTheLastTime
  BY DEF Init, FinishIsTheLastTime
<1> QED
  BY <1>1, <1>2, <1>3 DEF Safe

\* The orders of a tick never contradict each other, a dead game leaves
\* nothing behind, and the date of the end is the last time published.
THEOREM Safety == Spec => [](OneStory /\ DeadGamesAreForgotten /\ FinishIsTheLastTime)
<1>1. TypeOK /\ Safe /\ [Next]_policyVars => Safe'
  BY NextOneStory, NextDeadGames, NextFinish DEF Safe
<1>2. Spec => []Safe
  BY TypeCorrect, InitSafe, <1>1, PTL DEF Spec
<1>3. Safe => OneStory /\ DeadGamesAreForgotten /\ FinishIsTheLastTime
  BY DEF Safe
<1> QED
  BY <1>2, <1>3, PTL

\* A game that is dead or gone leaves nothing to act from (Policy::forget).
THEOREM DeadGamesTeachNothing == Spec => []DeadGamesAreForgotten
BY Safety, PTL

\* The date of the end of a run is the last time published for it.
THEOREM FinishIsLast == Spec => []FinishIsTheLastTime
BY Safety, PTL

\* After the reset of a game that stays lost, no tick resets again until a
\* game is read.
THEOREM ResetsOnce == Spec => OneResetPerLoss
<1>1. ASSUME TypeOK, [Next]_policyVars, lost >= LOST_BEFORE_RESET, lost' # 0,
             ~ UNCHANGED policyVars
      PROVE ~ actions'.reset
  <2>1. PICK timer \in TimerStates : NoGame(timer)
    BY <1>1 DEF Next, GameOver, Stale, Play, GameIsRead
  <2>2. ~ (lost + 1 = LOST_BEFORE_RESET)
    BY <1>1, ThresholdAssumption DEF TypeOK
  <2> QED
    BY <2>1, <2>2 DEF NoGame, Abandons, Nothing
<1>2. TypeOK /\ [Next]_policyVars =>
        [lost >= LOST_BEFORE_RESET /\ lost' # 0 => ~ actions'.reset]_policyVars
  BY <1>1
<1> QED
  BY <1>2, TypeCorrect, PTL DEF Spec, OneResetPerLoss

-----------------------------------------------------------------------------
(* The policy implements FinishLine: every tick is a step of the abstract  *)
(* specification, or leaves its three variables alone.                     *)

\* What is ordered, as FinishLine sees it.
out == [reset |-> actions.reset, start |-> actions.start,
        split |-> actions.split, time |-> actions.time]

LEMMA OutType == ASSUME TypeOK' PROVE out' \in Finish!Orders
<1>1. actions' \in Actions
  BY DEF TypeOK
<1> QED
  BY <1>1 DEF out, Actions, Finish!Orders, Optional

\* A tick that stops early does not touch the finish, and orders at most the
\* reset of a run that is not finished.
LEMMA EarlyTick ==
  ASSUME TypeOK', FinishIsTheLastTime,
         finished \in BOOLEAN,
         UNCHANGED <<finished, finishTime>>,
         ~ actions'.start, ~ actions'.split, actions'.time = None,
         finished => ~ actions'.reset
  PROVE  Finish!Next
<1>1. CASE finished
  BY <1>1, OutType DEF Finish!Next, Finish!Rest, Finish!Silent, out
<1>2. CASE ~ finished
  <2>1. finishTime = None
    BY <1>2 DEF FinishIsTheLastTime
  <2> QED
    BY <1>2, <2>1, OutType DEF Finish!Next, Finish!GoOn, out
<1> QED
  BY <1>1, <1>2

\* A read that dates a run publishes a time.
LEMMA DatedTime ==
  ASSUME NEW now \in State, Dates(now)
  PROVE  RealTime(now) \in Int /\ RealTime(now) # None
<1>1. now.frame \in Int /\ now.duration \in Int
  BY ReadType
<1>2. NextOrigin(now) \in Int
  BY <1>1 DEF NextOrigin
<1>3. NextOrigin(now) # None
  BY <1>2, NoneIsApart
<1> QED
  BY <1>1, <1>2, <1>3, NoneIsApart DEF RealTime

\* The read that notices the elevator publishes the time of the end.
LEMMA FinishingTime ==
  ASSUME NEW now \in State, TypeOK, Finishes(now)
  PROVE  PublishedTime(now) = NextFinishTime(now)
<1>1. CASE RealTime(now) = None
  BY <1>1 DEF PublishedTime, NextFinishTime
<1>2. CASE RealTime(now) # None
  <2>1. RealTime(now) \in Int
    BY <1>2, RealTimeType DEF TypeOK, Optional
  <2>2. NextFinishTime(now) = RealTime(now) - SinceTheElevator(now)
    BY <1>2 DEF NextFinishTime
  <2>3. NextFinishTime(now) # None
    BY <2>1, <2>2, SinceTheElevatorType, NoneIsApart
  <2> QED
    BY <2>3 DEF PublishedTime, NowFinished
<1> QED
  BY <1>1, <1>2

LEMMA PlayTick ==
  ASSUME NEW timer \in TimerStates, NEW now \in State,
         TypeOK, TypeOK', FinishIsTheLastTime, Play(timer, now)
  PROVE  Finish!Next
<1>1. /\ finished' = NowFinished(now)
      /\ finishTime' = NextFinishTime(now)
      /\ actions' = Ordered(timer, now)
      /\ actions'.time = PublishedTime(now)
  BY DEF Play, Ordered
<1>2. actions'.split => ~ actions'.reset /\ ~ actions'.start
  BY <1>1, SplitsAlone
<1>3. NowFinished(now) => ~ actions'.reset
  BY <1>1 DEF Ordered, RestartsEnded, Rewinds, Decides
<1>4. CASE ~ finished /\ ~ finished'
  <2>1. finishTime = None /\ ~ Finishes(now)
    BY <1>1, <1>4 DEF FinishIsTheLastTime, NowFinished
  <2>2. finishTime' = None
    BY <1>1, <2>1 DEF NextFinishTime
  <2> QED
    BY <1>2, <1>4, <2>2, OutType DEF Finish!Next, Finish!GoOn, out
<1>5. CASE ~ finished /\ finished'
  <2>1. Finishes(now)
    BY <1>1, <1>5 DEF NowFinished, StillFinished
  <2>2. actions'.time = finishTime' /\ ~ actions'.reset
    BY <1>1, <1>3, <1>5, <2>1, FinishingTime
  <2> QED
    BY <1>2, <1>5, <2>2, OutType DEF Finish!Next, Finish!Finish, out
<1>6. CASE finished /\ ~ finished'
  <2>1. Dates(now) /\ ~ Finishes(now)
    BY <1>1, <1>6 DEF NowFinished, StillFinished
  <2>2. finishTime' = None
    BY <1>1, <2>1 DEF NextFinishTime
  <2>3. actions'.time # None
    BY <1>1, <1>6, <2>1, DatedTime DEF PublishedTime
  <2> QED
    BY <1>2, <1>6, <2>2, <2>3, OutType DEF Finish!Next, Finish!NewRun, out
<1>7. CASE finished /\ finished' /\ Dates(now)
  <2>1. Finishes(now)
    BY <1>1, <1>7 DEF NowFinished, StillFinished
  <2>2. actions'.time = finishTime' /\ ~ actions'.reset
    BY <1>1, <1>3, <1>7, <2>1, FinishingTime
  <2>3. finishTime' # None
    <3>1. RealTime(now) \in Int /\ RealTime(now) # None
      BY <1>7, DatedTime
    <3>2. NextFinishTime(now) = RealTime(now) - SinceTheElevator(now)
      BY <2>1, <3>1 DEF NextFinishTime
    <3> QED
      BY <1>1, <3>1, <3>2, SinceTheElevatorType, NoneIsApart
  <2> QED
    BY <1>2, <1>7, <2>2, <2>3, OutType DEF Finish!Next, Finish!Overtake, out
<1>8. CASE finished /\ finished' /\ ~ Dates(now)
  <2>1. ~ Finishes(now)
    BY <1>8 DEF Finishes, StillFinished
  <2>2. finishTime' = finishTime
    BY <1>1, <1>8, <2>1 DEF NextFinishTime
  <2>3. ~ actions'.reset /\ ~ actions'.start /\ ~ actions'.split
    BY <1>1, <1>8, <2>1
       DEF Ordered, RestartsEnded, Rewinds, Splits, Decides
  <2>4. finishTime' # None => actions'.time = finishTime'
    BY PlayPublishesTheFinish
  <2> QED
    BY <1>8, <2>2, <2>3, <2>4, OutType
       DEF Finish!Next, Finish!Rest, Finish!Silent, out
<1> QED
  BY <1>4, <1>5, <1>6, <1>7, <1>8

\* The policy keeps the promise of FinishLine, for every game and timer.
THEOREM Refines == Spec => KeepsTheFinish
<1>1. Init => Finish!Init
  BY DEF Init, Nothing, Finish!Init
<1>2. TypeOK /\ TypeOK' /\ FinishIsTheLastTime /\ [Next]_policyVars
        => [Finish!Next]_(Finish!vars)
  <2> SUFFICES ASSUME TypeOK, TypeOK', FinishIsTheLastTime, [Next]_policyVars
               PROVE  Finish!Next \/ UNCHANGED Finish!vars
    OBVIOUS
  <2>1. finished \in BOOLEAN
    BY DEF TypeOK
  <2>2. ASSUME NEW timer \in TimerStates, NoGame(timer) PROVE Finish!Next
    BY <2>1, <2>2, EarlyTick DEF NoGame, Abandons, Unfinished, Nothing, outcome
  <2>3. ASSUME NEW timer \in TimerStates, NEW now \in State,
               GameOver(timer, now)
        PROVE  Finish!Next
    BY <2>1, <2>3, EarlyTick DEF GameOver, Unfinished, Nothing, outcome
  <2>4. ASSUME NEW now \in State, Stale(now) PROVE Finish!Next
    BY <2>1, <2>4, EarlyTick DEF Stale, Nothing, outcome
  <2>5. ASSUME NEW timer \in TimerStates, NEW now \in State, Play(timer, now)
        PROVE  Finish!Next
    BY <2>5, PlayTick
  <2>6. CASE UNCHANGED policyVars
    BY <2>6 DEF policyVars, outcome, Finish!vars
  <2> QED
    BY <2>2, <2>3, <2>4, <2>5, <2>6, ReadsAssumption DEF Next
<1>3. Spec => [](FinishIsTheLastTime)
  BY Safety, PTL
<1> QED
  BY <1>1, <1>2, <1>3, TypeCorrect, PTL DEF Spec, KeepsTheFinish, Finish!Spec

=============================================================================
