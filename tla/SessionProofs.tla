---------------------------- MODULE SessionProofs ---------------------------
(***************************************************************************)
(* The time and the run of a session, for any number of games, processes,  *)
(* frames and reads, and whatever the runner does.                         *)
(*                                                                         *)
(* The time needs SInv: types, what the anchor leads to, and how the       *)
(* clocks of one game agree.  The run needs FInv, which adds that a game   *)
(* is dated once and that its end is noticed in order; it is an invariant  *)
(* as long as no live game is taken for dead.                              *)
(***************************************************************************)
EXTENDS SessionProps, PolicyProofs

-----------------------------------------------------------------------------
(* The inductive invariant *)

Timers ==
  [phase : {"NotRunning", "Running", "Ended"}, segment : Int, gameTime : Int,
   paused : BOOLEAN]

Typed ==
  /\ TypeOK
  /\ clock \in Nat /\ games \in Nat
  /\ game \in Optional(Mode) /\ corpse \in Optional(Mode)
  /\ held \in {"game", "corpse", "none"} /\ anchor \in Nat
  /\ timer \in Timers
  /\ originOf \in Nat /\ runOf \in Nat /\ finishOf \in Nat
  /\ clockOf \in Nat /\ met \in Int

\* The object held is the one the anchor leads to.  The game that runs is the
\* last one launched, and nothing was learned of a game not found yet.
Anchored ==
  /\ held # "none" => Object(held) # None /\ Object(held).id = anchor
  /\ game # None => game.id = games /\ game.frame = clock
  /\ corpse # None => corpse.id <= games
  /\ corpse # None /\ game # None => corpse.id < games
  /\ anchor <= games
  /\ originOf <= anchor /\ finishOf <= anchor /\ clockOf <= anchor

\* How the clocks of one game agree.
Clocks(o) ==
  /\ o.duration <= o.chrono /\ o.chrono <= o.duration + BLACK + 1
  /\ o.startedAt + o.duration <= o.frame
  /\ o.phase = "black" =>
       /\ o.duration = 0 /\ o.startedAt = 0 /\ o.remaining = 0
       /\ o.chrono <= BLACK

\* What the policy has seen of a game whose object can still be read.
Learned(o) ==
  /\ o.id = anchor => durationSeen <= o.duration
  /\ o.id \in {originOf, finishOf} /\ origin # None => origin <= o.frame

\* The clock a restart compares with is near the last duration.
NearDuration == prev <= durationSeen + BLACK + 1

Dated ==
  /\ game # None => Clocks(game) /\ Learned(game)
  /\ corpse # None => Clocks(corpse) /\ Learned(corpse)
  /\ game # None /\ game.phase = "black" => originOf # game.id
  /\ TimeIsNeverAhead
  /\ prev # None /\ clockOf = anchor => NearDuration
  /\ prev # None /\ clockOf = originOf /\ origin # None => NearDuration

SInv == Typed /\ Anchored /\ Dated

-----------------------------------------------------------------------------
(* The timer *)

LEMMA TimerOps ==
  ASSUME NEW t \in Timers, NEW n \in Int
  PROVE  /\ C!Timer!Stopped \in Timers
         /\ C!Timer!Start(t) \in Timers /\ C!Timer!Split(t) \in Timers
         /\ C!Timer!SkipSplits(t, n) \in Timers
         /\ C!Timer!PauseGameTime(t) \in Timers
         /\ C!Timer!SetGameTime(t, n) \in Timers
<1>1. C!Timer!Stopped \in Timers
  BY DEF C!Timer!Stopped, Timers
<1>2. C!Timer!Start(t) \in Timers
  <2>1. [C!Timer!Stopped EXCEPT !.phase = "Running"] \in Timers
    BY <1>1 DEF Timers
  <2> QED
    BY <2>1 DEF C!Timer!Start
<1>3. C!Timer!Split(t) \in Timers
  <2> DEFINE next == [t EXCEPT !.segment = t.segment + 1]
  <2>1. next \in Timers
    BY DEF Timers
  <2>2. CASE t.phase = "Running"
    <3>1. C!Timer!Split(t) = [next EXCEPT
            !.phase = IF t.segment + 1 = SEGMENTS THEN "Ended" ELSE "Running"]
      BY <2>2 DEF C!Timer!Split, Timers
    <3> HIDE DEF next
    <3> QED
      BY <2>1, <3>1 DEF Timers
  <2>3. CASE t.phase # "Running"
    BY <2>3 DEF C!Timer!Split
  <2> QED
    BY <2>2, <2>3
<1>4. C!Timer!SkipSplits(t, n) \in Timers
  BY SessionAssumption DEF C!Timer!SkipSplits, Timers
<1>5. C!Timer!PauseGameTime(t) \in Timers
  BY DEF C!Timer!PauseGameTime, Timers
<1>6. C!Timer!SetGameTime(t, n) \in Timers
  BY DEF C!Timer!SetGameTime, Timers
<1> QED
  BY <1>1, <1>2, <1>3, <1>4, <1>5, <1>6

LEMMA LedType ==
  ASSUME NEW a \in Actions
  PROVE  C!Led(a) \in Nat
BY DEF C!Led, C!One, Actions

LEMMA AdvancedType ==
  ASSUME NEW t \in Timers, NEW a \in Actions
  PROVE  C!Advanced(C!Restarted(t, a), a) \in Timers
<1>1. C!Restarted(t, a) \in Timers
  BY TimerOps DEF C!Restarted
<1>2. C!Timer!Split(C!Restarted(t, a)) \in Timers
  BY <1>1, TimerOps
<1>3. C!Skipped(a) \in Int
  BY LedType, SessionAssumption DEF C!Skipped, Actions
<1> QED
  BY <1>1, <1>2, <1>3, TimerOps DEF C!Advanced

LEMMA ApplyType ==
  ASSUME NEW t \in Timers, NEW a \in Actions
  PROVE  C!Apply(t, a) \in Timers
<1> DEFINE u == C!Advanced(C!Restarted(t, a), a)
<1>1. u \in Timers /\ C!Timer!PauseGameTime(u) \in Timers
  BY AdvancedType, TimerOps
<1>2. a.time # None => a.time \in Int
  BY DEF Actions, Optional
<1> HIDE DEF u
<1>3. C!Timed(u, a) \in Timers
  BY <1>1, <1>2, TimerOps DEF C!Timed
<1> QED
  BY <1>3 DEF C!Apply, u

\* The time fits in the list behind all the commands of a tick that tells
\* one story, and it is set last.
LEMMA TheTimeIsSet ==
  ASSUME NEW t \in Timers, NEW a \in Actions,
         a.split => ~ a.reset /\ ~ a.start, a.skips < WARP_REACH,
         a.time # None, C!Apply(t, a).phase = "Running"
  PROVE  C!Apply(t, a).gameTime = a.time /\ C!Apply(t, a).paused
<1> DEFINE u == C!Advanced(C!Restarted(t, a), a)
           p == C!Timer!PauseGameTime(u)
<1>1. u \in Timers /\ p \in Timers
  BY AdvancedType, TimerOps
<1>2. C!Led(a) \in Nat /\ C!Led(a) + 1 < MAX
  <2>1. C!Led(a) <= WARP_REACH + 1
    BY WarpReachAssumption DEF C!Led, C!One, Actions
  <2> QED
    BY <2>1, LedType, WarpReachAssumption, SessionAssumption
<1>3. C!Apply(t, a) = C!Timer!SetGameTime(p, a.time)
  BY <1>2, SessionAssumption DEF C!Apply, C!Timed
<1> HIDE DEF u
<1>4. p.phase = u.phase /\ C!Apply(t, a).phase = p.phase
  BY <1>1, <1>3 DEF C!Timer!PauseGameTime, C!Timer!SetGameTime, Timers
<1> QED
  BY <1>1, <1>3, <1>4 DEF C!Timer!PauseGameTime, C!Timer!SetGameTime, Timers

-----------------------------------------------------------------------------
(* The frames of a game *)

\* A mode stays one, whatever field is written.
LEMMA ModeUpdates ==
  ASSUME NEW g \in Mode
  PROVE  /\ \A phase \in Phases : [g EXCEPT !.phase = phase] \in Mode
         /\ \A level \in Int : [g EXCEPT !.level = level] \in Mode
         /\ \A n \in Nat : [g EXCEPT !.frame = n] \in Mode
         /\ \A n \in Nat : [g EXCEPT !.chrono = n] \in Mode
         /\ \A n \in Nat : [g EXCEPT !.duration = n] \in Mode
         /\ \A n \in 0..FULL_MS : [g EXCEPT !.remaining = n] \in Mode
         /\ \A n \in Nat : [g EXCEPT !.startedAt = n] \in Mode
         /\ \A n \in Nat : [g EXCEPT !.endedAt = n] \in Mode
<1>1. \A phase \in Phases : [g EXCEPT !.phase = phase] \in Mode
  BY DEF Mode
<1>2. \A level \in Int : [g EXCEPT !.level = level] \in Mode
  BY DEF Mode
<1>3. \A n \in Nat : [g EXCEPT !.frame = n] \in Mode
  BY DEF Mode
<1>4. \A n \in Nat : [g EXCEPT !.chrono = n] \in Mode
  BY DEF Mode
<1>5. \A n \in Nat : [g EXCEPT !.duration = n] \in Mode
  BY DEF Mode
<1>6. \A n \in 0..FULL_MS : [g EXCEPT !.remaining = n] \in Mode
  BY DEF Mode
<1>7. \A n \in Nat : [g EXCEPT !.startedAt = n] \in Mode
  BY DEF Mode
<1>8. \A n \in Nat : [g EXCEPT !.endedAt = n] \in Mode
  BY DEF Mode
<1> QED
  BY <1>1, <1>2, <1>3, <1>4, <1>5, <1>6, <1>7, <1>8

LEMMA ModeType ==
  ASSUME NEW g \in Mode
  PROVE  /\ g.id \in Nat /\ g.id > 0 /\ g.phase \in Phases /\ g.level \in Int
         /\ g.frame \in Nat /\ g.chrono \in Nat /\ g.duration \in Nat
         /\ g.remaining \in 0..FULL_MS
         /\ g.startedAt \in Nat /\ g.endedAt \in Nat
BY DEF Mode

LEMMA RunningMode ==
  ASSUME NEW g \in Mode
  PROVE  /\ Running(g) \in Mode
         /\ Running(g).chrono = g.chrono + 1
         /\ Running(g).duration = g.duration + 1
         /\ Running(g).id = g.id /\ Running(g).phase = g.phase
         /\ Running(g).frame = g.frame /\ Running(g).level = g.level
         /\ Running(g).remaining = g.remaining
         /\ Running(g).startedAt = g.startedAt
         /\ Running(g).endedAt = g.endedAt
<1> DEFINE first == [g EXCEPT !.chrono = g.chrono + 1]
<1>1. first \in Mode /\ first.duration = g.duration
  BY ModeType, ModeUpdates DEF Mode
<1>2. Running(g) = [first EXCEPT !.duration = first.duration + 1]
  BY DEF Running, Mode
<1>3. Running(g) \in Mode
  <2> HIDE DEF first
  <2> QED
    BY <1>1, <1>2, ModeType, ModeUpdates
<1> QED
  BY <1>3 DEF Running, Mode

\* What one frame may change of a mode.
Goes(old, new) ==
  /\ new \in Mode /\ new.id = old.id /\ new.frame = clock + 1
  /\ old.phase # "over"
  /\ new.duration >= old.duration
  /\ Clocks(new)
  /\ new.phase = "black" => old.phase = "black"
  /\ old.phase # "black" => new.startedAt = old.startedAt

LEMMA FrameKeeps ==
  ASSUME SInv, game # None, NEW g, Frame(g), Goes(game, game')
  PROVE  SInv'
<1> USE DEF SInv
<1>1. game \in Mode /\ game' \in Mode /\ game' # None
  BY NoModeAssumption DEF Typed, Optional, Goes
<1>2. /\ UNCHANGED <<corpse, games, held, anchor, timer, history>>
      /\ UNCHANGED <<originOf, runOf, finishOf, clockOf, met, rested>>
      /\ UNCHANGED <<prev, origin, durationSeen, heartbeat, frozen>>
      /\ clock' = clock + 1 /\ actions' = Nothing
  BY DEF Frame, PolicyRests, loop, history, beat
<1>3. TypeOK'
  BY NothingType DEF Typed, TypeOK, Frame, PolicyRests, beat, outcome
<1>4. Typed'
  BY <1>1, <1>2, <1>3 DEF Typed, Optional
<1>5. Anchored'
  <2>1. held # "none" => Object(held)' # None /\ Object(held)'.id = anchor
    BY <1>1, <1>2 DEF Typed, Anchored, Object, Goes
  <2> QED
    BY <1>1, <1>2, <2>1 DEF Anchored, Goes
<1>6. Learned(game)' /\ Clocks(game)'
  <2>1. game.frame \in Nat /\ game.frame = clock
    BY <1>1, ModeType DEF Anchored
  <2>2. game.duration \in Nat /\ game'.duration \in Nat
    BY <1>1, ModeType
  <2>3. durationSeen \in Int /\ origin \in Optional(Int)
    BY DEF Typed, TypeOK
  <2>4. Learned(game)
    BY DEF Dated
  <2> QED
    BY <1>2, <2>1, <2>2, <2>3, <2>4 DEF Learned, Clocks, Goes, Optional
<1>7. corpse # None => Learned(corpse)' /\ Clocks(corpse)'
  BY <1>2 DEF Dated, Learned, Clocks
<1>8. game'.phase = "black" => originOf # game'.id
  BY DEF Dated, Goes
<1>9. TimeIsNeverAhead'
  BY <1>2 DEF Dated, TimeIsNeverAhead, Goes
<1>10. Dated'
  BY <1>2, <1>6, <1>7, <1>8, <1>9 DEF Dated, NearDuration
<1> QED
  BY <1>4, <1>5, <1>10

LEMMA FrameGoes ==
  ASSUME SInv, game # None, NEW g \in Mode, Frame(g),
         g.id = game.id, game.phase # "over", g.duration >= game.duration,
         g.duration <= g.chrono, g.chrono <= g.duration + BLACK + 1,
         g.startedAt + g.duration <= clock + 1,
         g.phase = "black" =>
           /\ game.phase = "black"
           /\ g.duration = 0 /\ g.startedAt = 0 /\ g.remaining = 0
           /\ g.chrono <= BLACK,
         game.phase # "black" => g.startedAt = game.startedAt
  PROVE  Goes(game, game')
<1>1. clock \in Nat
  BY DEF SInv, Typed
<1>2. game' = [g EXCEPT !.frame = clock + 1]
  BY DEF Frame
<1>3. game' \in Mode
  BY <1>1, <1>2, ModeUpdates
<1>4. /\ game'.id = g.id /\ game'.phase = g.phase
      /\ game'.frame = clock + 1 /\ game'.chrono = g.chrono
      /\ game'.duration = g.duration /\ game'.remaining = g.remaining
      /\ game'.startedAt = g.startedAt
  BY <1>2 DEF Mode
<1> QED
  BY <1>3, <1>4 DEF Goes, Clocks

\* What holds of the game before one of its frames.
LEMMA BeforeAFrame ==
  ASSUME SInv, game # None
  PROVE  /\ game \in Mode /\ game.frame = clock /\ Clocks(game)
         /\ clock \in Nat /\ clock + 1 \in Nat
         /\ game.chrono \in Nat /\ game.chrono + 1 \in Nat
         /\ game.duration \in Nat /\ game.startedAt \in Nat
         /\ game.remaining \in 0..FULL_MS /\ game.phase \in Phases
         /\ game.level \in Int
<1>1. game \in Mode
  BY DEF SInv, Typed, Optional
<1>2. clock \in Nat /\ game.frame = clock /\ Clocks(game)
  BY DEF SInv, Typed, Anchored, Dated
<1> QED
  BY <1>1, <1>2, ModeType

LEMMA BlackScreenGoes ==
  ASSUME SInv, BlackScreen
  PROVE  game # None /\ Goes(game, game')
<1> DEFINE g == [game EXCEPT !.chrono = game.chrono + 1]
<1>1. game # None /\ game.phase = "black" /\ game.chrono < BLACK /\ Frame(g)
  BY DEF BlackScreen
<1>2. g \in Mode
  BY <1>1, BeforeAFrame, ModeUpdates
<1>3. /\ g.id = game.id /\ g.phase = "black" /\ g.duration = game.duration
      /\ g.chrono = game.chrono + 1 /\ g.remaining = game.remaining
      /\ g.startedAt = game.startedAt
  BY <1>1, BeforeAFrame DEF Mode
<1> HIDE DEF g
<1> QED
  BY <1>1, <1>2, <1>3, BeforeAFrame, FrameGoes, SessionAssumption DEF Clocks

LEMMA UnlockGoes ==
  ASSUME SInv, Unlock
  PROVE  game # None /\ Goes(game, game')
<1> DEFINE f == [game EXCEPT !.phase = "play"]
           h == [f EXCEPT !.chrono = game.chrono + 1]
           g == [h EXCEPT !.startedAt = clock + 1]
<1>1. game # None /\ game.phase = "black"
  BY DEF Unlock
<1>2. f \in Mode
  BY <1>1, BeforeAFrame, ModeUpdates DEF Phases
<1>3. h \in Mode
  BY <1>1, <1>2, BeforeAFrame, ModeUpdates
<1>4. g \in Mode
  BY <1>1, <1>3, BeforeAFrame, ModeUpdates
<1>5. Frame(g)
  BY <1>1, BeforeAFrame DEF Unlock, Mode
<1>6. /\ g.id = game.id /\ g.phase = "play" /\ g.duration = game.duration
      /\ g.chrono = game.chrono + 1 /\ g.startedAt = clock + 1
  BY <1>1, BeforeAFrame DEF Mode
<1> HIDE DEF g
<1> QED
  BY <1>1, <1>4, <1>5, <1>6, BeforeAFrame, FrameGoes, SessionAssumption
     DEF Clocks

\* A frame of a game that runs on moves both of its clocks, whatever else it
\* changes of the mode.
LEMMA RunningGoes ==
  ASSUME SInv, game # None, game.phase \notin {"black", "over"},
         NEW g \in Mode, Frame(g), g.id = game.id, g.phase # "black",
         g.chrono - game.chrono = g.duration - game.duration,
         g.duration \in {game.duration, game.duration + 1},
         g.startedAt = game.startedAt
  PROVE  Goes(game, game')
BY BeforeAFrame, FrameGoes, ModeType, SessionAssumption DEF Clocks

LEMMA PlayOnGoes ==
  ASSUME SInv, PlayOn
  PROVE  game # None /\ Goes(game, game')
<1>1. game # None /\ game.phase = "play" /\ Frame(Running(game))
  BY DEF PlayOn
<1> QED
  BY <1>1, BeforeAFrame, RunningMode, RunningGoes

LEMMA StopGoes ==
  ASSUME SInv, Stop
  PROVE  game # None /\ Goes(game, game')
<1>1. game # None /\ game.phase = "play"
  BY DEF Stop
<1>2. PICK level \in {game.level, game.level + 1} :
        Frame([game EXCEPT !.phase = "stopped", !.level = level])
  BY DEF Stop
<1> DEFINE f == [game EXCEPT !.phase = "stopped"]
           g == [f EXCEPT !.level = level]
<1>3. f \in Mode
  BY <1>1, BeforeAFrame, ModeUpdates DEF Phases
<1>4. g \in Mode
  <2>1. level \in Int
    BY <1>1, BeforeAFrame
  <2> QED
    BY <1>3, <2>1, ModeUpdates
<1>5. Frame(g)
  BY <1>2
<1>6. /\ g.id = game.id /\ g.phase = "stopped" /\ g.duration = game.duration
      /\ g.chrono = game.chrono /\ g.startedAt = game.startedAt
  BY <1>1, BeforeAFrame DEF Mode
<1> HIDE DEF g
<1> QED
  BY <1>1, <1>4, <1>5, <1>6, BeforeAFrame, RunningGoes

LEMMA StayStoppedGoes ==
  ASSUME SInv, StayStopped
  PROVE  game # None /\ Goes(game, game')
BY BeforeAFrame, RunningGoes DEF StayStopped

LEMMA ResumeGoes ==
  ASSUME SInv, Resume
  PROVE  game # None /\ Goes(game, game')
<1>1. game # None /\ game.phase = "stopped"
  BY DEF Resume
<1> DEFINE g == [Running(game) EXCEPT !.phase = "play"]
<1>2. g \in Mode /\ Frame(g)
  BY <1>1, BeforeAFrame, RunningMode, ModeUpdates DEF Resume, Phases
<1>3. /\ g.id = game.id /\ g.phase = "play" /\ g.duration = game.duration + 1
      /\ g.chrono = game.chrono + 1 /\ g.startedAt = game.startedAt
  BY <1>1, BeforeAFrame, RunningMode DEF Mode
<1> HIDE DEF g
<1> QED
  BY <1>1, <1>2, <1>3, BeforeAFrame, RunningGoes

LEMMA ElevatorGoes ==
  ASSUME SInv, Elevator
  PROVE  game # None /\ Goes(game, game')
<1>1. game # None /\ game.phase = "play"
  BY DEF Elevator
<1> DEFINE f == [Running(game) EXCEPT !.remaining = FULL_MS]
           g == [f EXCEPT !.endedAt = clock + 1]
<1>2. f \in Mode
  BY <1>1, BeforeAFrame, RunningMode, ModeUpdates, ThresholdAssumption
<1>3. g \in Mode /\ Frame(g)
  BY <1>1, <1>2, BeforeAFrame, ModeUpdates DEF Elevator
<1>4. /\ g.id = game.id /\ g.phase = "play" /\ g.duration = game.duration + 1
      /\ g.chrono = game.chrono + 1 /\ g.startedAt = game.startedAt
  BY <1>1, BeforeAFrame, RunningMode DEF Mode
<1> HIDE DEF g
<1> QED
  BY <1>1, <1>3, <1>4, BeforeAFrame, RunningGoes

LEMMA CinematicGoes ==
  ASSUME SInv, Cinematic
  PROVE  game # None /\ Goes(game, game')
<1>1. /\ game # None /\ game.phase \in {"play", "stopped"}
      /\ game.remaining > 0
  BY DEF Cinematic
<1> DEFINE f == [Running(game) EXCEPT !.remaining = game.remaining - 1]
           g == [f EXCEPT
                  !.phase = IF game.remaining = 1 THEN "over" ELSE "play"]
<1>2. f \in Mode
  <2>1. game.remaining - 1 \in 0..FULL_MS
    BY <1>1, BeforeAFrame, ThresholdAssumption
  <2> QED
    BY <1>1, <2>1, BeforeAFrame, RunningMode, ModeUpdates
<1>3. g \in Mode
  BY <1>2, ModeUpdates DEF Phases
<1>4. Frame(g)
  BY <1>1, BeforeAFrame, RunningMode DEF Cinematic, Mode
<1>5. /\ g.id = game.id /\ g.phase \in {"over", "play"}
      /\ g.duration = game.duration + 1
      /\ g.chrono = game.chrono + 1 /\ g.startedAt = game.startedAt
  BY <1>1, <1>2, BeforeAFrame, RunningMode DEF Mode
<1> HIDE DEF g
<1> QED
  BY <1>1, <1>3, <1>4, <1>5, BeforeAFrame, RunningGoes

LEMMA DieGoes ==
  ASSUME SInv, Die
  PROVE  game # None /\ Goes(game, game')
<1>1. game # None /\ game.phase = "play"
  BY DEF Die
<1> DEFINE g == [Running(game) EXCEPT !.phase = "over"]
<1>2. g \in Mode /\ Frame(g)
  BY <1>1, BeforeAFrame, RunningMode, ModeUpdates DEF Die, Phases
<1>3. /\ g.id = game.id /\ g.phase = "over" /\ g.duration = game.duration + 1
      /\ g.chrono = game.chrono + 1 /\ g.startedAt = game.startedAt
  BY <1>1, BeforeAFrame, RunningMode DEF Mode
<1> HIDE DEF g
<1> QED
  BY <1>1, <1>2, <1>3, BeforeAFrame, RunningGoes

-----------------------------------------------------------------------------
(* The other steps of the game and of the runner *)

LEMMA RestsType ==
  ASSUME TypeOK, PolicyRests
  PROVE  TypeOK'
BY NothingType DEF TypeOK, PolicyRests, beat, outcome

LEMMA RestsFacts ==
  ASSUME PolicyRests
  PROVE  /\ UNCHANGED <<prev, origin, durationSeen, heartbeat, frozen, finished,
                        finishTime>>
         /\ actions' = Nothing
BY DEF PolicyRests, beat, outcome

LEMMA LaunchKeeps ==
  ASSUME SInv, Launch
  PROVE  SInv'
<1> USE DEF SInv
<1> DEFINE m == NewMode(games')
<1>1. /\ game = None /\ games' = games + 1 /\ games \in Nat /\ clock' \in Nat
      /\ game' = [m EXCEPT !.frame = clock']
      /\ UNCHANGED <<corpse, held, anchor, timer, originOf, runOf, finishOf,
                     met, rested, clockOf>>
      /\ UNCHANGED <<prev, origin, durationSeen>>
  BY RestsFacts DEF Launch, Typed, loop, history
<1>2. m \in Mode
  <2>1. games' \in Nat \ {0} /\ FIRST_LEVEL \in Int /\ 0 \in 0..FULL_MS
    BY <1>1, ThresholdAssumption
  <2> QED
    BY <2>1 DEF NewMode, Mode, Phases
<1>3. game' \in Mode /\ game' # None
  BY <1>1, <1>2, ModeUpdates, NoModeAssumption
<1>4. /\ game'.id = games + 1 /\ game'.frame = clock' /\ game'.chrono = 0
      /\ game'.duration = 0 /\ game'.startedAt = 0 /\ game'.remaining = 0
  BY <1>1, <1>2 DEF NewMode, Mode
<1>5. Typed'
  BY <1>1, <1>3, RestsType DEF Typed, Launch, Optional
<1>6. held # "game"
  BY <1>1 DEF Anchored, Object
<1>7. corpse # None => corpse.id <= games /\ corpse.id \in Nat
  BY ModeType DEF Typed, Anchored, Optional
<1>8. Anchored'
  <2>1. held # "none" => Object(held)' # None /\ Object(held)'.id = anchor
    BY <1>1, <1>6 DEF Typed, Anchored, Object
  <2>2. anchor <= games' /\ anchor \in Nat
    BY <1>1 DEF Typed, Anchored
  <2> QED
    BY <1>1, <1>3, <1>4, <1>7, <2>1, <2>2 DEF Anchored
<1>9. game'.id > anchor /\ game'.id \notin {originOf, finishOf}
  BY <1>1, <1>4 DEF Typed, Anchored
<1>10. Clocks(game)' /\ Learned(game)'
  BY <1>1, <1>4, <1>9, SessionAssumption DEF Typed, Clocks, Learned
<1>11. corpse # None => Clocks(corpse)' /\ Learned(corpse)'
  BY <1>1 DEF Dated, Clocks, Learned
<1>12. Dated'
  BY <1>1, <1>9, <1>10, <1>11 DEF Dated, TimeIsNeverAhead, NearDuration
<1> QED
  BY <1>5, <1>8, <1>12

\* A mode that is quit keeps the bytes of its last frame.
LEMMA QuitMode ==
  ASSUME SInv, Quit
  PROVE  /\ corpse' \in Mode
         /\ corpse'.id = game.id /\ corpse'.phase = game.phase
         /\ corpse'.frame = game.frame /\ corpse'.chrono = game.chrono
         /\ corpse'.duration = game.duration
         /\ corpse'.remaining = game.remaining /\ corpse'.startedAt = 0
<1> DEFINE f == [game EXCEPT !.startedAt = 0]
<1>1. game # None /\ game \in Mode /\ corpse' = [f EXCEPT !.endedAt = 0]
  BY BeforeAFrame DEF Quit
<1>2. f \in Mode
  BY <1>1, ModeUpdates
<1>3. corpse' \in Mode
  BY <1>1, <1>2, ModeUpdates
<1> QED
  BY <1>1, <1>3 DEF Mode

LEMMA QuitKeeps ==
  ASSUME SInv, Quit
  PROVE  SInv'
<1> USE DEF SInv
<1>1. /\ game # None /\ game \in Mode /\ game' = None
      /\ held' = IF held = "game" THEN "corpse" ELSE "none"
      /\ UNCHANGED <<clock, games, anchor, timer, originOf, runOf, finishOf,
                     met, rested, clockOf>>
      /\ UNCHANGED <<prev, origin, durationSeen>>
  BY BeforeAFrame, RestsFacts DEF Quit, history
<1>2. corpse' \in Mode /\ corpse' # None
  BY QuitMode, NoModeAssumption
<1>3. Typed'
  BY <1>1, <1>2, RestsType DEF Typed, Quit, Optional
<1>4. Anchored'
  <2>1. held' # "none" => Object(held)' # None /\ Object(held)'.id = anchor
    BY <1>1, <1>2, QuitMode DEF Typed, Anchored, Object
  <2> QED
    BY <1>1, <1>2, <2>1, QuitMode DEF Typed, Anchored
<1>5. Clocks(corpse)' /\ Learned(corpse)'
  <2>1. Clocks(game) /\ Learned(game)
    BY <1>1 DEF Dated
  <2>2. game.duration \in Nat /\ game.frame \in Nat /\ game.startedAt \in Nat
    BY <1>1, ModeType
  <2> QED
    BY <1>1, <2>1, <2>2, QuitMode DEF Clocks, Learned
<1>6. Dated'
  BY <1>1, <1>5 DEF Dated, TimeIsNeverAhead, NearDuration
<1> QED
  BY <1>3, <1>4, <1>6

LEMMA RestartKeeps ==
  ASSUME SInv, Restart
  PROVE  SInv'
<1> USE DEF SInv
<1>1. /\ game = None /\ game' = None /\ corpse' = None /\ clock' = 0
      /\ held' = "none"
      /\ UNCHANGED <<games, anchor, timer, originOf, runOf, finishOf, met,
                     clockOf>>
      /\ UNCHANGED <<prev, origin, durationSeen>>
  BY RestsFacts DEF Restart, history
<1>2. Typed'
  BY <1>1, RestsType DEF Typed, Restart, Optional
<1>3. Anchored' /\ Dated'
  BY <1>1 DEF Anchored, Dated, TimeIsNeverAhead, NearDuration
<1> QED
  BY <1>2, <1>3

LEMMA RunnerKeeps ==
  ASSUME SInv, RunnerResets
  PROVE  SInv'
<1> USE DEF SInv
<1>1. /\ UNCHANGED <<clock, games, game, corpse, held, anchor, originOf,
                     finishOf, met, rested, clockOf>>
      /\ UNCHANGED <<prev, origin, durationSeen>>
      /\ runOf' = 0 /\ timer' \in Timers
  BY RestsFacts, TimerOps DEF RunnerResets, gameVars, loop, Typed
<1>2. Typed'
  BY <1>1, RestsType DEF Typed, RunnerResets
<1>3. Anchored'
  BY <1>1 DEF Anchored, Object, Typed
<1>4. Dated'
  BY <1>1 DEF Dated, Clocks, Learned, TimeIsNeverAhead, NearDuration
<1> QED
  BY <1>2, <1>3, <1>4

-----------------------------------------------------------------------------
(* The ticks of the loop *)

LEMMA StateOfType ==
  ASSUME NEW g \in Mode
  PROVE  StateOf(g) \in State
<1>1. [world |-> Adventure, id |-> g.level] \in Level
  BY ModeType, WorldAssumption DEF Level
<1>2. /\ g.chrono \in Int /\ g.frame \in Int /\ g.duration \in Int
      /\ g.remaining \in Nat
      /\ (g.phase = "over") \in BOOLEAN /\ Locked(g) \in BOOLEAN
  BY ModeType, ThresholdAssumption DEF Locked
<1> QED
  BY <1>1, <1>2 DEF StateOf, State

\* What a tick leaves of the timer and of the types of the policy.
LEMMA TickTypes ==
  ASSUME Typed, NEW read \in Optional(State), Tick(timer.phase, read),
         timer' = C!Apply(timer, actions')
  PROVE  TypeOK' /\ OneStory' /\ timer' \in Timers
<1>1. timer.phase \in TimerStates
  BY DEF Typed, Timers, TimerStates
<1>2. TypeOK' /\ OneStory'
  BY <1>1, TickType, TickOneStory DEF Typed
<1>3. actions' \in Actions
  BY <1>2 DEF TypeOK
<1> QED
  BY <1>2, <1>3, ApplyType DEF Typed

LEMMA ReadNothingKeeps ==
  ASSUME SInv, ReadNothing
  PROVE  SInv'
<1> USE DEF SInv
<1>1. /\ UNCHANGED <<clock, games, game, corpse, anchor, originOf, finishOf,
                     met, rested, clockOf>>
      /\ held' \in {"none"} /\ runOf' \in {0, runOf}
      /\ NoGame(timer.phase) /\ Tick(timer.phase, None)
      /\ timer' = C!Apply(timer, actions')
  BY DEF ReadNothing, TickOn, Tick, Read, gameVars
<1>2. UNCHANGED <<prev, origin, durationSeen>>
  BY <1>1 DEF NoGame, SurvivesALostRead
<1>3. Typed'
  <2>1. TypeOK' /\ timer' \in Timers
    BY <1>1, TickTypes DEF Optional
  <2> QED
    BY <1>1, <2>1 DEF Typed
<1>4. Anchored'
  BY <1>1 DEF Anchored
<1>5. Dated'
  BY <1>1, <1>2 DEF Dated, Clocks, Learned, TimeIsNeverAhead, NearDuration
<1> QED
  BY <1>3, <1>4, <1>5

\* A read of a game: the object g it is read from, which the loop may hold
\* from then on.
Reading(g) ==
  /\ g \in Mode /\ g.id >= anchor
  /\ \/ g = game /\ (~ g.phase = "over" => Beats(StateOf(g)) \/ frozen < MAX_STALL)
     \/ g = corpse
  /\ Read(timer.phase, StateOf(g))
  /\ Tick(timer.phase, StateOf(g))
  /\ timer' = C!Apply(timer, actions')
  /\ held' # "none" => Object(held)' = g
  /\ held' \in {"game", "corpse", "none"}
  /\ Remember(g, StateOf(g))
  /\ anchor' = g.id
  /\ UNCHANGED <<processes, clock, games, game, corpse>>

LEMMA ReadGameReads ==
  ASSUME Typed, Anchored, ReadGame
  PROVE  \E g : Reading(g) /\ (held = "game" => g = game)
<1>1. PICK handle \in IF held = "none" THEN Findable ELSE {held} :
        /\ Object(handle) # None
        /\ Fresh(handle, StateOf(Object(handle)))
        /\ TickOn(handle, StateOf(Object(handle)))
        /\ Remember(Object(handle), StateOf(Object(handle)))
        /\ anchor' = Object(handle).id
  BY DEF ReadGame
<1> DEFINE g == Object(handle)
<1>2. handle \in {"game", "corpse"} /\ g.id >= anchor
  <2>1. CASE held = "none"
    BY <1>1, <2>1 DEF Findable
  <2>2. CASE held # "none"
    <3>1. handle = held /\ g.id = anchor
      BY <1>1, <2>2 DEF Anchored
    <3> QED
      BY <2>2, <3>1 DEF Typed
  <2> QED
    BY <2>1, <2>2
<1>3. g \in Mode
  BY <1>1, <1>2 DEF Typed, Object, Optional
<1>4. UNCHANGED <<processes, clock, games, game, corpse>>
  BY <1>1 DEF TickOn, gameVars
<1>5. held' \in {"none", handle}
  BY <1>1 DEF TickOn
<1>6. held' # "none" => Object(held)' = g
  BY <1>2, <1>4, <1>5 DEF Object
<1>7. held = "game" => g = game
  BY <1>1 DEF Object
<1>8. \/ g = game /\ (~ g.phase = "over" => Beats(StateOf(g)) \/ frozen < MAX_STALL)
      \/ g = corpse
  BY <1>1, <1>2 DEF Fresh, Object, StateOf
<1>9. /\ Tick(timer.phase, StateOf(g))
      /\ timer' = C!Apply(timer, actions')
  BY <1>1 DEF TickOn
<1>10. Read(timer.phase, StateOf(g))
  BY <1>3, <1>9, StateOfType, NoSightAssumption DEF Tick
<1> HIDE DEF g
<1>11. Remember(g, StateOf(g)) /\ anchor' = g.id
  BY <1>1 DEF g
<1> QED
  BY <1>2, <1>3, <1>4, <1>5, <1>6, <1>7, <1>8, <1>9, <1>10, <1>11 DEF Reading

\* The three ways a read of the object g ends, and what each leaves behind of
\* the clocks the invariant is about.
Forgot ==
  /\ prev' = None /\ origin' = None /\ durationSeen' = 0
  /\ UNCHANGED <<originOf, clockOf>>

Went(g) ==
  LET now == StateOf(g)
  IN  /\ durationSeen' = g.duration
      /\ origin' = NextOrigin(now)
      /\ prev' = IF Confirmed(now) THEN g.chrono ELSE prev
      /\ originOf' = IF Dates(now) THEN g.id ELSE originOf
      /\ clockOf' = IF Confirmed(now) THEN g.id ELSE clockOf
      /\ Dates(now) => finishOf' \in {0, g.id}

LEMMA DatesAnOrigin ==
  ASSUME NEW g \in Mode, Dates(StateOf(g))
  PROVE  /\ NextOrigin(StateOf(g)) = g.frame - g.duration
         /\ NextOrigin(StateOf(g)) # None
<1>1. g.frame - g.duration \in Int
  BY ModeType
<1> QED
  BY <1>1, NoneIsApart DEF NextOrigin, StateOf

LEMMA ReadingGoes ==
  ASSUME TypeOK, NEW g, Reading(g)
  PROVE  /\ runOf' \in {0, runOf, g.id}
         /\ finishOf' \in {0, finishOf, g.id}
         /\ met' \in {0, met, g.chrono}
         /\ \/ Forgot
            \/ Went(g) /\ Play(timer.phase, StateOf(g))
<1> DEFINE now == StateOf(g)
<1>1. g \in Mode /\ g.chrono \in Int /\ g.chrono # None
  BY ModeType, NoneIsApart DEF Reading
<1>2. now.chrono = g.chrono /\ now.duration = g.duration /\ now.frame = g.frame
  BY DEF StateOf
<1>3. Remember(g, now)
  BY DEF Reading
<1>4. /\ runOf' \in {0, runOf, g.id}
      /\ finishOf' \in {0, finishOf, g.id}
      /\ met' \in {0, met, g.chrono}
  BY <1>2, <1>3 DEF Remember
<1>5. CASE GameOver(timer.phase, now) \/ Stale(now)
  <2>1. prev' = None /\ origin' = None /\ durationSeen' = 0
    BY <1>5 DEF GameOver, Stale, Forget
  <2>2. originOf' = originOf /\ clockOf' = clockOf
    BY <1>3, <2>1 DEF Remember
  <2> QED
    BY <1>4, <2>1, <2>2 DEF Forgot
<1>6. CASE Play(timer.phase, now)
  <2>1. /\ durationSeen' = now.duration /\ origin' = NextOrigin(now)
        /\ prev' = IF Confirmed(now) THEN now.chrono ELSE prev
    BY <1>6 DEF Play
  <2>2. Dates(now) => origin' # None
    BY <1>1, <2>1, DatesAnOrigin
  <2>3. originOf' = IF Dates(now) THEN g.id ELSE originOf
    BY <1>3, <2>2 DEF Remember
  <2>4. Confirmed(now) => prev' # None
    BY <1>1, <1>2, <2>1
  <2>5. clockOf' = IF Confirmed(now) THEN g.id ELSE clockOf
    BY <1>3, <2>4 DEF Remember
  <2>6. Dates(now) => finishOf' \in {0, g.id}
    BY <1>3, <2>2 DEF Remember
  <2> QED
    BY <1>2, <1>4, <1>6, <2>1, <2>3, <2>5, <2>6 DEF Went
<1> QED
  BY <1>4, <1>5, <1>6 DEF Reading, Read

\* A read of g dates it, or keeps the origin, or forgets it; a kept origin is
\* not past the frame, and the duration has not fallen.
LEMMA OriginAfter ==
  ASSUME TypeOK, NEW g \in Mode, Went(g)
  PROVE  \/ /\ Dates(StateOf(g)) /\ origin' = g.frame - g.duration
            /\ originOf' = g.id
            /\ g.phase \notin {"black", "stopped"}
         \/ origin' = None /\ originOf' = originOf
         \/ /\ origin' = origin /\ origin # None /\ originOf' = originOf
            /\ origin <= g.frame /\ durationSeen <= g.duration
<1> DEFINE now == StateOf(g)
<1>1. /\ now.frame = g.frame /\ now.duration = g.duration
      /\ now.locked = Locked(g)
  BY DEF StateOf
<1>2. CASE Dates(now)
  BY <1>1, <1>2, DatesAnOrigin DEF Went, Dates, Locked
<1>3. CASE ~ Dates(now)
  <2>1. origin' = KeptOrigin(now) /\ originOf' = originOf
    BY <1>3 DEF Went, NextOrigin
  <2>2. CASE KeptOrigin(now) = None
    BY <2>1, <2>2
  <2>3. CASE KeptOrigin(now) # None
    <3>1. ~ NewGame(now) /\ origin # None /\ KeptOrigin(now) = origin
      BY <2>3 DEF KeptOrigin
    <3>2. origin \in Int /\ durationSeen \in Int
      BY <3>1 DEF TypeOK, Optional
    <3> QED
      BY <1>1, <2>1, <3>1, <3>2, ModeType DEF NewGame
  <2> QED
    BY <2>2, <2>3
<1> QED
  BY <1>2, <1>3

\* What the invariant says of an object that can be read.
LEMMA ReadableFacts ==
  ASSUME SInv, NEW o \in {game, corpse}, o # None
  PROVE  o \in Mode /\ Clocks(o) /\ Learned(o) /\ o.id <= games
BY DEF SInv, Typed, Anchored, Dated, Optional

LEMMA ReadingKeeps ==
  ASSUME SInv, NEW g, Reading(g)
  PROVE  SInv'
<1> USE DEF SInv
<1>1. /\ g \in Mode /\ g # None /\ g \in {game, corpse} /\ g.id >= anchor
      /\ anchor' = g.id
      /\ UNCHANGED <<clock, games, game, corpse>>
      /\ held' \in {"game", "corpse", "none"}
      /\ held' # "none" => Object(held)' = g
  BY NoModeAssumption DEF Reading
<1>2. /\ runOf' \in {0, runOf, g.id} /\ finishOf' \in {0, finishOf, g.id}
      /\ met' \in {0, met, g.chrono}
      /\ Forgot \/ Went(g)
  BY ReadingGoes DEF Typed
<1>3. TypeOK' /\ timer' \in Timers
  BY <1>1, StateOfType, TickTypes DEF Reading, Optional
<1>4. /\ Clocks(g) /\ Learned(g) /\ g.id <= games
      /\ g.id \in Nat /\ g.frame \in Nat /\ g.duration \in Nat
      /\ g.chrono \in Nat
  BY <1>1, ReadableFacts, ModeType
<1>5. /\ originOf' \in {originOf, g.id} /\ clockOf' \in {clockOf, g.id}
  BY <1>2 DEF Forgot, Went
<1>6. Typed'
  BY <1>1, <1>2, <1>3, <1>4, <1>5 DEF Typed
<1>7. Anchored'
  <2>1. /\ originOf <= g.id /\ finishOf <= g.id /\ clockOf <= g.id
    BY <1>1, <1>4 DEF Typed, Anchored
  <2>2. held' # "none" => Object(held)' # None /\ Object(held)'.id = anchor'
    BY <1>1
  <2>3. /\ originOf' <= anchor' /\ finishOf' <= anchor' /\ clockOf' <= anchor'
    BY <1>1, <1>2, <1>4, <1>5, <2>1
  <2> QED
    BY <1>1, <1>4, <2>2, <2>3 DEF Anchored
<1>8. \/ Forgot
      \/ /\ Went(g) /\ Dates(StateOf(g)) /\ originOf' = g.id
         /\ origin' = g.frame - g.duration
         /\ g.phase \notin {"black", "stopped"}
         /\ finishOf' \in {0, g.id}
      \/ Went(g) /\ origin' = None /\ originOf' = originOf
      \/ /\ Went(g) /\ origin' = origin /\ origin # None
         /\ originOf' = originOf
         /\ origin <= g.frame /\ durationSeen <= g.duration
  BY <1>1, <1>2, OriginAfter DEF Typed, Went
<1>9. ASSUME NEW o \in {game, corpse}, o # None
      PROVE  Clocks(o)' /\ Learned(o)'
  <2>1. Clocks(o) /\ Learned(o) /\ o.id \in Nat /\ o.id > 0
    BY <1>9, ReadableFacts, ModeType
  <2>2. o.id = g.id => o = g
    BY <1>1, <1>9 DEF Anchored, Typed, Optional, Mode
  <2>3. durationSeen' \in {0, g.duration}
    BY <1>2 DEF Forgot, Went
  <2>4. o.id \in {originOf', finishOf'} /\ origin' # None
          => origin' <= o.frame
    BY <1>2, <1>4, <1>8, <2>1, <2>2 DEF Forgot, Learned
  <2> QED
    BY <1>1, <1>4, <2>1, <2>2, <2>3, <2>4 DEF Clocks, Learned
<1>10. game # None /\ game.id = g.id => game = g
  BY <1>1 DEF Anchored, Typed, Optional, Mode
<1>11. game # None /\ game.phase = "black" => originOf' # game.id
  BY <1>1, <1>8, <1>10 DEF Forgot, Dated
<1>12. TimeIsNeverAhead'
  <2>1. ASSUME game # None, originOf' = game.id, origin' # None
        PROVE  origin' >= game.startedAt
    <3>1. CASE originOf' = originOf /\ origin' = origin
      BY <2>1, <3>1 DEF Dated, TimeIsNeverAhead
    <3>2. CASE originOf' = g.id /\ origin' = g.frame - g.duration
      <4>1. game = g /\ g.startedAt \in Nat
        BY <1>1, <1>10, <2>1, <3>2, ModeType
      <4> QED
        BY <1>4, <3>2, <4>1 DEF Clocks
    <3> QED
      BY <1>8, <2>1, <3>1, <3>2 DEF Forgot
  <2> QED
    BY <1>1, <2>1 DEF TimeIsNeverAhead
<1>13. ASSUME Went(g), Confirmed(StateOf(g))
       PROVE  NearDuration'
  BY <1>4, <1>13, SessionAssumption DEF Went, NearDuration, Clocks
<1>14. ASSUME Went(g), prev # None, NearDuration, durationSeen <= g.duration,
              ~ Confirmed(StateOf(g))
       PROVE  NearDuration'
  <2>1. prev \in Int /\ durationSeen \in Int
    BY <1>14 DEF Typed, TypeOK, Optional
  <2> QED
    BY <1>4, <1>14, <2>1, SessionAssumption DEF Went, NearDuration
<1>15. prev' # None /\ clockOf' = anchor' => NearDuration'
  <2>1. ASSUME Went(g), ~ Confirmed(StateOf(g)), prev' # None,
               clockOf' = anchor'
        PROVE  NearDuration'
    <3>1. prev # None /\ clockOf = g.id
      BY <1>1, <2>1 DEF Went
    <3>2. anchor = g.id
      BY <1>1, <3>1 DEF Anchored, Typed
    <3>3. NearDuration /\ durationSeen <= g.duration
      BY <1>4, <3>1, <3>2 DEF Dated, Learned
    <3> QED
      BY <1>14, <2>1, <3>1, <3>3
  <2> QED
    BY <1>2, <1>13, <2>1 DEF Forgot
<1>16. prev' # None /\ clockOf' = originOf' /\ origin' # None
         => NearDuration'
  <2>1. ASSUME Went(g), ~ Confirmed(StateOf(g)), prev' # None,
               clockOf' = originOf', origin' # None
        PROVE  NearDuration'
    <3>1. prev # None /\ clockOf' = clockOf
      BY <2>1 DEF Went
    <3>2. CASE originOf' = g.id
      BY <1>1, <1>15, <2>1, <3>2
    <3>3. CASE /\ originOf' = originOf /\ origin # None
               /\ durationSeen <= g.duration
      <4>1. NearDuration
        BY <2>1, <3>1, <3>3 DEF Dated
      <4> QED
        BY <1>14, <2>1, <3>1, <3>3, <4>1
    <3> QED
      BY <1>8, <2>1, <3>2, <3>3 DEF Forgot
  <2> QED
    BY <1>2, <1>13, <2>1 DEF Forgot
<1>17. Dated'
  BY <1>1, <1>9, <1>11, <1>12, <1>15, <1>16 DEF Dated
<1> QED
  BY <1>6, <1>7, <1>17

-----------------------------------------------------------------------------

LEMMA SessionInitKeeps == SessionInit => SInv
<1> SUFFICES ASSUME SessionInit PROVE SInv
  OBVIOUS
<1>1. Typed
  <2>1. TypeOK
    BY InitType DEF SessionInit
  <2>2. timer \in Timers
    BY DEF SessionInit, C!Timer!Stopped, Timers
  <2> QED
    BY <2>1, <2>2 DEF SessionInit, Typed, Optional
<1>2. Anchored
  BY DEF SessionInit, Anchored, Object
<1>3. Dated
  BY DEF SessionInit, Init, Dated, TimeIsNeverAhead
<1> QED
  BY <1>1, <1>2, <1>3 DEF SInv

LEMMA StutterKeeps == SInv /\ UNCHANGED vars => SInv'
<1> SUFFICES ASSUME SInv, UNCHANGED vars PROVE SInv'
  OBVIOUS
<1>1. /\ UNCHANGED <<clock, games, game, corpse, held, anchor, timer, originOf,
                     runOf, finishOf, met, rested, clockOf>>
      /\ UNCHANGED policyVars
  BY DEF vars, gameVars, loop, history
<1>2. TypeOK'
  BY <1>1 DEF SInv, Typed, TypeOK, policyVars
<1>3. UNCHANGED <<prev, origin, durationSeen>>
  BY <1>1 DEF policyVars
<1>4. Typed'
  BY <1>1, <1>2 DEF SInv, Typed
<1>5. Anchored'
  BY <1>1 DEF SInv, Anchored, Object, Typed
<1>6. Dated'
  BY <1>1, <1>3
     DEF SInv, Dated, Clocks, Learned, TimeIsNeverAhead, NearDuration
<1> QED
  BY <1>4, <1>5, <1>6 DEF SInv

LEMMA FramesKeep ==
  ASSUME SInv,
         \/ BlackScreen \/ Unlock \/ PlayOn \/ Stop \/ StayStopped
         \/ Resume \/ Elevator \/ Cinematic \/ Die
  PROVE  SInv'
<1>1. game # None /\ Goes(game, game')
  BY BlackScreenGoes, UnlockGoes, PlayOnGoes, StopGoes, StayStoppedGoes,
     ResumeGoes, ElevatorGoes, CinematicGoes, DieGoes
<1>2. \E g : Frame(g)
  BY DEF BlackScreen, Unlock, PlayOn, Stop, StayStopped, Resume, Elevator,
         Cinematic, Die
<1> QED
  BY <1>1, <1>2, FrameKeeps

LEMMA SessionNextKeeps == SInv /\ [SessionNext]_vars => SInv'
<1> SUFFICES ASSUME SInv, [SessionNext]_vars PROVE SInv'
  OBVIOUS
<1>1. CASE GameStep
  BY <1>1, FramesKeep, LaunchKeeps, QuitKeeps, RestartKeeps DEF GameStep
<1>2. CASE ReadGame
  BY <1>2, ReadGameReads, ReadingKeeps DEF SInv
<1> QED
  BY <1>1, <1>2, ReadNothingKeeps, RunnerKeeps, StutterKeeps DEF SessionNext

LEMMA SessionInvariant == SessionSpec => []SInv
BY SessionInitKeeps, SessionNextKeeps, PTL DEF SessionSpec

\* The time is never ahead of the time since level 0 appeared, whatever the
\* game had paused before it was found, and however often it is found again:
\* the policy dates a game from duration (Policy::update_origin).
THEOREM TimeIsNeverAheadAlways == SessionSpec => []TimeIsNeverAhead
<1>1. SInv => TimeIsNeverAhead
  BY DEF SInv, Dated
<1> QED
  BY <1>1, SessionInvariant, PTL

-----------------------------------------------------------------------------
(* The time on the timer *)

\* A tick sends its time last, and any other step leaves no order behind.
LEMMA TheTimeIsShown ==
  ASSUME SInv, TimerShowsTheTime, [SessionNext]_vars
  PROVE  TimerShowsTheTime'
<1>1. CASE PolicyRests
  BY <1>1 DEF PolicyRests, Nothing, TimerShowsTheTime
<1>2. ASSUME NEW read \in Optional(State), Tick(timer.phase, read),
             timer' = C!Apply(timer, actions')
      PROVE  TimerShowsTheTime'
  <2>1. actions' \in Actions /\ OneStory' /\ timer \in Timers
    BY <1>2, TickTypes DEF SInv, Typed, TypeOK
  <2> QED
    BY <1>2, <2>1, TheTimeIsSet DEF OneStory, TimerShowsTheTime
<1>3. CASE ReadNothing
  BY <1>2, <1>3 DEF ReadNothing, TickOn, Optional
<1>4. CASE ReadGame
  <2>1. PICK g : Reading(g)
    BY <1>4, ReadGameReads DEF SInv
  <2> QED
    BY <1>2, <2>1, StateOfType DEF Reading, Optional
<1>5. CASE UNCHANGED vars
  BY <1>5 DEF vars, policyVars, TimerShowsTheTime
<1>6. GameStep \/ RunnerResets => PolicyRests
  BY DEF GameStep, Launch, BlackScreen, Unlock, PlayOn, Stop, StayStopped,
         Resume, Elevator, Cinematic, Die, Quit, Restart, RunnerResets, Frame
<1> QED
  BY <1>1, <1>3, <1>4, <1>5, <1>6 DEF SessionNext

\* While a run goes on the timer shows the time published last, on a clock
\* that is paused: the time is sent behind the start and the splits, and the
\* list of commands has room for it (Actions::commands).
THEOREM TimerShowsTheTimeAlways == SessionSpec => []TimerShowsTheTime
<1>1. SessionInit => TimerShowsTheTime
  BY DEF SessionInit, C!Timer!Stopped, TimerShowsTheTime
<1>2. SInv /\ TimerShowsTheTime /\ [SessionNext]_vars => TimerShowsTheTime'
  BY TheTimeIsShown
<1> QED
  BY <1>1, <1>2, SessionInvariant, PTL DEF SessionSpec

-----------------------------------------------------------------------------
(* Where a run is timed from *)

\* A restart by the game clock dates the game, or follows a clock that is not
\* the one of the game dated last.
LEMMA RewindsAreDated ==
  ASSUME SInv, NEW g, Reading(g), Went(g), NEW timer0,
         Rewinds(timer0, StateOf(g)), clockOf = originOf, origin' # None
  PROVE  originOf' = g.id
<1>1. g \in Mode /\ g # None /\ g \in {game, corpse}
  BY NoModeAssumption DEF Reading
<1>2. Clocks(g) /\ g.chrono \in Nat /\ g.duration \in Nat
  BY <1>1, ReadableFacts, ModeType
<1>3. prev # None /\ g.chrono + CLOCK_SLACK < prev
  BY DEF Rewinds, Decides, StateOf
<1>4. prev \in Int /\ durationSeen \in Int
  BY <1>3 DEF SInv, Typed, TypeOK, Optional
<1>5. SUFFICES ASSUME origin # None, durationSeen <= g.duration PROVE FALSE
  BY <1>1, OriginAfter DEF SInv, Typed
<1>6. prev <= durationSeen + BLACK + 1
  BY <1>3, <1>5 DEF SInv, Dated, NearDuration
<1> QED
  BY <1>2, <1>3, <1>4, <1>5, <1>6, SessionAssumption, BlackAssumption,
     ThresholdAssumption DEF Clocks

LEMMA StartsAreDated ==
  ASSUME SInv, ReadGame, runOf' # runOf, runOf' # 0, timer.phase # "Ended",
         clockOf = originOf, origin' # None
  PROVE  originOf' = runOf'
<1>1. PICK g : Reading(g)
  BY ReadGameReads DEF SInv, Typed, Anchored
<1>2. runOf' = g.id /\ actions'.start
  <2>1. Remember(g, StateOf(g))
    BY <1>1 DEF Reading
  <2> QED
    BY <2>1 DEF Remember
<1>3. Went(g) /\ Play(timer.phase, StateOf(g))
  <2>1. TypeOK
    BY DEF SInv, Typed
  <2>2. Forgot \/ (Went(g) /\ Play(timer.phase, StateOf(g)))
    BY <1>1, <2>1, ReadingGoes
  <2> QED
    BY <2>2 DEF Forgot
<1>4. actions' = Ordered(timer.phase, StateOf(g))
  BY <1>3 DEF Play
<1>5. Dates(StateOf(g)) \/ Rewinds(timer.phase, StateOf(g))
  BY <1>2, <1>4 DEF Ordered, RestartsEnded
<1>6. CASE Dates(StateOf(g))
  BY <1>2, <1>3, <1>6 DEF Went
<1>7. CASE Rewinds(timer.phase, StateOf(g))
  BY <1>1, <1>2, <1>3, <1>7, RewindsAreDated
<1> QED
  BY <1>5, <1>6, <1>7

\* A timer that is started for a game is timed from that game: the game clock
\* cannot fall by more than its slack unless duration, or the clock of the
\* player, fell as well (the black screen is shorter than the slack).
THEOREM StartsAreTimed == SessionSpec => StartsAreTimedFromTheirGame
<1>1. ASSUME SInv, [SessionNext]_vars
      PROVE  [/\ runOf' # runOf /\ runOf' # 0
              /\ timer.phase # "Ended" /\ clockOf = originOf
              /\ origin' # None
              => originOf' = runOf']_vars
  <2>1. CASE ReadGame
    BY <1>1, <2>1, StartsAreDated
  <2>2. CASE ~ ReadGame
    <3>1. runOf' = runOf \/ runOf' = 0 \/ UNCHANGED vars
      BY <1>1, <2>2
         DEF SessionNext, GameStep, Launch, BlackScreen, Unlock, PlayOn, Stop,
             StayStopped, Resume, Elevator, Cinematic, Die, Quit, Restart,
             RunnerResets, ReadNothing, Frame, history
    <3> QED
      BY <3>1
  <2> QED
    BY <2>1, <2>2
<1> QED
  BY <1>1, SessionInvariant, PTL DEF SessionSpec, StartsAreTimedFromTheirGame

-----------------------------------------------------------------------------
(* The run: the inductive invariant *)

\* A live game is read often enough never to be taken for dead.
NeverTakenForDead == MAX_STALL < STALE_TICKS

\* A game that was dated, or that finished the run, cannot be dated again:
\* its origin is kept until no read of it goes to the end any more.
Settled ==
  /\ game # None /\ game.id \in {originOf, finishOf} /\ origin = None
       => game.phase = "over"
  /\ corpse # None /\ corpse.id \in {originOf, finishOf} /\ origin = None
       => \/ corpse.phase = "over"
          \/ corpse.id < anchor
          \/ heartbeat = corpse.frame /\ frozen = STALE_TICKS

\* Until a read notices the elevator, remaining falls with every frame.
Ending ==
  /\ finishOf # 0 => finished
  /\ game # None /\ game.remaining > 0 /\ game.phase # "over"
       /\ finishOf # game.id
       => /\ game.phase = "play"
          /\ game.frame - game.endedAt = FULL_MS - game.remaining
  /\ corpse # None /\ corpse.phase = "stopped" /\ corpse.remaining > 0
       => finishOf = corpse.id \/ corpse.id < anchor

FInv == SInv /\ Settled /\ Ending

\* The clock of the run is the one a restart is decided by.
Remembered == met # 0 /\ ~ rested => prev = met

-----------------------------------------------------------------------------
(* The run: the reads *)

LEMMA ReadFacts ==
  ASSUME SInv, NEW g, Reading(g)
  PROVE  /\ g \in Mode /\ g # None /\ g \in {game, corpse}
         /\ Clocks(g) /\ Learned(g)
         /\ g.id \in Nat /\ g.id > 0 /\ g.id >= anchor
         /\ \A o \in {game, corpse} : o # None => o.id \in Nat /\ o.id > 0
         /\ game # None => game.id >= g.id /\ (game.id = g.id => game = g)
         /\ corpse # None => (corpse.id < g.id \/ corpse = g)
         /\ originOf <= g.id /\ finishOf <= g.id
         /\ originOf \in Nat /\ finishOf \in Nat /\ anchor \in Nat
         /\ anchor' = g.id
         /\ UNCHANGED <<clock, games, game, corpse>>
<1>1. /\ g \in Mode /\ g # None /\ g \in {game, corpse} /\ g.id >= anchor
      /\ anchor' = g.id
      /\ UNCHANGED <<clock, games, game, corpse>>
  BY NoModeAssumption DEF Reading
<1>2. Clocks(g) /\ Learned(g)
  BY <1>1, ReadableFacts
<1>3. \A o \in {game, corpse} : o # None => o.id \in Nat /\ o.id > 0
  BY ModeType DEF SInv, Typed, Optional
<1>4. games \in Nat /\ originOf \in Nat /\ finishOf \in Nat /\ anchor \in Nat
  BY DEF SInv, Typed
<1> QED
  BY <1>1, <1>2, <1>3, <1>4 DEF SInv, Anchored

\* A live game is not taken for dead.
LEMMA LiveIsAlive ==
  ASSUME NeverTakenForDead, SInv, NEW g, Reading(g), g = game,
         g.phase # "over"
  PROVE  Alive(StateOf(g))
<1>1. game # corpse
  BY ReadFacts DEF SInv, Anchored
<1>2. Beats(StateOf(g)) \/ frozen < MAX_STALL
  BY <1>1 DEF Reading
<1>3. frozen \in 0..STALE_TICKS
  BY DEF SInv, Typed, TypeOK
<1> QED
  BY <1>2, <1>3, SessionAssumption, ThresholdAssumption
     DEF Alive, Frozen, NeverTakenForDead

\* A read of a game that was dated, or that finished the run, neither dates it
\* again nor forgets its origin.
LEMMA NotDatedAgain ==
  ASSUME FInv, NEW g, Reading(g), Play(timer.phase, StateOf(g)),
         g.id \in {originOf, finishOf}
  PROVE  origin # None /\ ~ NewGame(StateOf(g)) /\ ~ Dates(StateOf(g))
<1> DEFINE now == StateOf(g)
<1>1. /\ g \in Mode /\ g \in {game, corpse} /\ g # None /\ Learned(g)
      /\ g.id = anchor
  <2>1. SInv
    BY DEF FInv
  <2>2. /\ g \in Mode /\ g \in {game, corpse} /\ g # None /\ Learned(g)
        /\ g.id \in Nat /\ anchor \in Nat /\ g.id >= anchor
    BY <2>1, ReadFacts
  <2>3. originOf <= anchor /\ finishOf <= anchor
    BY <2>1 DEF SInv, Anchored
  <2> QED
    BY <2>2, <2>3
<1>2. /\ now.frame = g.frame /\ now.duration = g.duration
      /\ now.gameOver = (g.phase = "over")
  BY DEF StateOf
<1>3. g.phase # "over"
  BY <1>2 DEF Play
<1>4. origin # None
  <2>1. Alive(now)
    BY DEF Play
  <2>2. ~ (heartbeat = g.frame /\ frozen = STALE_TICKS)
    BY <1>2, <2>1, ThresholdAssumption DEF Alive, Frozen, Beats
  <2>3. g.id \in Nat /\ anchor \in Nat
    BY ReadFacts DEF FInv
  <2> QED
    BY <1>1, <1>3, <2>2, <2>3 DEF FInv, Settled
<1>5. origin <= g.frame /\ durationSeen <= g.duration
  BY <1>1, <1>4 DEF Learned
<1>6. origin \in Int /\ durationSeen \in Int /\ g.frame \in Nat
      /\ g.duration \in Nat
  BY <1>1, <1>4, ModeType DEF FInv, SInv, Typed, TypeOK, Optional
<1>7. ~ NewGame(now)
  BY <1>2, <1>5, <1>6 DEF NewGame
<1> QED
  BY <1>4, <1>7 DEF Dates, KeptOrigin

\* What a read makes of the end of the run.
LEMMA FinishMoves ==
  ASSUME FInv, NEW g, Reading(g)
  PROVE  /\ finishOf' \in {0, finishOf, g.id}
         /\ finishOf' # 0 => finished'
         /\ finished /\ ~ finished'
              => Play(timer.phase, StateOf(g)) /\ Dates(StateOf(g))
         /\ finishOf' = 0 => ~ finished' \/ finishOf = 0
<1>1. TypeOK /\ finished \in BOOLEAN
  BY DEF FInv, SInv, Typed, TypeOK
<1>2. finishOf' \in {0, finishOf, g.id}
  BY <1>1, ReadingGoes
<1>3. Remember(g, StateOf(g)) /\ g.id # 0
  BY ReadFacts DEF Reading, FInv
<1>4. finished /\ ~ finished'
        => Play(timer.phase, StateOf(g)) /\ Dates(StateOf(g))
  BY DEF Reading, Read, GameOver, Stale, Play, outcome, NowFinished,
         StillFinished
<1> QED
  BY <1>2, <1>3, <1>4 DEF Remember

\* An object that finished the run keeps it, or gives way to a newer game.
LEMMA FinishIsKept ==
  ASSUME FInv, NEW g, Reading(g), NEW o \in {game, corpse}, o # None,
         finishOf = o.id
  PROVE  finishOf' = o.id \/ o.id < g.id
<1>1. o.id \in Nat /\ o.id > 0 /\ g.id \in Nat /\ finishOf <= g.id
  BY ReadFacts DEF FInv
<1>2. SUFFICES ASSUME o.id = g.id PROVE finishOf' = o.id
  BY <1>1
<1>3. finished
  BY <1>1 DEF FInv, Ending
<1>4. ~ (Play(timer.phase, StateOf(g)) /\ Dates(StateOf(g)))
  BY <1>2, NotDatedAgain
<1> QED
  BY <1>1, <1>2, <1>3, <1>4, FinishMoves

-----------------------------------------------------------------------------
(* The run: every step keeps the invariant *)

LEMMA ForgottenSettles ==
  ASSUME NeverTakenForDead, FInv, NEW g, Reading(g),
         GameOver(timer.phase, StateOf(g)) \/ Stale(StateOf(g))
  PROVE  Settled'
<1> DEFINE now == StateOf(g)
<1>1. SInv /\ TypeOK /\ now.frame = g.frame /\ now.gameOver = (g.phase = "over")
  BY DEF FInv, SInv, Typed, StateOf
<1>2. originOf' = originOf /\ finishOf' \in {0, finishOf}
  <2>1. Remember(g, now) /\ origin' = None /\ finished' = finished
    BY DEF Reading, GameOver, Stale, Forget, outcome
  <2> QED
    BY <2>1 DEF Remember
<1>3. \/ g.phase = "over"
      \/ /\ g.phase # "over" /\ ~ Alive(now)
         /\ heartbeat' = g.frame /\ frozen' = STALE_TICKS
  <2>1. ASSUME Stale(now), g.phase # "over"
        PROVE  heartbeat' = g.frame /\ frozen' = STALE_TICKS /\ ~ Alive(now)
    <3>1. frozen \in 0..STALE_TICKS
      BY <1>1 DEF TypeOK
    <3> QED
      BY <1>1, <2>1, <3>1, ThresholdAssumption
         DEF Stale, Alive, Frozen, Beats
  <2> QED
    BY <1>1, <2>1 DEF GameOver
<1>4. game # None /\ game.id \in {originOf', finishOf'} => game.phase = "over"
  <2>1. game # None /\ game.id \in {originOf, finishOf} => game = g
    BY <1>1, ReadFacts
  <2>2. game = g => game.phase = "over"
    BY <1>1, <1>3, LiveIsAlive
  <2>3. game # None => game.id # 0
    BY <1>1, ReadFacts
  <2> QED
    BY <1>2, <2>1, <2>2, <2>3
<1>5. UNCHANGED <<game, corpse>> /\ anchor' = g.id
      /\ (corpse # None => corpse.id < g.id \/ corpse = g)
  BY <1>1, ReadFacts
<1> QED
  BY <1>3, <1>4, <1>5 DEF Settled

LEMMA PlayedSettles ==
  ASSUME FInv, NEW g, Reading(g), Play(timer.phase, StateOf(g))
  PROVE  Settled'
<1> DEFINE now == StateOf(g)
<1>1. SInv /\ TypeOK
  BY DEF FInv, SInv, Typed
<1>2. origin' = NextOrigin(now) /\ finished' = NowFinished(now)
  BY DEF Play
<1>3. g \in Mode
  BY <1>1, ReadFacts
<1>4. CASE g.id \in {originOf, finishOf}
  BY <1>2, <1>4, NotDatedAgain DEF NextOrigin, KeptOrigin, Settled
<1>5. CASE Dates(now)
  BY <1>2, <1>3, <1>5, DatesAnOrigin DEF Settled
<1>6. CASE ~ Dates(now) /\ g.id \notin {originOf, finishOf}
  <2>1. Remember(g, now)
    BY DEF Reading
  <2>2. originOf' = originOf
    BY <1>6, <2>1 DEF Remember
  <2>3. ASSUME origin' = None PROVE finishOf' # g.id
    <3>1. Locked(g) /\ now.locked = Locked(g)
      BY <1>2, <1>6, <2>3 DEF NextOrigin, Dates, StateOf
    <3>2. ~ (g.remaining > 0)
      <4>1. g.phase # "over" /\ g.phase # "play"
        BY <3>1 DEF Locked
      <4>2. Clocks(g) /\ g \in {game, corpse} /\ g # None
            /\ g.id \in Nat /\ anchor \in Nat /\ g.id >= anchor
        BY <1>1, ReadFacts
      <4> QED
        BY <1>6, <3>1, <4>1, <4>2 DEF FInv, Ending, Locked, Clocks
    <3>3. ~ Finishes(now)
      BY <3>2 DEF Finishes, Started, StateOf
    <3>4. finished' => finished
      BY <1>2, <3>3 DEF NowFinished, StillFinished
    <3>5. g.id # 0
      BY <1>1, ReadFacts
    <3> QED
      BY <1>6, <2>1, <3>4, <3>5 DEF Remember
  <2>4. finishOf' \in {0, finishOf, g.id}
    BY FinishMoves
  <2>5. UNCHANGED <<game, corpse>> /\ anchor' = g.id
        /\ (game # None => game.id >= g.id /\ (game.id = g.id => game = g))
        /\ (corpse # None => corpse.id < g.id \/ corpse = g)
        /\ originOf <= g.id /\ finishOf <= g.id
        /\ originOf \in Nat /\ finishOf \in Nat /\ g.id \in Nat /\ g.id > 0
        /\ \A o \in {game, corpse} : o # None => o.id \in Nat /\ o.id > 0
    BY <1>1, ReadFacts
  <2>6. ASSUME origin' = None, NEW o \in {game, corpse}, o # None,
               o.id \in {originOf', finishOf'}
        PROVE  o.id < g.id
    BY <1>6, <2>2, <2>3, <2>4, <2>5, <2>6
  <2> QED
    BY <2>5, <2>6 DEF Settled
<1> QED
  BY <1>4, <1>5, <1>6

LEMMA ReadingEnds ==
  ASSUME FInv, NEW g, Reading(g)
  PROVE  Ending'
<1>1. SInv
  BY DEF FInv
<1>2. UNCHANGED <<game, corpse>> /\ anchor' = g.id
      /\ (game # None => game.id >= g.id)
      /\ g.id \in Nat /\ anchor \in Nat /\ g.id >= anchor
      /\ \A o \in {game, corpse} : o # None => o.id \in Nat /\ o.id > 0
  BY <1>1, ReadFacts
<1>3. finishOf' # 0 => finished'
  BY FinishMoves
<1>4. game # None /\ finishOf = game.id => finishOf' = game.id
  BY <1>2, FinishIsKept
<1>5. corpse # None /\ finishOf = corpse.id
        => finishOf' = corpse.id \/ corpse.id < g.id
  BY <1>2, FinishIsKept
<1> QED
  BY <1>2, <1>3, <1>4, <1>5 DEF FInv, Ending

LEMMA ReadingSettles ==
  ASSUME NeverTakenForDead, FInv, NEW g, Reading(g)
  PROVE  Settled' /\ Ending'
BY ForgottenSettles, PlayedSettles, ReadingEnds DEF Reading, Read

\* What the invariant asks of the mode that runs, frame after frame.
Ends(g) ==
  g.remaining > 0 /\ g.phase # "over" /\ finishOf # g.id
    => g.phase = "play" /\ g.frame - g.endedAt = FULL_MS - g.remaining

LEMMA FrameEnds ==
  ASSUME FInv, game # None, NEW g, Frame(g), Goes(game, game'), Ends(game')
  PROVE  Settled' /\ Ending'
<1>1. /\ UNCHANGED <<corpse, anchor, originOf, finishOf>>
      /\ UNCHANGED <<origin, heartbeat, frozen, finished>>
  BY RestsFacts DEF Frame, loop, history
<1>2. game'.id = game.id /\ game.phase # "over"
  BY DEF Goes
<1> QED
  BY <1>1, <1>2 DEF FInv, Settled, Ending, Ends

\* A frame that leaves remaining and the phase of a game that plays alone, or
\* that ends the game, or before the elevator.
LEMMA QuietFramesEnd ==
  ASSUME FInv, BlackScreen \/ Unlock \/ PlayOn \/ Resume
  PROVE  game'.remaining = 0
<1>1. game # None
  BY DEF BlackScreen, Unlock, PlayOn, Resume
<1>2. game \in Mode /\ Clocks(game)
  BY <1>1, BeforeAFrame DEF FInv
<1>3. game.remaining = 0
  BY <1>2 DEF BlackScreen, Unlock, PlayOn, Resume, Clocks
<1> QED
  BY <1>2, <1>3 DEF BlackScreen, Unlock, PlayOn, Resume, Frame, Running, Mode

LEMMA StopEnds ==
  ASSUME FInv, Stop \/ StayStopped
  PROVE  Ends(game')
<1>1. game # None
  BY DEF Stop, StayStopped
<1>2. game \in Mode
  BY <1>1, BeforeAFrame DEF FInv
<1>3. game'.remaining = game.remaining /\ game'.id = game.id
  BY <1>2 DEF Stop, StayStopped, Frame, Mode
<1>4. game.remaining > 0 => finishOf = game.id
  BY <1>1 DEF Stop, StayStopped, FInv, Ending
<1> QED
  BY <1>3, <1>4 DEF Ends

LEMMA ElevatorEnds ==
  ASSUME FInv, Elevator
  PROVE  Ends(game')
<1>1. game # None /\ game.phase = "play"
  BY DEF Elevator
<1>2. game \in Mode /\ clock \in Nat
  BY <1>1, BeforeAFrame DEF FInv
<1>3. /\ game'.remaining = FULL_MS /\ game'.endedAt = clock + 1
      /\ game'.frame = clock + 1 /\ game'.phase = "play"
  BY <1>1, <1>2 DEF Elevator, Frame, Running, Mode
<1> QED
  BY <1>2, <1>3, ThresholdAssumption DEF Ends

LEMMA CinematicEnds ==
  ASSUME FInv, Cinematic
  PROVE  Ends(game')
<1>1. /\ game # None /\ game.phase \in {"play", "stopped"}
      /\ game.remaining > 0
  BY DEF Cinematic
<1>2. /\ game \in Mode /\ clock \in Nat /\ game.frame = clock
      /\ game.remaining \in 0..FULL_MS
  BY <1>1, BeforeAFrame DEF FInv
<1>3. /\ game'.remaining = game.remaining - 1
      /\ game'.endedAt = game.endedAt /\ game'.id = game.id
      /\ game'.frame = clock + 1
      /\ game'.phase = IF game.remaining = 1 THEN "over" ELSE "play"
  BY <1>1, <1>2 DEF Cinematic, Frame, Running, Mode
<1>4. finishOf # game.id
        => game.phase = "play"
           /\ game.frame - game.endedAt = FULL_MS - game.remaining
  BY <1>1 DEF FInv, Ending
<1>5. game.endedAt \in Nat
  BY <1>1, <1>2, ModeType
<1> QED
  BY <1>1, <1>2, <1>3, <1>4, <1>5, ThresholdAssumption DEF Ends

LEMMA DieEnds ==
  ASSUME FInv, Die
  PROVE  Ends(game')
<1>1. game # None /\ game \in Mode
  BY BeforeAFrame DEF Die, FInv
<1>2. game'.phase = "over"
  BY <1>1 DEF Die, Frame, Running, Mode
<1> QED
  BY <1>2 DEF Ends

LEMMA FramesEnd ==
  ASSUME FInv,
         \/ BlackScreen \/ Unlock \/ PlayOn \/ Stop \/ StayStopped
         \/ Resume \/ Elevator \/ Cinematic \/ Die
  PROVE  Settled' /\ Ending'
<1>1. game # None /\ Goes(game, game')
  BY BlackScreenGoes, UnlockGoes, PlayOnGoes, StopGoes, StayStoppedGoes,
     ResumeGoes, ElevatorGoes, CinematicGoes, DieGoes DEF FInv
<1>2. \E g : Frame(g)
  BY DEF BlackScreen, Unlock, PlayOn, Stop, StayStopped, Resume, Elevator,
         Cinematic, Die
<1>3. game'.remaining = 0 => Ends(game')
  BY DEF Ends
<1>4. Ends(game')
  BY <1>3, QuietFramesEnd, StopEnds, ElevatorEnds, CinematicEnds, DieEnds
<1> QED
  BY <1>1, <1>2, <1>4, FrameEnds

LEMMA LaunchEnds ==
  ASSUME FInv, Launch
  PROVE  Settled' /\ Ending'
<1>1. /\ UNCHANGED <<corpse, anchor, originOf, finishOf>>
      /\ UNCHANGED <<origin, heartbeat, frozen, finished>>
  BY RestsFacts DEF Launch, loop, history
<1>2. game'.remaining = 0 /\ game'.id = games + 1
  BY DEF Launch, NewMode
<1>3. /\ games \in Nat /\ anchor <= games /\ anchor \in Nat
      /\ originOf <= anchor /\ finishOf <= anchor
      /\ originOf \in Nat /\ finishOf \in Nat
  BY DEF FInv, SInv, Typed, Anchored
<1> QED
  BY <1>1, <1>2, <1>3 DEF FInv, Settled, Ending

LEMMA QuitEnds ==
  ASSUME FInv, Quit
  PROVE  Settled' /\ Ending'
<1>1. /\ UNCHANGED <<anchor, originOf, finishOf>>
      /\ UNCHANGED <<origin, heartbeat, frozen, finished>>
      /\ game # None /\ game' = None
  BY RestsFacts DEF Quit, history
<1>2. /\ corpse'.id = game.id /\ corpse'.phase = game.phase
      /\ corpse'.remaining = game.remaining
  BY QuitMode DEF FInv
<1> QED
  BY <1>1, <1>2 DEF FInv, Settled, Ending

LEMMA OthersEnd ==
  ASSUME FInv, Restart \/ RunnerResets \/ ReadNothing \/ UNCHANGED vars
  PROVE  Settled' /\ Ending'
<1>1. UNCHANGED <<originOf, finishOf, anchor>>
  BY DEF Restart, RunnerResets, ReadNothing, vars, loop, history
<1>2. UNCHANGED <<origin, heartbeat, frozen, finished>>
  BY RestsFacts, NoSightAssumption
     DEF Restart, RunnerResets, ReadNothing, TickOn, Tick, NoGame,
         SurvivesALostRead, beat, outcome, vars, policyVars
<1>3. game' = game /\ (corpse' = None \/ corpse' = corpse)
  BY DEF Restart, RunnerResets, ReadNothing, TickOn, vars, gameVars
<1> QED
  BY <1>1, <1>2, <1>3 DEF FInv, Settled, Ending

LEMMA SessionNextEnds ==
  ASSUME NeverTakenForDead, FInv, [SessionNext]_vars
  PROVE  FInv'
<1>1. SInv'
  BY SessionNextKeeps DEF FInv
<1>2. CASE GameStep
  BY <1>1, <1>2, FramesEnd, LaunchEnds, QuitEnds, OthersEnd
     DEF GameStep, FInv
<1>3. CASE ReadGame
  BY <1>1, <1>3, ReadGameReads, ReadingSettles DEF FInv, SInv
<1> QED
  BY <1>1, <1>2, <1>3, OthersEnd DEF SessionNext, FInv

LEMMA RunInvariant ==
  ASSUME NeverTakenForDead
  PROVE  SessionSpec => []FInv
<1>1. SessionInit => FInv
  BY SessionInitKeeps DEF SessionInit, Init, FInv, Settled, Ending
<1>2. FInv /\ [SessionNext]_vars => FInv'
  BY SessionNextEnds
<1> QED
  BY <1>1, <1>2, PTL DEF SessionSpec

-----------------------------------------------------------------------------
(* What the run of a session never does *)

\* A step that is not a read of a game leaves alone what the policy knows of
\* the game and of the run.
LEMMA OthersKeepTheRun ==
  ASSUME [SessionNext]_vars, ~ ReadGame
  PROVE  UNCHANGED <<origin, finished, finishTime, originOf, finishOf>>
<1>1. CASE PolicyRests /\ UNCHANGED <<originOf, finishOf>>
  BY <1>1, RestsFacts
<1>2. CASE ReadNothing
  BY <1>2, NoSightAssumption
     DEF ReadNothing, TickOn, Tick, NoGame, SurvivesALostRead, outcome
<1>3. CASE UNCHANGED vars
  BY <1>3 DEF vars, history, policyVars
<1>4. GameStep \/ RunnerResets
        => PolicyRests /\ UNCHANGED <<originOf, finishOf>>
  BY DEF GameStep, Launch, BlackScreen, Unlock, PlayOn, Stop, StayStopped,
         Resume, Elevator, Cinematic, Die, Quit, Restart, RunnerResets, Frame,
         history
<1> QED
  BY <1>1, <1>2, <1>3, <1>4 DEF SessionNext

\* A game is dated once, however often its object is lost and found again:
\* no read of it counts for another game (Policy::update_origin).
THEOREM DatedOnce ==
  ASSUME NeverTakenForDead
  PROVE  SessionSpec => OneOriginPerGame
<1>1. ASSUME FInv, [SessionNext]_vars
      PROVE  [origin' # None /\ originOf' = originOf => origin' = origin]_vars
  <2>1. ASSUME ReadGame, origin' # None, originOf' = originOf
        PROVE  origin' = origin
    <3>1. PICK g : Reading(g)
      BY <1>1, <2>1, ReadGameReads DEF FInv, SInv
    <3>2. Went(g) /\ Play(timer.phase, StateOf(g))
      BY <1>1, <2>1, <3>1, ReadingGoes DEF FInv, SInv, Typed, Forgot
    <3>3. ~ Dates(StateOf(g))
      BY <1>1, <2>1, <3>1, <3>2, NotDatedAgain DEF Went
    <3> QED
      BY <2>1, <3>2, <3>3 DEF Went, NextOrigin, KeptOrigin
  <2> QED
    BY <1>1, <2>1, OthersKeepTheRun
<1> QED
  BY <1>1, RunInvariant, PTL DEF SessionSpec, OneOriginPerGame

\* A finished run stays finished until a game that did not finish it is dated:
\* no read of the cinematic, of its pauses, or of the game over ends it.
THEOREM StaysFinished ==
  ASSUME NeverTakenForDead
  PROVE  SessionSpec => FinishedUntilAnotherGame
<1>1. ASSUME FInv, [SessionNext]_vars
      PROVE  [finished /\ ~ finished' => originOf' # finishOf]_vars
  <2>1. ASSUME ReadGame, finished, ~ finished'
        PROVE  originOf' # finishOf
    <3>1. PICK g : Reading(g)
      BY <1>1, <2>1, ReadGameReads DEF FInv, SInv
    <3>2. Play(timer.phase, StateOf(g)) /\ Dates(StateOf(g))
      BY <1>1, <2>1, <3>1, FinishMoves
    <3>3. g.id # finishOf
      BY <1>1, <3>1, <3>2, NotDatedAgain
    <3>4. Went(g) \/ Forgot
      BY <1>1, <3>1, ReadingGoes DEF FInv, SInv, Typed
    <3>5. origin' # None
      BY <1>1, <3>1, <3>2, ReadFacts, DatesAnOrigin DEF Play, FInv
    <3> QED
      BY <3>2, <3>3, <3>4, <3>5 DEF Went, Forgot
  <2> QED
    BY <1>1, <2>1, OthersKeepTheRun
<1> QED
  BY <1>1, RunInvariant, PTL DEF SessionSpec, FinishedUntilAnotherGame

\* The read that notices the elevator, and how long ago it was.
LEMMA TheElevatorIsNoticed ==
  ASSUME FInv, NEW g, Reading(g), finishTime' # finishTime,
         finishTime' # None, game # None, finishOf' = game.id
  PROVE  finishTime' + origin' =
           IF game.frame - game.endedAt <= MAX_CORRECTION_MS
           THEN game.endedAt
           ELSE game.frame
<1> DEFINE now == StateOf(g)
<1>1. Play(timer.phase, now)
  BY DEF Reading, Read, GameOver, Stale, outcome
<1>2. Finishes(now) /\ RealTime(now) # None
  BY <1>1 DEF Play, NextFinishTime
<1>3. NextOrigin(now) # None /\ origin' = NextOrigin(now) /\ finished'
  BY <1>1, <1>2 DEF Play, RealTime, NowFinished
<1>4. ~ finished \/ Dates(now)
  BY <1>2 DEF Finishes, StillFinished
<1>5. finishOf' = g.id
  <2>1. Remember(g, now)
    BY DEF Reading
  <2> QED
    BY <1>3, <1>4, <2>1 DEF Remember
<1>6. game = g /\ g \in Mode /\ g.id > 0 /\ g.id \in Nat
  BY <1>5, ReadFacts DEF FInv
<1>7. finishOf # game.id
  BY <1>1, <1>4, <1>6, NotDatedAgain DEF FInv, Ending
<1>8. g.remaining > 0 /\ g.phase # "over"
  BY <1>1, <1>2 DEF Play, Finishes, Started, StateOf
<1>9. g.frame - g.endedAt = FULL_MS - g.remaining
  BY <1>6, <1>7, <1>8 DEF FInv, Ending
<1>10. now.frame = g.frame /\ now.remaining = g.remaining
  BY DEF StateOf
<1>11. /\ g.frame \in Nat /\ g.endedAt \in Nat
       /\ g.remaining \in 0..FULL_MS /\ FULL_MS \in Nat
       /\ MAX_CORRECTION_MS \in Nat
  BY <1>6, ModeType, ThresholdAssumption
<1>12. origin' \in Int
  <2>1. now \in State /\ TypeOK
    BY <1>6, StateOfType DEF FInv, SInv, Typed
  <2>2. NextOrigin(now) \in Optional(Int)
    BY <2>1, NextOriginType DEF TypeOK
  <2> QED
    BY <1>3, <2>2 DEF Optional
<1>13. finishTime' = (g.frame - origin') - SinceTheElevator(now)
  BY <1>1, <1>2, <1>3, <1>10 DEF Play, NextFinishTime, RealTime
<1>14. SinceTheElevator(now) =
         IF g.frame - g.endedAt <= MAX_CORRECTION_MS
         THEN g.frame - g.endedAt
         ELSE 0
  BY <1>8, <1>9, <1>10, <1>11 DEF SinceTheElevator, Started
<1> QED
  BY <1>6, <1>11, <1>12, <1>13, <1>14

\* The final time is the one of the elevator, whichever read notices it, and
\* whatever pauses come behind it (end_sequence.rs).
THEOREM TheFinishIsTheElevator ==
  ASSUME NeverTakenForDead
  PROVE  SessionSpec => FinishIsTheElevator
<1>1. ASSUME FInv, [SessionNext]_vars
      PROVE  [finishTime' # finishTime /\ finishTime' # None
              /\ game # None /\ finishOf' = game.id /\ originOf' = game.id
                => finishTime' + origin' =
                     IF game.frame - game.endedAt <= MAX_CORRECTION_MS
                     THEN game.endedAt
                     ELSE game.frame]_vars
  <2>1. CASE ReadGame
    <3>1. PICK g : Reading(g)
      BY <1>1, <2>1, ReadGameReads DEF FInv, SInv
    <3> QED
      BY <1>1, <3>1, TheElevatorIsNoticed
  <2>2. CASE ~ ReadGame
    BY <1>1, <2>2, OthersKeepTheRun
  <2> QED
    BY <2>1, <2>2
<1> QED
  BY <1>1, RunInvariant, PTL DEF SessionSpec, FinishIsTheElevator

-----------------------------------------------------------------------------
(* The run on the timer is the run of the game *)

\* Until a game is declared dead, the clock a restart is decided by is the one
\* of the last level confirmed, as long as the run goes on.
LEMMA ClockIsRemembered ==
  ASSUME SInv, Remembered, [SessionNext]_vars
  PROVE  Remembered'
<1>1. CASE ReadGame
  <2>1. PICK g : Reading(g)
    BY <1>1, ReadGameReads DEF SInv
  <2> DEFINE now == StateOf(g)
  <2>2. Remember(g, now) /\ now.chrono = g.chrono
        /\ now.gameOver = (g.phase = "over")
    BY <2>1 DEF Reading, StateOf
  <2>3. g.phase # "over" /\ ~ Alive(now) => rested'
    <3>1. ASSUME ~ Alive(now) PROVE ~ (prev' # None /\ Confirmed(now))
      <4>1. CASE Play(timer.phase, now)
        BY <3>1, <4>1 DEF Play
      <4>2. CASE GameOver(timer.phase, now) \/ Stale(now)
        BY <4>2 DEF GameOver, Stale, Forget
      <4> QED
        BY <2>1, <4>1, <4>2 DEF Reading, Read
    <3> QED
      BY <2>2, <3>1 DEF Remember
  <2>4. CASE g.phase = "over"
    BY <2>2, <2>4 DEF Remember, Remembered
  <2>5. CASE Play(timer.phase, now)
    <3>1. g.chrono # None
      BY <2>1, ReadFacts, ModeType, NoneIsApart
    <3>2. prev' = IF Confirmed(now) THEN g.chrono ELSE prev
      BY <2>2, <2>5 DEF Play
    <3> QED
      BY <2>2, <3>1, <3>2 DEF Remember, Remembered
  <2>6. g.phase # "over" /\ Alive(now) => Play(timer.phase, now)
    BY <2>1, <2>2 DEF Reading, Read, GameOver, Stale
  <2> QED
    BY <2>3, <2>4, <2>5, <2>6 DEF Remembered
<1>2. CASE ReadNothing
  BY <1>2, NoSightAssumption
     DEF ReadNothing, TickOn, Tick, NoGame, SurvivesALostRead, Remembered
<1>3. CASE PolicyRests /\ UNCHANGED <<met, rested>>
  BY <1>3, RestsFacts DEF Remembered
<1>4. CASE UNCHANGED vars
  BY <1>4 DEF vars, history, policyVars, Remembered
<1>5. GameStep \/ RunnerResets => PolicyRests /\ UNCHANGED <<met, rested>>
  BY DEF GameStep, Launch, BlackScreen, Unlock, PlayOn, Stop, StayStopped,
         Resume, Elevator, Cinematic, Die, Quit, Restart, RunnerResets, Frame,
         history
<1> QED
  BY <1>1, <1>2, <1>3, <1>4, <1>5 DEF SessionNext

\* An ended timer that is not reset does not run: a start means nothing to it.
LEMMA EndedStaysEnded ==
  ASSUME NEW t \in Timers, NEW a \in Actions, t.phase = "Ended",
         ~ a.reset, ~ a.split
  PROVE  C!Apply(t, a).phase # "Running"
<1>1. C!Advanced(C!Restarted(t, a), a) = t
  BY DEF C!Restarted, C!Advanced, C!Timer!Start
<1>2. C!Apply(t, a) = C!Timed(t, a)
  BY <1>1 DEF C!Apply
<1> DEFINE p == IF a.time # None /\ C!Led(a) < MAX
                THEN C!Timer!PauseGameTime(t)
                ELSE t
<1>3. p \in Timers /\ p.phase = "Ended"
  BY TimerOps DEF C!Timer!PauseGameTime, Timers
<1>4. \A n : [p EXCEPT !.gameTime = n].phase = "Ended"
  BY <1>3 DEF Timers
<1> QED
  BY <1>2, <1>3, <1>4 DEF C!Timed, C!Timer!SetGameTime

\* A read that confirms the level of a game whose clock has fallen restarts
\* the timer for that game, unless the timer does not run.
LEMMA TheRunIsRestarted ==
  ASSUME SInv, Remembered, ~ rested, NEW g, Reading(g),
         Confirmed(StateOf(g)), launched', ~ finished',
         met > g.chrono + CLOCK_SLACK, timer'.phase = "Running", runOf' # 0
  PROVE  runOf' = g.id
<1> DEFINE now == StateOf(g)
<1>1. now.chrono = g.chrono /\ g.chrono \in Nat /\ met \in Int
      /\ CLOCK_SLACK \in Nat /\ timer \in Timers
  BY ReadFacts, ModeType, ThresholdAssumption DEF StateOf, SInv, Typed
<1>2. prev = met /\ met \in Int /\ prev # None
  BY <1>1, NoneIsApart DEF Remembered
<1>3. Play(timer.phase, now)
  BY DEF Reading, Read, GameOver, Stale, Forget
<1>4. Decides(now)
  BY <1>2, <1>3 DEF Decides, Play
<1>5. /\ actions' = Ordered(timer.phase, now) /\ Remember(g, now)
      /\ timer' = C!Apply(timer, actions')
  BY <1>3 DEF Play, Reading
<1>6. actions'.start
  BY <1>1, <1>2, <1>4, <1>5 DEF Ordered, Rewinds
<1>7. CASE RestartsEnded(timer.phase, now)
  BY <1>5, <1>6, <1>7 DEF Ordered, Remember
<1>8. CASE ~ RestartsEnded(timer.phase, now)
  <2>1. Rewinds(timer.phase, now)
    BY <1>1, <1>2, <1>4, <1>8 DEF Rewinds
  <2>2. timer.phase = "Running" => actions'.reset
    BY <1>5, <2>1 DEF Ordered
  <2>3. timer.phase # "Ended"
    <3>1. ASSUME timer.phase = "Ended" PROVE FALSE
      <4>1. actions' \in Actions /\ OneStory'
        <5>1. g \in Mode /\ Typed
          BY ReadFacts DEF SInv
        <5>2. TypeOK' /\ OneStory'
          BY <5>1, StateOfType, TickTypes DEF Reading, Optional
        <5> QED
          BY <5>2 DEF TypeOK
      <4>2. ~ actions'.reset
        BY <1>5, <1>8, <3>1 DEF Ordered
      <4>3. ~ actions'.split
        BY <1>6, <4>1 DEF OneStory
      <4> QED
        BY <1>1, <1>5, <3>1, <4>1, <4>2, <4>3, EndedStaysEnded
    <3> QED
      BY <3>1
  <2>4. timer.phase \in {"Running", "NotRunning"}
    BY <1>1, <2>3 DEF Timers
  <2> QED
    BY <1>5, <1>6, <2>2, <2>4 DEF Remember
<1> QED
  BY <1>7, <1>8

\* The segments of an unfinished run are not gone on with in the next game,
\* as long as no game was declared dead since the last level confirmed
\* (policy.rs:218): its clock, which falls, restarts the timer for it.
THEOREM RunsFollowTheirGame == SessionSpec => TheRunFollowsTheGame
<1>1. SessionInit => Remembered
  BY DEF SessionInit, Remembered
<1>2. SInv /\ Remembered /\ [SessionNext]_vars => Remembered'
  BY ClockIsRemembered
<1>3. ASSUME SInv, Remembered
      PROVE  [MeetsAnotherGame /\ ~ rested => ~ GoesOnWithTheRun]_vars
  <2>1. SUFFICES ASSUME ReadGame, held = "game", Confirmed(StateOf(game)),
                        launched', ~ finished', ~ rested,
                        met > game.chrono + CLOCK_SLACK,
                        timer'.phase = "Running", runOf' # 0
                 PROVE  runOf' = game.id
    BY DEF MeetsAnotherGame, GoesOnWithTheRun
  <2>2. Reading(game)
    BY <1>3, <2>1, ReadGameReads DEF SInv
  <2> QED
    BY <1>3, <2>1, <2>2, TheRunIsRestarted
<1> QED
  BY <1>1, <1>2, <1>3, SessionInvariant, PTL DEF SessionSpec, TheRunFollowsTheGame

=============================================================================
