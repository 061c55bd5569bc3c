------------------------------ MODULE Session -------------------------------
(***************************************************************************)
(* One session of the autosplitter: the games a player launches, quits and *)
(* finishes, the loop of src/lib.rs that reads them, the policy, and the   *)
(* LiveSplit timer.                                                        *)
(*                                                                         *)
(* The game moves one frame at a time and the loop ticks whenever it wants *)
(* to, so any number of frames fits between two reads and any number of    *)
(* reads inside one frame.  A game that is quit leaves an object that      *)
(* stays readable, with the bytes of its last frame; the loop may find it  *)
(* as well as the live one, and any read may fail.                         *)
(*                                                                         *)
(* Time is counted in frames: one frame is one unit of every clock.        *)
(***************************************************************************)
EXTENDS Policy

CONSTANTS
  MAX, SEGMENTS,
  BLACK,        \* the longest black screen, in frames
  MAX_CLOCK,    \* bound: the clock of the first process stops there
  MAX_GAMES,    \* bound: games launched in one session
  MAX_PROCESSES,\* bound: player processes of one session
  RunnerActs,   \* may the runner reset the timer by hand?
  MAX_STALL     \* reads a live game may answer within one frame

ASSUME SessionAssumption ==
  /\ MAX \in Nat /\ MAX >= WARP_REACH + 4
  /\ SEGMENTS \in Nat \ {0}
  /\ BLACK \in Nat /\ MAX_CLOCK \in Nat /\ MAX_GAMES \in Nat
  /\ MAX_PROCESSES \in Nat /\ MAX_STALL \in Nat
  /\ RunnerActs \in BOOLEAN

\* The black screen lasts 0.55 s, and the game clock must fall by more than
\* 2 s for another game to be seen in it.
ASSUME BlackAssumption == BLACK < CLOCK_SLACK

C == INSTANCE Commands

VARIABLES
  processes, \* player processes so far
  clock,     \* the clock of the player process
  games,     \* games launched so far; a game is named by its number
  game,      \* the GameMode that runs, or None
  corpse,    \* the GameMode of the last game quit, while still readable
  held,      \* the object the loop holds
  anchor,    \* the latest game found: the search is led to it, or to a newer
  timer,     \* the LiveSplit timer
  \* What happened, for the properties only:
  originOf,  \* the last game an origin was set by
  runOf,     \* the game the timer was started for
  finishOf,  \* the game that finished the run
  met,       \* the game clock of the last level confirmed, in a run and a game
             \* that are not over
  rested,    \* was a game declared dead since that level?
  clockOf    \* the game prev is the clock of

gameVars == <<processes, clock, games, game, corpse>>
loop == <<held, anchor>>
history == <<originOf, runOf, finishOf, met, rested, clockOf>>
vars == <<gameVars, loop, timer, history, policyVars>>

\* The orders of a tick are consumed by that tick.
PolicyRests ==
  /\ actions' = Nothing
  /\ UNCHANGED <<prev, seen, route, sawNoGame, launched, origin, durationSeen,
                 hadGame, lost, beat, outcome>>

-----------------------------------------------------------------------------
(* The game: external, as the reader and the docs describe it *)

Phases == {"black", "play", "stopped", "over"}

Mode ==
  [id : Nat \ {0}, phase : Phases, level : Int, frame : Nat, chrono : Nat,
   duration : Nat, remaining : 0..FULL_MS, startedAt : Nat, endedAt : Nat]

ASSUME NoModeAssumption == None \notin Mode

NewMode(id) ==
  [id |-> id, phase |-> "black", level |-> FIRST_LEVEL, frame |-> 0,
   chrono |-> 0, duration |-> 0, remaining |-> 0, startedAt |-> 0,
   endedAt |-> 0]

Locked(g) == g.phase \in {"black", "stopped"}

StateOf(g) ==
  [level |-> [world |-> Adventure, id |-> g.level], chrono |-> g.chrono,
   frame |-> g.frame, gameOver |-> g.phase = "over", locked |-> Locked(g),
   duration |-> g.duration, remaining |-> g.remaining]

\* Bound: each process shows one frame less than the one before.
LastFrame == MAX_CLOCK + 1 - processes

\* The clock of the player goes on in the menus.
Launch ==
  /\ game = None /\ games < MAX_GAMES
  /\ games' = games + 1
  /\ clock' \in {clock, clock + 1} \cap 0..LastFrame
  /\ game' = [NewMode(games') EXCEPT !.frame = clock']
  /\ PolicyRests
  /\ UNCHANGED <<processes, corpse, loop, timer, history>>

\* One frame: the mode g takes the place of the one of the last frame.
Frame(g) ==
  /\ clock < LastFrame
  /\ clock' = clock + 1
  /\ game' = [g EXCEPT !.frame = clock']
  /\ PolicyRests
  /\ UNCHANGED <<processes, games, corpse, loop, timer, history>>

Running(g) == [g EXCEPT !.chrono = @ + 1, !.duration = @ + 1]

\* The black screen: the game clock runs, duration does not.
BlackScreen ==
  /\ game # None /\ game.phase = "black" /\ game.chrono < BLACK
  /\ Frame([game EXCEPT !.chrono = @ + 1])

Unlock ==
  /\ game # None /\ game.phase = "black"
  /\ Frame([game EXCEPT !.phase = "play", !.chrono = @ + 1,
                         !.startedAt = clock + 1])

PlayOn ==
  /\ game # None /\ game.phase = "play" /\ game.remaining = 0
  /\ Frame(Running(game))

\* A pause, or the move to another level: both lock the game.  One read
\* cannot hold a pause: none fits between the elevator and its notice.
Stop ==
  /\ game # None /\ game.phase = "play"
  /\ game.remaining > 0 => finishOf = game.id
  /\ \E level \in {game.level, game.level + 1} :
       /\ level \in {FIRST_LEVEL, FIRST_LEVEL + 1}
       /\ game.remaining > 0 => level = game.level
       /\ Frame([game EXCEPT !.phase = "stopped", !.level = level])

StayStopped ==
  /\ game # None /\ game.phase = "stopped"
  /\ Frame(game)

Resume ==
  /\ game # None /\ game.phase = "stopped" /\ game.remaining = 0
  /\ Frame([Running(game) EXCEPT !.phase = "play"])

\* The elevator of the last level, then the cinematic, then game over.
Elevator ==
  /\ game # None /\ game.phase = "play" /\ game.remaining = 0
  /\ Frame([Running(game) EXCEPT !.remaining = FULL_MS,
                                 !.endedAt = clock + 1])

Cinematic ==
  /\ game # None /\ game.phase \in {"play", "stopped"} /\ game.remaining > 0
  /\ Frame([Running(game) EXCEPT
       !.remaining = @ - 1,
       !.phase = IF game.remaining = 1 THEN "over" ELSE "play"])

\* The player runs out of lives.
Die ==
  /\ game # None /\ game.phase = "play"
  /\ Frame([Running(game) EXCEPT !.phase = "over"])

\* Back to the menu: the mode no longer runs, and stays readable.
Quit ==
  /\ game # None
  /\ game' = None
  /\ corpse' = [game EXCEPT !.startedAt = 0, !.endedAt = 0]
  /\ held' = IF held = "game" THEN "corpse" ELSE "none"
  /\ PolicyRests
  /\ UNCHANGED <<processes, clock, games, anchor, timer, history>>

\* The process closes; the next one starts its clock again.  The policy and
\* the timer outlive it.  One that shows no game is not told from none.
Restart ==
  /\ game = None /\ processes < MAX_PROCESSES /\ games < MAX_GAMES
  /\ processes' = processes + 1
  /\ clock' = 0
  /\ corpse' = None
  /\ held' = "none"
  /\ PolicyRests
  /\ UNCHANGED <<games, game, anchor, timer, history>>

RunnerResets ==
  /\ RunnerActs /\ timer.phase # "NotRunning"
  /\ timer' = C!Timer!Stopped
  /\ runOf' = 0
  /\ PolicyRests
  /\ UNCHANGED <<gameVars, loop, originOf, finishOf, met, rested, clockOf>>

-----------------------------------------------------------------------------
(* The loop *)

Object(handle) ==
  CASE handle = "game" -> game
    [] handle = "corpse" -> corpse
    [] handle = "none" -> None

\* What a search may find: any readable game that is not over, and that is
\* not older than the game the anchor leads to.
Findable ==
  {h \in {"game", "corpse"} :
     /\ Object(h) # None
     /\ Object(h).phase # "over"
     /\ Object(h).id >= anchor}

\* A read of a live game comes from a frame that is not too old.  A dead one
\* is read until it is declared dead: the player rests in the menu.
Fresh(handle, now) ==
  handle = "game" /\ ~ now.gameOver => Beats(now) \/ frozen < MAX_STALL

\* One tick on the object the loop holds, or has just found: read it, ask
\* the policy, send its commands, and drop the object when it says so.
TickOn(handle, read) ==
  /\ Tick(timer.phase, read)
  /\ timer' = C!Apply(timer, actions')
  /\ held' = IF actions'.drop THEN "none" ELSE handle
  /\ UNCHANGED gameVars

\* What a tick on the mode g, read as now, leaves in the history.
Remember(g, now) ==
  LET dated == origin' # None /\ Dates(now)
      started == /\ actions'.start
                 /\ timer.phase = "NotRunning" \/ actions'.reset
      confirmed == prev' # None /\ Confirmed(now)
  IN  /\ originOf' = IF dated THEN g.id ELSE originOf
      /\ runOf' = IF started THEN g.id ELSE IF actions'.reset THEN 0 ELSE runOf
      /\ finishOf' = IF finished' /\ (~ finished \/ dated) THEN g.id
                     ELSE IF finished' THEN finishOf ELSE 0
      /\ met' = IF finished' \/ now.gameOver THEN 0
                ELSE IF confirmed THEN now.chrono ELSE met
      /\ rested' = (~ confirmed /\ (rested \/ ~ Alive(now)))
      /\ clockOf' = IF confirmed THEN g.id ELSE clockOf

ReadGame ==
  \E handle \in IF held = "none" THEN Findable ELSE {held} :
    /\ Object(handle) # None
    /\ Fresh(handle, StateOf(Object(handle)))
    /\ TickOn(handle, StateOf(Object(handle)))
    /\ Remember(Object(handle), StateOf(Object(handle)))
    /\ anchor' = Object(handle).id

\* No game is found, or the read fails: memory is moved under the reader.
ReadNothing ==
  /\ TickOn("none", None)
  /\ runOf' = IF actions'.reset THEN 0 ELSE runOf
  /\ UNCHANGED <<anchor, originOf, finishOf, met, rested, clockOf>>

-----------------------------------------------------------------------------

SessionInit ==
  /\ Init
  /\ processes = 1
  /\ clock = 0
  /\ games = 0
  /\ game = None
  /\ corpse = None
  /\ held = "none"
  /\ anchor = 0
  /\ timer = C!Timer!Stopped
  /\ originOf = 0
  /\ runOf = 0
  /\ finishOf = 0
  /\ met = 0
  /\ rested = FALSE
  /\ clockOf = 0

GameStep ==
  \/ Launch \/ BlackScreen \/ Unlock \/ PlayOn \/ Stop \/ StayStopped
  \/ Resume \/ Elevator \/ Cinematic \/ Die \/ Quit \/ Restart

SessionNext == GameStep \/ RunnerResets \/ ReadGame \/ ReadNothing

SessionSpec == SessionInit /\ [][SessionNext]_vars

=============================================================================
