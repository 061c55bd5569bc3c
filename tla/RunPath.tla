------------------------------ MODULE RunPath ------------------------------
(***************************************************************************)
(* The path of one run through the levels, and the segments it consumes:   *)
(* the player, the memory the loop reads, the policy (src/core/policy.rs,  *)
(* src/core/level.rs) and the timer.                                       *)
(*                                                                         *)
(* The memory does not always show where the player is.  Nothing           *)
(* synchronises a read with the frame in which the shortcut writes the     *)
(* level three times, and a world the player comes back to first shows     *)
(* the level they left it from.  Any read may be lost.                     *)
(*                                                                         *)
(* The clocks stand still here (module Session is about them); frameTimer  *)
(* moves at every read.                                                    *)
(***************************************************************************)
EXTENDS Policy

CONSTANTS
  MAX, SEGMENTS,
  Dimension,   \* a parallel dimension
  SHORTCUT,    \* the level the shortcut of the first level leads to
  LAST,        \* bound: the last level of the adventure
  DOORS        \* bound: the levels of the dimension, all of them entrances

ASSUME PathAssumption ==
  /\ MAX \in Nat /\ MAX >= WARP_REACH + 4
  /\ SEGMENTS \in Nat \ {0}
  /\ Dimension \in World \ {Adventure}
  /\ FIRST_LEVEL + WARP_REACH < SHORTCUT /\ SHORTCUT \in Int
  /\ LAST \in Int /\ DOORS \in Nat

C == INSTANCE Commands

VARIABLES
  place,     \* the level the player is on
  shown,     \* the level the memory shows
  torn,      \* shown is overwritten within the frame: one read sees it
  doors,     \* levels of the dimension seen so far
  over,      \* the player took the elevator
  timer,     \* the LiveSplit timer
  due        \* the segments the moves of the player stand for

playerVars == <<place, shown, torn, doors, over>>
vars == <<playerVars, timer, due, policyVars>>

PolicyRests ==
  /\ actions' = Nothing
  /\ UNCHANGED <<prev, seen, route, sawNoGame, launched, origin, durationSeen,
                 hadGame, lost, beat, outcome>>

-----------------------------------------------------------------------------
(* The player *)

At(world, id) == [world |-> world, id |-> id]

\* The last level that was confirmed is the one of the player.  A level is
\* played for seconds, and read twice within a fraction of one.
Known == route.here = place

\* No level was read yet: the game is not found, or just lost.
Unseen == route.here = None /\ seen = None

\* A run counts the segments from the first level its timer confirmed.
Counts == timer.phase = "Running" /\ route.here # None

\* Every move: where to, what the memory shows for now, and its segments.
Go(to, first, segments) ==
  /\ ~ over
  /\ place = shown
  /\ place' = to
  /\ shown' = first
  /\ due' = IF Counts THEN due + segments ELSE due
  /\ PolicyRests
  /\ UNCHANGED <<over, timer>>

\* To the next level, or over some of them in a warp zone.  The reads may
\* miss the level before, as long as both moves stay within one warp.
Walk ==
  \E n \in 1..WARP_REACH :
    LET to == At(place.world, place.id + n)
    IN  /\ place.world = Adventure => to.id <= LAST
        /\ place.world = Dimension => to.id < DOORS
        /\ route.here # None /\ ~ Known =>
             /\ route.here.world = place.world
             /\ to.id - route.here.id <= WARP_REACH
        /\ doors' = IF to.world = Dimension THEN to.id + 1 ELSE doors
        /\ torn' = FALSE
        /\ Go(to, to, n)

\* The shortcut writes the level three times in one frame: 1, 0, then the
\* level it leads to.
Shortcut ==
  /\ place = At(Adventure, FIRST_LEVEL)
  /\ Known \/ Unseen
  /\ \E id \in {FIRST_LEVEL + 1, FIRST_LEVEL, SHORTCUT} :
       /\ torn' = (id # SHORTCUT)
       /\ Go(At(Adventure, SHORTCUT), At(Adventure, id), 1)
  /\ UNCHANGED doors

\* Into the dimension, on a level it has not shown yet.
EnterDimension ==
  /\ place.world = Adventure
  /\ Known \/ Unseen
  /\ \E id \in doors..(DOORS - 1) :
       /\ doors' = id + 1
       /\ torn' = FALSE
       /\ Go(At(Dimension, id), At(Dimension, id), 1)

\* Out of it: the adventure shows the level of the entrance, then the level
\* the player arrives on.  A run that did not start in the dimension.
LeaveDimension ==
  /\ place.world = Dimension
  /\ Known /\ route.left[Adventure] # None
  /\ \E id \in (route.left[Adventure] + 1)..LAST :
       Go(At(Adventure, id), At(Adventure, route.left[Adventure]), 1)
  /\ torn' = FALSE
  /\ UNCHANGED doors

\* The memory catches up with the player.
Settle ==
  /\ shown # place
  /\ shown' = place
  /\ torn' = FALSE
  /\ PolicyRests
  /\ UNCHANGED <<place, doors, over, timer, due>>

\* The elevator of the adventure ends the run, and closes its last segment.
Elevator ==
  /\ ~ over
  /\ place.world = Adventure /\ place = shown /\ Known
  /\ over' = TRUE
  /\ due' = IF Counts THEN due + 1 ELSE due
  /\ PolicyRests
  /\ UNCHANGED <<place, shown, torn, doors, timer>>

-----------------------------------------------------------------------------
(* The loop *)

\* What a read returns: the clocks stand still, but for frameTimer.
Now ==
  [level |-> shown, chrono |-> 0, frame |-> IF heartbeat = 1 THEN 2 ELSE 1,
   gameOver |-> FALSE, locked |-> FALSE, duration |-> 0,
   remaining |-> IF over THEN FULL_MS ELSE 0]

ReadLevel ==
  /\ Tick(timer.phase, Now)
  /\ timer' = C!Apply(timer, actions')
  /\ shown' = IF torn THEN place ELSE shown
  /\ torn' = FALSE
  /\ UNCHANGED <<place, doors, over, due>>

ReadNothing ==
  /\ Tick(timer.phase, None)
  /\ timer' = C!Apply(timer, actions')
  /\ UNCHANGED <<playerVars, due>>

-----------------------------------------------------------------------------

PathInit ==
  /\ Init
  /\ place = At(Adventure, FIRST_LEVEL)
  /\ shown = place
  /\ torn = FALSE
  /\ doors = 0
  /\ over = FALSE
  /\ timer = C!Timer!Stopped
  /\ due = 0

PathNext ==
  \/ Walk \/ Shortcut \/ EnterDimension \/ LeaveDimension \/ Settle
  \/ Elevator \/ ReadLevel \/ ReadNothing

PathSpec == PathInit /\ [][PathNext]_vars

\* The loop never stops reading, and reads are not lost for ever.
FairPathSpec == PathSpec /\ WF_vars(ReadLevel) /\ WF_vars(Settle)

=============================================================================
