------------------------------- MODULE Levels -------------------------------
(***************************************************************************)
(* Where the player is, and which moves the splits must follow             *)
(* (src/core/level.rs, and skips_after of src/core/policy.rs).             *)
(*                                                                         *)
(* Every world numbers its levels on its own, so a level number never      *)
(* travels without its world.  The route remembers where the player is     *)
(* and the level each world showed when the player last left it.           *)
(***************************************************************************)
EXTENDS Integers

CONSTANTS
  World,       \* the sets of levels: the adventure and the dimensions
  Adventure,   \* the main world, where a run starts and ends
  None,        \* the absent value of an Option
  WARP_REACH   \* the widest move of a warp zone

Level == [world : World, id : Int]

Optional(S) == S \cup {None}

ASSUME WorldAssumption == Adventure \in World
ASSUME NoneAssumption == None \notin Int \cup Level
ASSUME WarpReachAssumption == WARP_REACH \in 1..256

Routes == [here : Optional(Level), left : [World -> Optional(Int)]]

NewRoute == [here |-> None, left |-> [w \in World |-> None]]

-----------------------------------------------------------------------------

\* The level read belongs to another world than the place of the player.
Elsewhere(route, level) ==
  /\ route.here # None
  /\ level.world # route.here.world

\* Back in a world, the game first shows the level the player left it from.
ShowsTheLevelLeft(route, level) ==
  /\ Elsewhere(route, level)
  /\ route.left[level.world] = level.id

ChangesWorld(route, level) ==
  /\ Elsewhere(route, level)
  /\ ~ ShowsTheLevelLeft(route, level)

\* Forward inside one world, by any number of levels.
GoesForward(route, level) ==
  /\ route.here # None
  /\ level.world = route.here.world
  /\ level.id > route.here.id

Crosses(route, level) ==
  ChangesWorld(route, level) \/ GoesForward(route, level)

\* Mutant: the route moves only on a crossing.
EnterOnlyByCrossing(route, level) ==
  IF Crosses(route, level) THEN [route EXCEPT !.here = level] ELSE route

\* The route after the player is read on level.
Enter(route, level) ==
  IF ShowsTheLevelLeft(route, level)
  THEN route
  ELSE [here |-> level,
        left |-> IF ChangesWorld(route, level)
                 THEN [route.left EXCEPT ![route.here.world] = route.here.id]
                 ELSE route.left]

\* Segments a move of this many levels leaves behind; the result is a u8.
SkipsAfter(jump) ==
  IF jump <= WARP_REACH THEN (jump - 1) % 256 ELSE 0

\* Mutant: a change of world is measured like a move inside one.
SkipsOfAnyCrossing(route, level) ==
  IF Crosses(route, level)
  THEN SkipsAfter(level.id - route.here.id)
  ELSE 0

\* A change of world has no size, and skips nothing.
Skips(route, level) ==
  IF GoesForward(route, level)
  THEN SkipsAfter(level.id - route.here.id)
  ELSE 0

=============================================================================
