---------------------------- MODULE RunPathProofs ---------------------------
(***************************************************************************)
(* The segments follow the levels, for any adventure, any shortcut, any    *)
(* number of doors and of segments, and whatever the reads show or lose.   *)
(***************************************************************************)
EXTENDS RunPathProps, PolicyProofs, Sequences

-----------------------------------------------------------------------------
(* The inductive invariant *)

Timers ==
  [phase : {"NotRunning", "Running", "Ended"}, segment : 0..SEGMENTS,
   gameTime : Int, paused : BOOLEAN]

Typed ==
  /\ TypeOK
  /\ place \in Level /\ shown \in Level /\ torn \in BOOLEAN
  /\ doors \in Nat /\ over \in BOOLEAN /\ due \in Nat
  /\ timer \in Timers

\* The clocks of a run stand still: the game is dated by its first read, and
\* is never another one, nor dead.
Quiet ==
  /\ durationSeen = 0 /\ heartbeat \in 0..2 /\ prev \in {None, 0}
  /\ origin \in {None, 1}
  /\ origin = None => /\ heartbeat = 0 /\ seen = None /\ route = NewRoute
                      /\ timer.phase = "NotRunning" /\ ~ finished
  /\ route.here # None => prev = 0
  /\ finished => over
  /\ seen # None /\ seen.started => over

\* Where a confirmed level, or the player, may be.
Reached(l) ==
  /\ l.world \in {Adventure, Dimension}
  /\ l.world = Adventure => l.id >= FIRST_LEVEL
  /\ l.world = Dimension => l.id < doors

\* How far the player may be from the last level confirmed.
Near ==
  /\ route.here.world = place.world =>
       \/ route.here = place
       \/ place.id > route.here.id /\ place.id - route.here.id <= WARP_REACH
       \/ /\ route.here = At(Adventure, FIRST_LEVEL)
          /\ place = At(Adventure, SHORTCUT)
  /\ route.here.world # place.world /\ route.left[place.world] # None
       => route.left[place.world] < place.id

\* What the memory may show that is not where the player is.
Shown ==
  /\ torn => /\ place = At(Adventure, SHORTCUT)
             /\ shown \in {At(Adventure, FIRST_LEVEL),
                           At(Adventure, FIRST_LEVEL + 1)}
             /\ route.here \in {None, At(Adventure, FIRST_LEVEL)}
             /\ seen # None => /\ route.here # None
                               /\ seen.level = At(Adventure, FIRST_LEVEL)
  /\ ~ torn /\ shown # place =>
       /\ route.here # None /\ route.here.world # place.world
       /\ shown.world = place.world
       /\ route.left[place.world] = shown.id

Placed ==
  /\ Reached(place)
  /\ place.world = Dimension => doors = place.id + 1
  /\ route.here # None => Reached(route.here) /\ Near
  /\ route.left[Adventure] # None => route.left[Adventure] >= FIRST_LEVEL
  /\ route.left[Dimension] # None => route.left[Dimension] < doors
  /\ Shown
  /\ place = At(Adventure, FIRST_LEVEL) /\ seen # None
       => seen.level = At(Adventure, FIRST_LEVEL)
  /\ over => route.here = place /\ shown = place /\ ~ torn

\* The segments the policy has still to learn of.
Pending ==
  IF route.here \in {None, place} THEN 0
  ELSE IF /\ route.here.world = place.world
          /\ place.id - route.here.id <= WARP_REACH
       THEN place.id - route.here.id
       ELSE 1

Unended == IF over /\ ~ finished THEN 1 ELSE 0

\* While the splits file has segments left, none of them is lost.
Counted ==
  /\ route.here = None => due = 0
  /\ timer.phase = "NotRunning" => timer.segment = 0
  /\ timer.phase = "Ended" => due >= SEGMENTS
  /\ timer.phase = "Running" =>
       /\ timer.segment < SEGMENTS
       /\ due < SEGMENTS => due = timer.segment + Pending + Unended

PInv == Typed /\ Quiet /\ Placed /\ Counted

-----------------------------------------------------------------------------
(* Levels *)

LEMMA LevelParts ==
  ASSUME NEW l \in Level
  PROVE  l.world \in World /\ l.id \in Int
BY DEF Level

LEMMA AtParts ==
  ASSUME NEW world \in World, NEW id \in Int
  PROVE  /\ At(world, id) \in Level
         /\ At(world, id).world = world /\ At(world, id).id = id
BY DEF At, Level

LEMMA SameLevel ==
  ASSUME NEW k \in Level, NEW l \in Level, k.world = l.world, k.id = l.id
  PROVE  k = l
BY DEF Level

\* What the invariant says of the levels there are.
LEMMA PlaceFacts ==
  ASSUME PInv
  PROVE  /\ place \in Level /\ place.world \in {Adventure, Dimension}
         /\ place.id \in Int /\ shown \in Level
         /\ route.here # None =>
              /\ route.here \in Level /\ route.here.id \in Int
              /\ route.here.world \in {Adventure, Dimension}
         /\ route.left \in [World -> Optional(Int)]
         /\ \A w \in World : route.left[w] # None => route.left[w] \in Int
         /\ Adventure \in World /\ Dimension \in World
         /\ Adventure # Dimension
         /\ FIRST_LEVEL \in Int /\ SHORTCUT \in Int /\ WARP_REACH \in 1..256
         /\ FIRST_LEVEL + WARP_REACH < SHORTCUT
         /\ doors \in Nat /\ due \in Nat /\ SEGMENTS \in Nat \ {0}
         /\ timer \in Timers /\ timer.segment \in 0..SEGMENTS
<1>1. place \in Level /\ shown \in Level /\ route \in Routes
      /\ doors \in Nat /\ due \in Nat /\ timer \in Timers
  BY DEF PInv, Typed, TypeOK
<1>2. route.here \in Optional(Level) /\ route.left \in [World -> Optional(Int)]
  BY <1>1 DEF Routes
<1>3. Reached(place) /\ (route.here # None => Reached(route.here))
  BY DEF PInv, Placed
<1>4. timer.segment \in 0..SEGMENTS
  BY <1>1 DEF Timers
<1> QED
  BY <1>1, <1>2, <1>3, <1>4, LevelParts, WorldAssumption, PathAssumption,
     ThresholdAssumption, WarpReachAssumption DEF Reached, Optional

\* A torn level is never the one of the player.
LEMMA TornIsElsewhere ==
  ASSUME PInv, place = shown
  PROVE  ~ torn
<1>1. SUFFICES ASSUME torn PROVE FALSE
  OBVIOUS
<1>2. /\ place = At(Adventure, SHORTCUT)
      /\ place \in {At(Adventure, FIRST_LEVEL), At(Adventure, FIRST_LEVEL + 1)}
  BY <1>1 DEF PInv, Placed, Shown
<1>3. place.id = SHORTCUT /\ place.id \in {FIRST_LEVEL, FIRST_LEVEL + 1}
  BY <1>2 DEF At
<1> QED
  BY <1>3, PlaceFacts

-----------------------------------------------------------------------------
(* The moves of the player *)

LEMMA RestsKeepType ==
  ASSUME TypeOK, PolicyRests
  PROVE  TypeOK'
BY NothingType DEF TypeOK, PolicyRests, beat, outcome

LEMMA RestsKeepFacts ==
  ASSUME PolicyRests
  PROVE  /\ UNCHANGED <<prev, seen, route, origin, durationSeen>>
         /\ UNCHANGED <<heartbeat, finished>>
         /\ actions' = Nothing
BY DEF PolicyRests, beat, outcome

LEMMA PendingType ==
  ASSUME PInv
  PROVE  Pending \in Nat /\ Unended \in 0..1
<1>1. Unended \in 0..1
  BY DEF Unended
<1>2. CASE route.here \in {None, place}
  BY <1>1, <1>2 DEF Pending
<1>3. CASE route.here \notin {None, place}
  <2>1. Near
    BY <1>3 DEF PInv, Placed
  <2>2. route.here.world = place.world
          => \/ place.id > route.here.id
             \/ place.id - route.here.id > WARP_REACH
    BY <1>3, <2>1, PlaceFacts DEF Near, At
  <2> QED
    BY <1>1, <1>3, <2>2, PlaceFacts DEF Pending
<1> QED
  BY <1>2, <1>3

\* A move keeps the count, when the policy has as many segments to learn of
\* as the move stands for.
LEMMA GoKeeps ==
  ASSUME PInv, NEW to \in Level, NEW first \in Level, NEW n \in Nat,
         Go(to, first, n), doors' \in Nat, torn' \in BOOLEAN, Placed',
         route.here # None => Pending' = Pending + n
  PROVE  PInv'
<1>1. /\ ~ over /\ over' = over /\ timer' = timer /\ place' = to
      /\ shown' = first
      /\ UNCHANGED <<prev, seen, route, origin, durationSeen>>
      /\ UNCHANGED <<heartbeat, finished>>
  BY RestsKeepFacts DEF Go
<1>2. Typed'
  <2>1. TypeOK'
    BY RestsKeepType DEF PInv, Typed, Go
  <2>2. due' \in Nat
    BY DEF Go, PInv, Typed
  <2> QED
    BY <1>1, <2>1, <2>2 DEF PInv, Typed
<1>3. Quiet'
  BY <1>1 DEF PInv, Quiet
<1>4. Counted'
  <2>1. due' = IF Counts THEN due + n ELSE due
    BY DEF Go
  <2>2. due \in Nat /\ due' \in Nat /\ due' >= due
    BY <2>1 DEF PInv, Typed
  <2>3. Unended = 0 /\ Unended' = 0
    BY <1>1 DEF Unended
  <2>4. route.here = None => due' = 0
    BY <2>1 DEF Counts, PInv, Counted
  <2>5. ASSUME timer.phase = "Running", due' < SEGMENTS
        PROVE  due' = timer.segment + Pending' + Unended'
    <3>1. due = timer.segment + Pending + Unended
      BY <2>2, <2>5, PlaceFacts DEF PInv, Counted
    <3>2. CASE route.here = None
      <4>1. Pending = 0 /\ Pending' = 0
        BY <1>1, <3>2 DEF Pending
      <4> QED
        BY <2>1, <2>3, <3>1, <3>2, <4>1 DEF Counts
    <3>3. CASE route.here # None
      BY <2>1, <2>3, <2>5, <3>1, <3>3, PendingType, PlaceFacts DEF Counts
    <3> QED
      BY <3>2, <3>3
  <2> QED
    BY <1>1, <2>2, <2>4, <2>5, PlaceFacts DEF PInv, Counted
<1> QED
  BY <1>2, <1>3, <1>4 DEF PInv

\* What every move keeps.
LEMMA MoveFacts ==
  ASSUME PInv, NEW to, NEW first, NEW n, Go(to, first, n)
  PROVE  /\ ~ over /\ ~ over' /\ place = shown /\ ~ torn
         /\ place' = to /\ shown' = first
         /\ route' = route /\ seen' = seen /\ timer' = timer
BY TornIsElsewhere, RestsKeepFacts DEF Go

LEMMA GoPlaces ==
  ASSUME PInv, NEW to \in Level, NEW first, NEW n, Go(to, first, n),
         doors' \in Nat, doors' >= doors, Reached(place)',
         to.world = Dimension => doors' = to.id + 1,
         route.here # None => Near',
         Shown',
         to # At(Adventure, FIRST_LEVEL)
  PROVE  Placed'
<1>1. Reached(place)' /\ (place.world = Dimension => doors = place.id + 1)'
  BY MoveFacts DEF Reached
<1>2. (route.here # None => Reached(route.here) /\ Near)'
  <2>1. SUFFICES ASSUME route.here # None PROVE Reached(route.here)' /\ Near'
    BY MoveFacts
  <2>2. Reached(route.here)
    BY <2>1 DEF PInv, Placed
  <2> QED
    BY <2>1, <2>2, MoveFacts, PlaceFacts DEF Reached
<1>3. /\ (route.left[Adventure] # None => route.left[Adventure] >= FIRST_LEVEL)'
      /\ (route.left[Dimension] # None => route.left[Dimension] < doors)'
  BY MoveFacts, PlaceFacts DEF PInv, Placed
<1> QED
  BY <1>1, <1>2, <1>3, MoveFacts DEF Placed

LEMMA WalkKeeps ==
  ASSUME PInv, Walk
  PROVE  PInv'
<1> PICK n \in 1..WARP_REACH :
      LET to == At(place.world, place.id + n)
      IN  /\ place.world = Adventure => to.id <= LAST
          /\ place.world = Dimension => to.id < DOORS
          /\ route.here # None /\ ~ Known =>
               /\ route.here.world = place.world
               /\ to.id - route.here.id <= WARP_REACH
          /\ doors' = IF to.world = Dimension THEN to.id + 1 ELSE doors
          /\ torn' = FALSE
          /\ Go(to, to, n)
  BY DEF Walk
<1> DEFINE to == At(place.world, place.id + n)
<1>1. /\ to \in Level /\ to.world = place.world /\ to.id = place.id + n
      /\ n \in Nat /\ n >= 1 /\ n <= WARP_REACH
  BY PlaceFacts DEF At, Level
<1>2. Go(to, to, n) /\ ~ torn'
  OBVIOUS
<1> HIDE DEF to
<1>3. Reached(place) /\ (place.world = Dimension => doors = place.id + 1)
  BY DEF PInv, Placed
<1>4. /\ doors' = IF to.world = Dimension THEN to.id + 1 ELSE doors
      /\ place' = to
  BY <1>2, MoveFacts DEF to
<1>10. /\ doors' \in Nat /\ doors' >= doors /\ Reached(place)'
       /\ to.world = Dimension => doors' = to.id + 1
  BY <1>1, <1>3, <1>4, PlaceFacts DEF Reached
<1>5. to # At(Adventure, FIRST_LEVEL)
  BY <1>1, <1>3, PlaceFacts DEF Reached, At
<1>6. ASSUME route.here # None
      PROVE  /\ route.here.world = place.world /\ to.id > route.here.id
             /\ to.id - route.here.id <= WARP_REACH
             /\ Pending = place.id - route.here.id
  <2>1. CASE route.here = place
    BY <1>1, <2>1, PlaceFacts DEF Pending
  <2>2. CASE route.here # place
    <3>1. /\ route.here.world = place.world
          /\ to.id - route.here.id <= WARP_REACH
      BY <1>6, <2>2 DEF Known, to
    <3>2. Near
      BY <1>6 DEF PInv, Placed
    <3>3. place.id > route.here.id
      BY <2>2, <3>1, <3>2, PlaceFacts DEF Near, At
    <3> QED
      BY <1>1, <1>6, <2>2, <3>1, <3>3, PlaceFacts DEF Pending
  <2> QED
    BY <2>1, <2>2
<1>7. route.here # None => Near' /\ Pending' = Pending + n
  <2>1. SUFFICES ASSUME route.here # None PROVE Near' /\ Pending' = Pending + n
    OBVIOUS
  <2>2. place' = to /\ route' = route
    BY <1>2, MoveFacts
  <2>3. Near'
    BY <1>1, <1>6, <2>1, <2>2 DEF Near
  <2>4. Pending' = to.id - route.here.id
    BY <1>1, <1>6, <2>1, <2>2, PlaceFacts DEF Pending
  <2> QED
    BY <1>1, <1>6, <2>1, <2>3, <2>4, PlaceFacts
<1>8. Shown'
  BY <1>2, MoveFacts DEF Shown
<1>9. Placed'
  BY <1>1, <1>2, <1>10, <1>5, <1>7, <1>8, GoPlaces
<1> QED
  BY <1>1, <1>2, <1>10, <1>7, <1>9, GoKeeps

LEMMA ShortcutKeeps ==
  ASSUME PInv, Shortcut
  PROVE  PInv'
<1> DEFINE to == At(Adventure, SHORTCUT)
<1> PICK id \in {FIRST_LEVEL + 1, FIRST_LEVEL, SHORTCUT} :
      /\ torn' = (id # SHORTCUT)
      /\ Go(to, At(Adventure, id), 1)
  BY DEF Shortcut
<1>1. /\ place = At(Adventure, FIRST_LEVEL) /\ (Known \/ Unseen)
      /\ doors' = doors
  BY DEF Shortcut
<1>2. /\ to \in Level /\ to.world = Adventure /\ to.id = SHORTCUT
      /\ At(Adventure, id) \in Level
      /\ place.world = Adventure /\ place.id = FIRST_LEVEL
  BY <1>1, PlaceFacts DEF At, Level
<1>3. Go(to, At(Adventure, id), 1) /\ place' = to /\ route' = route
      /\ shown' = At(Adventure, id) /\ seen' = seen
  BY MoveFacts
<1>4. Reached(place)' /\ to # At(Adventure, FIRST_LEVEL)
  BY <1>2, <1>3, PlaceFacts DEF Reached, At
<1>5. route.here # None => Near' /\ Pending' = Pending + 1
  <2>1. SUFFICES ASSUME route.here # None PROVE Near' /\ Pending' = Pending + 1
    OBVIOUS
  <2>2. route.here = place
    BY <1>1, <2>1 DEF Known, Unseen
  <2> QED
    BY <1>1, <1>2, <1>3, <2>1, <2>2, PlaceFacts DEF Near, Pending
<1>6. Shown'
  <2>1. seen # None => seen.level = At(Adventure, FIRST_LEVEL)
    BY <1>1 DEF PInv, Placed
  <2>2. (torn => /\ place = At(Adventure, SHORTCUT)
                 /\ shown \in {At(Adventure, FIRST_LEVEL),
                               At(Adventure, FIRST_LEVEL + 1)}
                 /\ route.here \in {None, At(Adventure, FIRST_LEVEL)}
                 /\ seen # None =>
                      /\ route.here # None
                      /\ seen.level = At(Adventure, FIRST_LEVEL))'
    BY <1>1, <1>3, <2>1, PlaceFacts, NoneAssumption DEF Known, Unseen
  <2> QED
    BY <1>3, <2>2 DEF Shown
<1>7. doors' \in Nat /\ doors' >= doors /\ (to.world = Dimension => doors' = to.id + 1)
  BY <1>1, <1>2, PlaceFacts
<1>8. Placed'
  BY <1>2, <1>3, <1>4, <1>5, <1>6, <1>7, GoPlaces
<1>9. torn' \in BOOLEAN /\ 1 \in Nat
  OBVIOUS
<1> QED
  BY <1>2, <1>3, <1>5, <1>7, <1>8, <1>9, GoKeeps

LEMMA EnterDimensionKeeps ==
  ASSUME PInv, EnterDimension
  PROVE  PInv'
<1> PICK id \in doors..(DOORS - 1) :
      /\ doors' = id + 1
      /\ torn' = FALSE
      /\ Go(At(Dimension, id), At(Dimension, id), 1)
  BY DEF EnterDimension
<1> DEFINE to == At(Dimension, id)
<1>1. place.world = Adventure /\ (Known \/ Unseen)
  BY DEF EnterDimension
<1>2. /\ id \in Nat /\ id >= doors
      /\ to \in Level /\ to.world = Dimension /\ to.id = id
  BY PlaceFacts, PathAssumption DEF At, Level
<1>3. Go(to, to, 1) /\ place' = to /\ route' = route
      /\ shown' = to /\ seen' = seen /\ ~ torn'
  BY MoveFacts
<1>4. Reached(place)' /\ to # At(Adventure, FIRST_LEVEL)
  BY <1>2, <1>3, PlaceFacts DEF Reached, At
<1>5. route.here # None => Near' /\ Pending' = Pending + 1
  <2>1. SUFFICES ASSUME route.here # None PROVE Near' /\ Pending' = Pending + 1
    OBVIOUS
  <2>2. route.here = place
    BY <1>1, <2>1 DEF Known, Unseen
  <2>3. route.left[Dimension] # None => route.left[Dimension] < id
    BY <1>2, PlaceFacts DEF PInv, Placed
  <2> QED
    BY <1>1, <1>2, <1>3, <2>1, <2>2, <2>3, PlaceFacts DEF Near, Pending
<1>6. Shown'
  BY <1>3 DEF Shown
<1>7. doors' \in Nat /\ doors' >= doors /\ (to.world = Dimension => doors' = to.id + 1)
  BY <1>2, PlaceFacts
<1>8. Placed'
  BY <1>2, <1>3, <1>4, <1>5, <1>6, <1>7, GoPlaces
<1> QED
  BY <1>2, <1>3, <1>5, <1>7, <1>8, GoKeeps

LEMMA LeaveDimensionKeeps ==
  ASSUME PInv, LeaveDimension
  PROVE  PInv'
<1>1. /\ place.world = Dimension /\ Known /\ route.left[Adventure] # None
      /\ ~ torn' /\ torn' \in BOOLEAN /\ doors' = doors
  BY DEF LeaveDimension
<1> PICK id \in (route.left[Adventure] + 1)..LAST :
      Go(At(Adventure, id), At(Adventure, route.left[Adventure]), 1)
  BY DEF LeaveDimension
<1> DEFINE to    == At(Adventure, id)
           first == At(Adventure, route.left[Adventure])
<1>2. /\ route.left[Adventure] \in Int /\ id \in Int
      /\ id > route.left[Adventure] /\ route.left[Adventure] >= FIRST_LEVEL
  BY <1>1, PlaceFacts, PathAssumption DEF PInv, Placed
<1>3. /\ to \in Level /\ to.world = Adventure /\ to.id = id
      /\ first \in Level /\ first.world = Adventure
      /\ first.id = route.left[Adventure]
  BY <1>2, PlaceFacts DEF At, Level
<1>4. Go(to, first, 1) /\ place' = to /\ route' = route
      /\ shown' = first /\ seen' = seen
  BY MoveFacts
<1>5. Reached(place)' /\ to # At(Adventure, FIRST_LEVEL)
  BY <1>2, <1>3, <1>4, PlaceFacts DEF Reached, At
<1>6. route.here # None => Near' /\ Pending' = Pending + 1
  BY <1>1, <1>2, <1>3, <1>4, PlaceFacts DEF Near, Pending, Known
<1>7. Shown'
  BY <1>1, <1>3, <1>4, PlaceFacts, NoneAssumption DEF Shown, Known
<1>8. doors' \in Nat /\ doors' >= doors /\ (to.world = Dimension => doors' = to.id + 1)
  BY <1>1, <1>3, PlaceFacts
<1>9. Placed'
  BY <1>3, <1>4, <1>5, <1>6, <1>7, <1>8, GoPlaces
<1> QED
  BY <1>1, <1>3, <1>4, <1>6, <1>8, <1>9, GoKeeps

\* The memory catches up: the policy knows no more than it did.
LEMMA SettleKeeps ==
  ASSUME PInv, Settle
  PROVE  PInv'
<1>1. /\ shown # place /\ shown' = place /\ ~ torn' /\ torn' \in BOOLEAN
      /\ UNCHANGED <<place, doors, over, timer, due>>
      /\ UNCHANGED <<prev, seen, route, origin, durationSeen>>
      /\ UNCHANGED <<heartbeat, finished>>
  BY RestsKeepFacts DEF Settle
<1>2. ~ over
  BY <1>1 DEF PInv, Placed
<1>3. Typed'
  <2>1. TypeOK'
    BY RestsKeepType DEF PInv, Typed, Settle
  <2> QED
    BY <1>1, <2>1 DEF PInv, Typed
<1>4. Quiet'
  BY <1>1 DEF PInv, Quiet
<1>5. Placed'
  BY <1>1, <1>2 DEF PInv, Placed, Shown, Near, Reached
<1>6. Counted'
  BY <1>1 DEF PInv, Counted, Pending, Unended
<1> QED
  BY <1>3, <1>4, <1>5, <1>6 DEF PInv

\* The elevator leaves one segment to close: the last one.
LEMMA ElevatorKeeps ==
  ASSUME PInv, Elevator
  PROVE  PInv'
<1>1. /\ ~ over /\ over' /\ over' \in BOOLEAN /\ place = shown
      /\ route.here = place
      /\ due' = IF Counts THEN due + 1 ELSE due
      /\ UNCHANGED <<place, shown, torn, doors, timer>>
      /\ UNCHANGED <<prev, seen, route, origin, durationSeen>>
      /\ UNCHANGED <<heartbeat, finished>>
  BY RestsKeepFacts DEF Elevator, Known
<1>2. ~ torn /\ route.here # None /\ ~ finished
  BY <1>1, TornIsElsewhere, PlaceFacts, NoneAssumption DEF PInv, Quiet
<1>3. Typed'
  <2>1. TypeOK'
    BY RestsKeepType DEF PInv, Typed, Elevator
  <2>2. due' \in Nat
    BY <1>1 DEF PInv, Typed
  <2> QED
    BY <1>1, <2>1, <2>2 DEF PInv, Typed
<1>4. Quiet'
  BY <1>1, <1>2 DEF PInv, Quiet
<1>5. Placed'
  BY <1>1, <1>2 DEF PInv, Placed, Shown, Near, Reached
<1>6. Counted'
  <2>1. Pending = 0 /\ Pending' = 0 /\ Unended = 0 /\ Unended' = 1
    BY <1>1, <1>2 DEF Pending, Unended
  <2>2. due' \in Nat /\ due' >= due
    BY <1>1, PlaceFacts
  <2> QED
    BY <1>1, <1>2, <2>1, <2>2, PlaceFacts DEF PInv, Counted, Counts
<1> QED
  BY <1>3, <1>4, <1>5, <1>6 DEF PInv

-----------------------------------------------------------------------------
(* The timer after the commands of one tick *)

LEMMA TimedKeepsTheSegment ==
  ASSUME NEW t \in Timers, NEW a \in Actions
  PROVE  /\ C!Timed(t, a) \in Timers
         /\ C!Timed(t, a).phase = t.phase
         /\ C!Timed(t, a).segment = t.segment
<1> DEFINE p == C!Timer!PauseGameTime(t)
<1>1. p \in Timers /\ p.phase = t.phase /\ p.segment = t.segment
  BY DEF C!Timer!PauseGameTime, Timers
<1> HIDE DEF p
<1>2. ASSUME NEW u \in {t, p}, a.time # None
      PROVE  LET s == C!Timer!SetGameTime(u, a.time)
             IN  s \in Timers /\ s.phase = t.phase /\ s.segment = t.segment
  <2>1. u \in Timers /\ u.phase = t.phase /\ u.segment = t.segment
    BY <1>1
  <2>2. a.time \in Int
    BY <1>2 DEF Actions, Optional
  <2> QED
    BY <2>1, <2>2 DEF C!Timer!SetGameTime, Timers
<1>3. C!Timed(t, a) \in {t, p} \/ /\ a.time # None
                                  /\ \E u \in {t, p} :
                                       C!Timed(t, a) = C!Timer!SetGameTime(u, a.time)
  BY DEF C!Timed, p
<1> QED
  BY <1>1, <1>2, <1>3

\* Without orders the timer keeps its phase and its segment.
LEMMA ApplyIdle ==
  ASSUME NEW t \in Timers, NEW a \in Actions,
         ~ a.reset, ~ a.start, ~ a.split
  PROVE  /\ C!Apply(t, a) \in Timers
         /\ C!Apply(t, a).phase = t.phase
         /\ C!Apply(t, a).segment = t.segment
BY TimedKeepsTheSegment DEF C!Apply, C!Advanced, C!Restarted

LEMMA StoppedTimer ==
  /\ C!Timer!Stopped \in Timers
  /\ C!Timer!Stopped.phase = "NotRunning" /\ C!Timer!Stopped.segment = 0
BY PathAssumption DEF C!Timer!Stopped, Timers

LEMMA ApplyReset ==
  ASSUME NEW t \in Timers, NEW a \in Actions,
         a.reset, ~ a.start, ~ a.split
  PROVE  /\ C!Apply(t, a) \in Timers
         /\ C!Apply(t, a).phase = "NotRunning"
         /\ C!Apply(t, a).segment = 0
BY TimedKeepsTheSegment, StoppedTimer DEF C!Apply, C!Advanced, C!Restarted

LEMMA ApplyStart ==
  ASSUME NEW t \in Timers, NEW a \in Actions,
         a.start, ~ a.split, a.reset \/ t.phase = "NotRunning"
  PROVE  /\ C!Apply(t, a) \in Timers
         /\ C!Apply(t, a).phase = "Running"
         /\ C!Apply(t, a).segment = 0
<1> DEFINE u == [C!Timer!Stopped EXCEPT !.phase = "Running"]
<1>1. u \in Timers /\ u.phase = "Running" /\ u.segment = 0
  BY StoppedTimer DEF Timers
<1>2. C!Restarted(t, a) = u
  BY StoppedTimer DEF C!Restarted, C!Timer!Start
<1> HIDE DEF u
<1> QED
  BY <1>1, <1>2, TimedKeepsTheSegment DEF C!Apply, C!Advanced

\* A split and its skips: the last segment is closed by a split, never by a
\* skip.
LEMMA ApplySplit ==
  ASSUME NEW t \in Timers, NEW a \in Actions,
         ~ a.reset, ~ a.start, a.split, a.skips < WARP_REACH,
         t.phase = "Running", t.segment < SEGMENTS
  PROVE  LET new == C!Apply(t, a)
         IN  /\ new \in Timers
             /\ t.segment + 1 = SEGMENTS => new.phase = "Ended"
             /\ t.segment + 1 < SEGMENTS =>
                  /\ new.phase = "Running"
                  /\ new.segment = IF t.segment + 1 + a.skips < SEGMENTS
                                   THEN t.segment + 1 + a.skips
                                   ELSE SEGMENTS - 1
<1>1. /\ a.skips \in Nat /\ t.segment \in Nat
      /\ SEGMENTS \in Nat \ {0} /\ MAX \in Nat /\ MAX >= WARP_REACH + 4
      /\ WARP_REACH \in 1..256
  BY PathAssumption, WarpReachAssumption DEF Actions, Timers
<1>2. C!Skipped(a) = a.skips
  BY <1>1 DEF C!Skipped, C!Led, C!One
<1> DEFINE f == [t EXCEPT !.segment = t.segment + 1]
           s == C!Timer!Split(t)
           u == C!Timer!SkipSplits(s, a.skips)
<1>3. f \in Timers /\ f.segment = t.segment + 1 /\ f.phase = "Running"
  BY <1>1 DEF Timers
<1>4. s = [f EXCEPT !.phase = IF t.segment + 1 = SEGMENTS
                              THEN "Ended" ELSE "Running"]
  BY DEF C!Timer!Split, Timers
<1> HIDE DEF f
<1>5. /\ s \in Timers /\ s.segment = t.segment + 1
      /\ s.phase = IF t.segment + 1 = SEGMENTS THEN "Ended" ELSE "Running"
  BY <1>3, <1>4 DEF Timers
<1>6. C!Apply(t, a) = C!Timed(u, a)
  BY <1>2 DEF C!Apply, C!Advanced, C!Restarted
<1> HIDE DEF s
<1>7. /\ u \in Timers /\ u.phase = s.phase
      /\ t.segment + 1 < SEGMENTS =>
           u.segment = IF t.segment + 1 + a.skips < SEGMENTS
                       THEN t.segment + 1 + a.skips
                       ELSE SEGMENTS - 1
  <2>1. CASE s.phase = "Running" /\ s.segment + 1 < SEGMENTS
    <3> DEFINE n == IF s.segment + a.skips < SEGMENTS
                    THEN s.segment + a.skips
                    ELSE SEGMENTS - 1
    <3>1. n \in 0..SEGMENTS
      BY <1>1, <1>5
    <3>2. u = [s EXCEPT !.segment = n]
      BY <2>1 DEF C!Timer!SkipSplits
    <3>3. n = IF t.segment + 1 + a.skips < SEGMENTS
              THEN t.segment + 1 + a.skips
              ELSE SEGMENTS - 1
      BY <1>5
    <3> HIDE DEF n, u
    <3>4. u \in Timers /\ u.phase = s.phase /\ u.segment = n
      BY <1>5, <3>1, <3>2 DEF Timers
    <3> QED
      BY <3>3, <3>4
  <2>2. CASE ~ (s.phase = "Running" /\ s.segment + 1 < SEGMENTS)
    <3>1. u = s
      BY <2>2 DEF C!Timer!SkipSplits
    <3> QED
      BY <1>1, <1>5, <2>2, <3>1
  <2> QED
    BY <2>1, <2>2
<1> HIDE DEF u
<1> QED
  BY <1>1, <1>5, <1>6, <1>7, TimedKeepsTheSegment

-----------------------------------------------------------------------------
(* A lost read *)

LEMMA ReadNothingKeeps ==
  ASSUME PInv, ReadNothing
  PROVE  PInv'
<1>1. NoGame(timer.phase)
  BY DEF ReadNothing, Tick
<1>2. timer.phase \in TimerStates /\ timer \in Timers
  BY DEF PInv, Typed, Timers, TimerStates
<1>3. TypeOK'
  BY <1>1, <1>2, NoGameType DEF PInv, Typed
<1>4. /\ UNCHANGED <<place, shown, torn, doors, over, due>>
      /\ UNCHANGED <<prev, route, origin, durationSeen, heartbeat, finished>>
      /\ seen' = None
  BY <1>1 DEF ReadNothing, playerVars, NoGame, SurvivesALostRead, beat, outcome
<1>5. /\ actions' \in Actions
      /\ ~ actions'.start /\ ~ actions'.split
      /\ actions'.reset => timer.phase = "Running"
  BY <1>1, <1>3 DEF TypeOK, NoGame, Nothing, Abandons, Unfinished
<1>6. /\ timer' \in Timers
      /\ \/ timer'.phase = timer.phase /\ timer'.segment = timer.segment
         \/ /\ timer'.phase = "NotRunning" /\ timer'.segment = 0
            /\ timer.phase = "Running"
  BY <1>2, <1>5, ApplyIdle, ApplyReset DEF ReadNothing
<1>7. Typed'
  BY <1>3, <1>4, <1>6 DEF PInv, Typed
<1>8. Quiet'
  BY <1>4, <1>6 DEF PInv, Quiet
<1>9. Placed'
  BY <1>4 DEF PInv, Placed, Shown, Near, Reached
<1>10. Counted'
  BY <1>4, <1>6 DEF PInv, Counted, Pending, Unended
<1> QED
  BY <1>7, <1>8, <1>9, <1>10 DEF PInv

-----------------------------------------------------------------------------
(* A read *)

LEMMA NowType ==
  ASSUME PInv
  PROVE  /\ Now \in State
         /\ Now.level = shown /\ Now.chrono = 0 /\ Now.duration = 0
         /\ Now.frame \in 1..2 /\ Now.frame # heartbeat
         /\ origin = None => Now.frame = 1
         /\ ~ Now.gameOver /\ ~ Now.locked
         /\ Started(Now) => over
<1>1. shown \in Level /\ FULL_MS \in Nat
  BY ThresholdAssumption DEF PInv, Typed
<1>2. (IF heartbeat = 1 THEN 2 ELSE 1) \in 1..2
  OBVIOUS
<1>3. Now \in State
  BY <1>1, <1>2 DEF Now, State
<1> QED
  BY <1>2, <1>3 DEF Now, Started, PInv, Quiet

\* A run of one game: it is dated once, it never rewinds, and every read of
\* it goes to the end of the tick.
LEMMA ReadFacts ==
  ASSUME PInv, ReadLevel
  PROVE  /\ timer.phase \in TimerStates /\ timer \in Timers
         /\ Play(timer.phase, Now)
         /\ KeptRoute(Now) = route
         /\ Dates(Now) <=> origin = None
         /\ ~ Rewinds(timer.phase, Now)
         /\ origin' = 1 /\ durationSeen' = 0 /\ heartbeat' \in 1..2
         /\ prev' = IF Confirmed(Now) THEN 0 ELSE prev
         /\ seen' = [level |-> shown, started |-> Started(Now)]
         /\ finished' = NowFinished(Now)
         /\ route' = IF Confirmed(Now) THEN Enter(route, shown) ELSE route
         /\ actions' = Ordered(timer.phase, Now)
         /\ timer' = C!Apply(timer, actions')
         /\ shown' = IF torn THEN place ELSE shown
         /\ ~ torn' /\ torn' \in BOOLEAN
         /\ UNCHANGED <<place, doors, over, due>>
<1>1. timer.phase \in TimerStates /\ timer \in Timers
  BY DEF PInv, Typed, Timers, TimerStates
<1>2. Now # None
  BY NowType, NoSightAssumption
<1>3. Alive(Now)
  BY NowType, ThresholdAssumption DEF Alive, Frozen, Beats
<1>4. Play(timer.phase, Now)
  BY <1>2, <1>3, NowType DEF ReadLevel, Tick, Read, GameOver, Stale
<1>5. ~ NewGame(Now)
  BY NowType DEF NewGame, PInv, Quiet
<1>6. KeptRoute(Now) = route /\ (Dates(Now) <=> origin = None)
  BY <1>5, NowType DEF KeptRoute, Dates, KeptOrigin
<1>7. NextOrigin(Now) = 1
  BY <1>5, <1>6, NowType DEF NextOrigin, KeptOrigin, PInv, Quiet
<1>8. ~ Rewinds(timer.phase, Now)
  BY NowType, ThresholdAssumption DEF Rewinds, Decides, PInv, Quiet
<1>9. /\ timer' = C!Apply(timer, actions')
      /\ shown' = IF torn THEN place ELSE shown
      /\ ~ torn' /\ torn' \in BOOLEAN
      /\ UNCHANGED <<place, doors, over, due>>
  BY DEF ReadLevel
<1> QED
  BY <1>1, <1>4, <1>6, <1>7, <1>8, <1>9, NowType DEF Play

\* The level of the player is confirmed, or the route stays what it was: the
\* memory shows the level left, or the first one again.
LEMMA ReadRoute ==
  ASSUME PInv, ReadLevel, Confirmed(Now)
  PROVE  \/ /\ shown = place /\ ~ torn /\ route'.here = place
            /\ route'.left = IF ChangesWorld(route, place)
                             THEN [route.left EXCEPT
                                    ![route.here.world] = route.here.id]
                             ELSE route.left
         \/ /\ shown # place /\ ~ over
            /\ route' = route /\ ~ Crosses(route, shown)
<1>1. route' = Enter(route, shown) /\ seen # None /\ seen.level = shown
  BY ReadFacts, NowType DEF Confirmed
<1>2. CASE shown = place
  <2>1. ~ torn
    BY <1>2, TornIsElsewhere
  <2>2. ~ ShowsTheLevelLeft(route, place)
    BY PlaceFacts, NoneAssumption DEF ShowsTheLevelLeft, Elsewhere, PInv, Placed, Near
  <2> QED
    BY <1>1, <1>2, <2>1, <2>2 DEF Enter
<1>3. CASE shown # place
  <2>1. ~ over
    BY <1>3 DEF PInv, Placed
  <2>2. CASE torn
    <3>1. /\ shown = At(Adventure, FIRST_LEVEL)
          /\ route.here = shown
      BY <1>1, <2>2 DEF PInv, Placed, Shown
    <3>2. ~ Elsewhere(route, shown)
      BY <3>1 DEF Elsewhere
    <3>3. /\ ~ ShowsTheLevelLeft(route, shown) /\ ~ ChangesWorld(route, shown)
      BY <3>2 DEF ShowsTheLevelLeft, ChangesWorld
    <3>4. route' = [here |-> shown, left |-> route.left]
      BY <1>1, <3>3 DEF Enter
    <3>5. route' = route
      BY <3>1, <3>4 DEF PInv, Typed, TypeOK, Routes
    <3>6. ~ GoesForward(route, shown)
      BY <3>1, PlaceFacts DEF GoesForward
    <3> QED
      BY <1>3, <2>1, <3>3, <3>5, <3>6 DEF Crosses
  <2>3. CASE ~ torn
    <3>1. ShowsTheLevelLeft(route, shown)
      BY <1>3, <2>3
         DEF PInv, Placed, Shown, ShowsTheLevelLeft, Elsewhere
    <3>2. ~ GoesForward(route, shown)
      BY <3>1 DEF ShowsTheLevelLeft, Elsewhere, GoesForward
    <3> QED
      BY <1>1, <1>3, <2>1, <3>1, <3>2 DEF Enter, Crosses, ChangesWorld
  <2> QED
    BY <2>2, <2>3
<1> QED
  BY <1>2, <1>3

\* What the policy learns when it confirms the level of the player: the
\* split and the skips stand for the segments it had still to learn of.
LEMMA CrossingIsPending ==
  ASSUME PInv
  PROVE  /\ Crosses(route, place) => Pending = 1 + Skips(route, place)
         /\ ~ Crosses(route, place) => Pending = 0
<1>1. CASE route.here \in {None, place}
  BY <1>1, PlaceFacts
     DEF Pending, Crosses, ChangesWorld, GoesForward, Elsewhere
<1>2. CASE route.here \notin {None, place}
  <2>1. Near /\ route.here \in Level
    BY <1>2, PlaceFacts DEF PInv, Placed
  <2>2. CASE route.here.world = place.world
    <3>1. GoesForward(route, place)
      BY <1>2, <2>1, <2>2, PlaceFacts DEF GoesForward, Near, At
    <3>2. place.id - route.here.id >= 1
      BY <2>1, <3>1, PlaceFacts DEF GoesForward
    <3>3. place.id - route.here.id <= WARP_REACH
            => (place.id - route.here.id - 1) % 256
                 = place.id - route.here.id - 1
      <4> DEFINE jump == place.id - route.here.id
      <4>1. jump \in Int /\ jump >= 1
        BY <1>2, <3>2, PlaceFacts
      <4> HIDE DEF jump
      <4>2. jump <= WARP_REACH => (jump - 1) % 256 = jump - 1
        BY <4>1, PlaceFacts
      <4> QED
        BY <4>2 DEF jump
    <3> QED
      BY <1>2, <2>1, <2>2, <3>1, <3>2, <3>3, PlaceFacts
         DEF Pending, Skips, SkipsAfter, Crosses
  <2>3. CASE route.here.world # place.world
    <3>1. ChangesWorld(route, place) /\ ~ GoesForward(route, place)
      BY <1>2, <2>1, <2>3, PlaceFacts, NoneAssumption
         DEF ChangesWorld, ShowsTheLevelLeft, Elsewhere, GoesForward, Near
    <3> QED
      BY <1>2, <2>3, <3>1 DEF Pending, Skips, Crosses
  <2> QED
    BY <2>2, <2>3
<1> QED
  BY <1>1, <1>2

LEMMA ReadKeepsTheTypes ==
  ASSUME PInv, ReadLevel, timer' \in Timers
  PROVE  Typed' /\ Quiet'
<1>1. TypeOK'
  BY ReadFacts, NowType, PlayType DEF PInv, Typed
<1>2. Typed'
  BY <1>1, ReadFacts DEF PInv, Typed
<1>3. (origin = None => heartbeat = 0 /\ seen = None /\ route = NewRoute
                        /\ timer.phase = "NotRunning" /\ ~ finished)'
  BY ReadFacts, NoneAssumption
<1>4. /\ (route.here # None => prev = 0)'
      /\ prev' \in {None, 0}
  BY ReadFacts DEF PInv, Quiet
<1>5. finished' => over'
  BY ReadFacts, NowType DEF PInv, Quiet, NowFinished, StillFinished, Finishes
<1>6. (seen # None /\ seen.started => over)'
  BY ReadFacts, NowType
<1>7. Quiet'
  BY <1>3, <1>4, <1>5, <1>6, ReadFacts DEF Quiet
<1> QED
  BY <1>2, <1>7

\* The route after the read, and what is still pending.
LEMMA ReadKeepsThePlaces ==
  ASSUME PInv, ReadLevel
  PROVE  Placed'
<1>1. /\ place' = place /\ doors' = doors /\ over' = over /\ ~ torn'
      /\ shown' = IF torn THEN place ELSE shown
      /\ seen'.level = shown
  BY ReadFacts
<1>2. \/ route' = route
      \/ /\ shown = place /\ ~ torn /\ route'.here = place
         /\ route'.left = IF ChangesWorld(route, place)
                          THEN [route.left EXCEPT
                                 ![route.here.world] = route.here.id]
                          ELSE route.left
  BY ReadRoute, ReadFacts
<1>3. Reached(place)' /\ (place.world = Dimension => doors = place.id + 1)'
  BY <1>1 DEF PInv, Placed, Reached
<1>4. (route.here # None => Reached(route.here) /\ Near)'
  <2>1. CASE route' = route
    BY <1>1, <2>1 DEF PInv, Placed, Reached, Near
  <2>2. CASE route'.here = place
    BY <1>1, <1>3, <2>2 DEF Reached, Near
  <2> QED
    BY <1>2, <2>1, <2>2
<1>5. /\ (route.left[Adventure] # None => route.left[Adventure] >= FIRST_LEVEL)'
      /\ (route.left[Dimension] # None => route.left[Dimension] < doors)'
  <2>1. CASE route' = route \/ route'.left = route.left
    BY <1>1, <2>1 DEF PInv, Placed
  <2>2. CASE /\ ChangesWorld(route, place)
             /\ route'.left = [route.left EXCEPT
                                ![route.here.world] = route.here.id]
    <3>1. route.here # None /\ Reached(route.here)
      BY <2>2 DEF ChangesWorld, Elsewhere, PInv, Placed
    <3>2. \A w \in World : route'.left[w] = IF w = route.here.world
                                            THEN route.here.id
                                            ELSE route.left[w]
      BY <2>2, PlaceFacts
    <3> QED
      BY <1>1, <3>1, <3>2, PlaceFacts DEF Reached, PInv, Placed
  <2> QED
    BY <1>2, <2>1, <2>2
<1>6. Shown'
  <2>1. SUFFICES ASSUME shown' # place'
                 PROVE  (/\ route.here # None /\ route.here.world # place.world
                         /\ shown.world = place.world
                         /\ route.left[place.world] = shown.id)'
    BY <1>1 DEF Shown
  <2>2. ~ torn /\ shown # place /\ shown' = shown
    BY <1>1, <2>1
  <2>3. route' = route
    BY <1>2, <2>2
  <2> QED
    BY <1>1, <2>2, <2>3 DEF PInv, Placed, Shown
<1>7. place = At(Adventure, FIRST_LEVEL) => shown = place
  <2>1. SUFFICES ASSUME place = At(Adventure, FIRST_LEVEL), shown # place
                 PROVE  FALSE
    OBVIOUS
  <2>2. place.world = Adventure /\ place.id = FIRST_LEVEL
    BY <2>1 DEF At
  <2>3. ~ torn
    BY <2>2, PlaceFacts DEF PInv, Placed, Shown, At
  <2>4. /\ route.here # None /\ route.here.world # Adventure
        /\ route.left[Adventure] = shown.id
    BY <2>1, <2>2, <2>3 DEF PInv, Placed, Shown
  <2>5. route.left[Adventure] # None
    BY <2>4, PlaceFacts, LevelParts, NoneAssumption
  <2>6. /\ route.left[Adventure] < FIRST_LEVEL
        /\ route.left[Adventure] >= FIRST_LEVEL
    BY <2>2, <2>4, <2>5 DEF PInv, Placed, Near
  <2> QED
    BY <2>5, <2>6, PlaceFacts
<1>8. over' => route'.here = place' /\ shown' = place'
  BY <1>1, <1>2 DEF PInv, Placed
<1> QED
  BY <1>1, <1>3, <1>4, <1>5, <1>6, <1>7, <1>8 DEF Placed

\* What the policy learns from a read.
LEMMA ReadLearns ==
  ASSUME PInv, ReadLevel
  PROVE  /\ Confirmed(Now) /\ Crosses(route, shown) =>
              /\ Pending = 1 + Skips(route, shown) /\ Pending' = 0
              /\ ~ over /\ prev = 0
         /\ ~ (Confirmed(Now) /\ Crosses(route, shown)) => Pending' = Pending
         /\ route'.here = None => route.here = None
         /\ over => Pending = 0
<1>1. place' = place
  BY ReadFacts
<1>2. over => Pending = 0
  BY DEF PInv, Placed, Pending
<1>3. CASE ~ Confirmed(Now)
  BY <1>1, <1>2, <1>3, ReadFacts DEF Pending
<1>4. CASE Confirmed(Now) /\ shown = place
  <2>1. route'.here = place
    BY <1>4, ReadRoute
  <2>2. Pending' = 0
    BY <1>1, <2>1 DEF Pending
  <2>3. place # None
    BY PlaceFacts, NoneAssumption
  <2>4. CASE Crosses(route, place)
    <3>1. Pending = 1 + Skips(route, place)
      BY <2>4, CrossingIsPending
    <3>2. Skips(route, place) \in 0..(WARP_REACH - 1)
      BY SkipsBound, PlaceFacts DEF PInv, Typed, TypeOK
    <3>3. route.here # None
      BY <2>4 DEF Crosses, ChangesWorld, Elsewhere, GoesForward
    <3>4. Pending # 0
      BY <3>1, <3>2, PlaceFacts
    <3> QED
      BY <1>2, <1>4, <2>1, <2>2, <2>3, <2>4, <3>1, <3>3, <3>4 DEF PInv, Quiet
  <2>5. CASE ~ Crosses(route, place)
    BY <1>2, <1>4, <2>1, <2>2, <2>3, <2>5, CrossingIsPending
  <2> QED
    BY <2>4, <2>5
<1>5. CASE Confirmed(Now) /\ shown # place
  BY <1>1, <1>2, <1>5, ReadRoute DEF Pending
<1> QED
  BY <1>3, <1>4, <1>5

LEMMA ReadLevelKeeps ==
  ASSUME PInv, ReadLevel
  PROVE  PInv'
<1> DEFINE a == Ordered(timer.phase, Now)
<1>1. a \in Actions /\ a.skips < WARP_REACH
      /\ (a.split => ~ a.reset /\ ~ a.start)
  <2>1. OneStory' /\ actions' = a
    BY ReadFacts, NowType, OrderedTellsOneStory DEF PInv, Typed
  <2> QED
    BY <2>1, ReadFacts, NowType, OrderedType DEF PInv, Typed, OneStory
<1>2. /\ a.reset <=> RestartsEnded(timer.phase, Now)
      /\ a.start <=> \/ origin = None /\ NowLaunched /\ timer.phase = "NotRunning"
                     \/ RestartsEnded(timer.phase, Now)
      /\ a.split <=> \/ Finishes(Now) /\ timer.phase = "Running"
                     \/ Splits(timer.phase, Now)
      /\ a.skips = IF Splits(timer.phase, Now) THEN Skips(route, shown) ELSE 0
  BY ReadFacts, NowType DEF Ordered
<1>3. timer' = C!Apply(timer, a)
  BY ReadFacts
<1> HIDE DEF a
<1>4. /\ due' = due /\ over' = over /\ due \in Nat /\ SEGMENTS \in Nat \ {0}
      /\ timer \in Timers /\ timer.segment \in 0..SEGMENTS
      /\ finished' = NowFinished(Now)
      /\ Pending \in Nat /\ Pending' \in Nat
      /\ (route'.here = None => due = 0)
  BY ReadFacts, ReadLearns, PlaceFacts, PendingType
     DEF PInv, Typed, Counted
<1>5. SUFFICES timer' \in Timers /\ Counted'
  BY ReadKeepsTheTypes, ReadKeepsThePlaces DEF PInv
<1>6. CASE timer.phase = "NotRunning"
  <2>1. ~ a.reset /\ ~ a.split /\ (a.start => origin = None)
    BY <1>2, <1>6 DEF RestartsEnded, Splits
  <2>2. timer.segment = 0
    BY <1>6 DEF PInv, Counted
  <2>3. CASE ~ a.start
    BY <1>1, <1>3, <1>4, <1>6, <2>1, <2>2, <2>3, ApplyIdle DEF Counted
  <2>4. CASE a.start
    <3>1. timer' \in Timers /\ timer'.phase = "Running" /\ timer'.segment = 0
      BY <1>1, <1>3, <1>4, <1>6, <2>1, <2>4, ApplyStart
    <3>2. /\ route.here = None /\ seen = None
      BY <2>1, <2>4 DEF PInv, Quiet, NewRoute
    <3>3. ~ over /\ due = 0
      BY <3>2, PlaceFacts, NoneAssumption DEF PInv, Placed, Counted
    <3>4. ~ Confirmed(Now)
      BY <3>2 DEF Confirmed
    <3>5. Pending = 0 /\ Pending' = 0 /\ Unended' = 0
      BY <1>4, <3>2, <3>3, <3>4, ReadLearns DEF Pending, Unended
    <3> QED
      BY <1>4, <3>1, <3>3, <3>5 DEF Counted
  <2> QED
    BY <2>3, <2>4
<1>7. CASE timer.phase = "Ended"
  <2>1. ~ a.split /\ due >= SEGMENTS /\ origin # None
    BY <1>2, <1>7 DEF Splits, PInv, Counted, Quiet
  <2>2. CASE a.reset
    <3>1. timer' \in Timers /\ timer'.phase = "Running" /\ timer'.segment = 0
      BY <1>1, <1>2, <1>3, <1>4, <2>1, <2>2, ApplyStart
    <3> QED
      BY <1>4, <2>1, <3>1 DEF Counted
  <2>3. CASE ~ a.reset
    <3>1. ~ a.start
      BY <1>2, <1>7, <2>3
    <3>2. timer' \in Timers /\ timer'.phase = "Ended"
      BY <1>1, <1>3, <1>4, <1>7, <2>1, <2>3, <3>1, ApplyIdle
    <3> QED
      BY <1>4, <2>1, <3>2 DEF Counted
  <2> QED
    BY <2>2, <2>3
<1>8. CASE timer.phase = "Running"
  <2>1. /\ origin # None /\ ~ a.reset /\ ~ a.start
        /\ timer.segment < SEGMENTS
        /\ due < SEGMENTS => due = timer.segment + Pending + Unended
    BY <1>2, <1>8 DEF PInv, Quiet, Counted, RestartsEnded
  <2>2. /\ StillFinished(Now) <=> finished
        /\ finished' <=> finished \/ Finishes(Now)
    BY <1>4, <2>1, ReadFacts DEF NowFinished, StillFinished, PInv, Typed, TypeOK
  <2>3. CASE ~ a.split
    <3>1. ~ Finishes(Now) /\ ~ Splits(timer.phase, Now)
      BY <1>2, <1>8, <2>3
    <3>2. ~ (Confirmed(Now) /\ Crosses(route, shown))
      <4>1. SUFFICES ASSUME Confirmed(Now), Crosses(route, shown) PROVE FALSE
        OBVIOUS
      <4>2. ~ over /\ prev = 0
        BY <4>1, ReadLearns
      <4>3. ~ NowFinished(Now)
        BY <1>4, <2>2, <3>1, <4>2 DEF PInv, Quiet
      <4>4. Decides(Now)
        BY <4>1, <4>2, <4>3, NoneAssumption DEF Decides
      <4> QED
        BY <1>8, <3>1, <4>1, <4>4, ReadFacts, NowType
           DEF Splits, RestartsEnded
    <3>3. Pending' = Pending /\ Unended' = Unended
      BY <1>4, <2>2, <3>1, <3>2, ReadLearns DEF Unended
    <3>4. /\ timer' \in Timers /\ timer'.phase = "Running"
          /\ timer'.segment = timer.segment
      BY <1>1, <1>3, <1>4, <1>8, <2>1, <2>3, ApplyIdle
    <3> QED
      BY <1>4, <2>1, <3>3, <3>4 DEF Counted
  <2>4. CASE a.split
    <3>1. /\ timer' \in Timers
          /\ timer.segment + 1 = SEGMENTS => timer'.phase = "Ended"
          /\ timer.segment + 1 < SEGMENTS =>
               /\ timer'.phase = "Running"
               /\ timer'.segment = IF timer.segment + 1 + a.skips < SEGMENTS
                                   THEN timer.segment + 1 + a.skips
                                   ELSE SEGMENTS - 1
      BY <1>1, <1>3, <1>4, <1>8, <2>1, <2>4, ApplySplit
    <3>2. /\ a.skips \in Nat /\ Pending + Unended = 1 + a.skips
          /\ Pending' = 0 /\ Unended' = 0
      <4>1. CASE Finishes(Now)
        <5>1. over /\ finished' /\ ~ finished
          BY <2>2, <4>1, NowType DEF Finishes
        <5>2. ~ Splits(timer.phase, Now)
          BY <4>1 DEF Splits, Decides, NowFinished
        <5>3. a.skips = 0 /\ Unended = 1 /\ Unended' = 0
          BY <1>2, <1>4, <5>1, <5>2 DEF Unended
        <5>4. Pending = 0 /\ Pending' = 0
          BY <5>1, ReadLearns
        <5> QED
          BY <5>3, <5>4
      <4>2. CASE ~ Finishes(Now)
        <5>1. Splits(timer.phase, Now) /\ a.skips = Skips(route, shown)
          BY <1>2, <2>4, <4>2
        <5>2. Confirmed(Now) /\ Crosses(route, shown)
          BY <5>1, ReadFacts, NowType DEF Splits, Decides
        <5>3. /\ Pending = 1 + a.skips /\ Pending' = 0 /\ ~ over
          BY <5>1, <5>2, ReadLearns
        <5>4. Unended = 0 /\ Unended' = 0
          BY <1>4, <5>3 DEF Unended
        <5> QED
          BY <1>1, <5>3, <5>4 DEF Actions
      <4> QED
        BY <4>1, <4>2
    <3>3. due < SEGMENTS =>
            /\ due = timer.segment + 1 + a.skips
            /\ timer.segment + 1 < SEGMENTS
      <4>1. Unended \in 0..1 /\ timer.segment \in Nat
        BY <1>4, PendingType
      <4> QED
        BY <1>4, <2>1, <3>2, <4>1
    <3>4. CASE timer.segment + 1 = SEGMENTS
      BY <1>4, <3>1, <3>3, <3>4 DEF Counted
    <3>5. CASE timer.segment + 1 < SEGMENTS
      <4>1. /\ timer'.phase = "Running" /\ timer'.segment < SEGMENTS
            /\ due < SEGMENTS =>
                 due = timer'.segment + Pending' + Unended'
        <5>1. timer.segment \in Nat /\ a.skips \in Nat
          BY <1>4, <3>2
        <5> QED
          BY <1>4, <3>1, <3>2, <3>3, <3>5, <5>1
      <4> QED
        BY <1>4, <3>1, <4>1 DEF Counted
    <3> QED
      BY <1>4, <2>1, <3>4, <3>5
  <2> QED
    BY <2>3, <2>4
<1> QED
  BY <1>4, <1>6, <1>7, <1>8 DEF Timers

-----------------------------------------------------------------------------
(* The theorems *)

LEMMA InitPath == PathInit => PInv
<1> SUFFICES ASSUME PathInit PROVE PInv
  OBVIOUS
<1>1. TypeOK
  BY InitType DEF PathInit
<1>2. /\ prev = None /\ seen = None /\ route = NewRoute /\ origin = None
      /\ durationSeen = 0 /\ heartbeat = 0 /\ finished = FALSE
      /\ place = At(Adventure, FIRST_LEVEL) /\ shown = place
      /\ torn = FALSE /\ doors = 0 /\ over = FALSE
      /\ timer = C!Timer!Stopped /\ due = 0
  BY DEF PathInit, Init
<1>3. place \in Level /\ place.world = Adventure /\ place.id = FIRST_LEVEL
  BY <1>2, AtParts, WorldAssumption, ThresholdAssumption
<1>4. Typed
  BY <1>1, <1>2, <1>3, StoppedTimer DEF Typed
<1>5. /\ route.here = None
      /\ \A w \in World : route.left[w] = None
      /\ Adventure \in World /\ Dimension \in World /\ Adventure # Dimension
      /\ FIRST_LEVEL \in Int
  BY <1>2, WorldAssumption, PathAssumption, ThresholdAssumption DEF NewRoute
<1>6. Quiet
  BY <1>2, <1>5, StoppedTimer DEF Quiet
<1>7. Placed
  BY <1>2, <1>3, <1>5 DEF Placed, Shown, Reached
<1>8. Counted
  BY <1>2, StoppedTimer DEF Counted
<1> QED
  BY <1>4, <1>6, <1>7, <1>8 DEF PInv

LEMMA NextPath == PInv /\ [PathNext]_vars => PInv'
<1> SUFFICES ASSUME PInv, [PathNext]_vars PROVE PInv'
  OBVIOUS
<1>1. CASE UNCHANGED vars
  <2>1. UNCHANGED <<place, shown, torn, doors, over, timer, due>>
    BY <1>1 DEF vars, playerVars
  <2>2. UNCHANGED policyVars
    BY <1>1 DEF vars
  <2>3. TypeOK'
    BY <2>2, NextType DEF PInv, Typed
  <2> QED
    BY <2>1, <2>2, <2>3
       DEF PInv, Typed, Quiet, Placed, Shown, Near, Reached, Counted, Pending,
           Unended, policyVars
<1>2. CASE PathNext
  BY <1>2, WalkKeeps, ShortcutKeeps, EnterDimensionKeeps, LeaveDimensionKeeps,
     SettleKeeps, ElevatorKeeps, ReadLevelKeeps, ReadNothingKeeps
     DEF PathNext
<1> QED
  BY <1>1, <1>2

THEOREM PathInvariant == PathSpec => []PInv
BY InitPath, NextPath, PTL DEF PathSpec

\* No read, torn, lost or repeated, puts the timer ahead of the player, for
\* any warp reach, shortcut, dimension and splits file.
THEOREM TheTimerIsNeverAhead == PathSpec => []NeverAhead
<1>1. PInv => NeverAhead
  BY PendingType, PlaceFacts DEF PInv, Counted, Timers, Typed, NeverAhead
<1> QED
  BY <1>1, PathInvariant, PTL

\* Once the level of the player is confirmed, and an end noticed, the timer
\* is on the segment the moves of the player lead to, as long as the splits
\* file has segments left.
THEOREM TheSplitsFollowTheLevels == PathSpec => []SegmentsInStep
<1>1. ASSUME PInv PROVE SegmentsInStep
  <2>1. SUFFICES ASSUME timer.phase = "Running", due < SEGMENTS, Known,
                        over => finished
                 PROVE  timer.segment = due
    BY DEF SegmentsInStep
  <2>2. Pending = 0 /\ Unended = 0
    BY <2>1 DEF Pending, Unended, Known
  <2>3. due = timer.segment + Pending + Unended
    BY <1>1, <2>1 DEF PInv, Counted
  <2> QED
    BY <1>1, <2>2, <2>3, PlaceFacts
<1> QED
  BY <1>1, PathInvariant, PTL

-----------------------------------------------------------------------------
(* The list of commands *)

LEMMA ConcatLength ==
  ASSUME NEW S, NEW s \in Seq(S), NEW t \in Seq(S)
  PROVE  s \o t \in Seq(S) /\ Len(s \o t) = Len(s) + Len(t)
OBVIOUS

LEMMA WantedLength ==
  ASSUME NEW a \in Actions
  PROVE  Len(C!Wanted(a)) = C!Led(a) + IF a.time # None THEN 2 ELSE 0
<1> DEFINE skips == [i \in 1..a.skips |-> C!Command("SkipSplit")]
           S     == {C!Command("Reset"), C!Command("Start"),
                     C!Command("Split"), C!Command("SkipSplit"),
                     C!Command("PauseGameTime"),
                     [name |-> "SetGameTime", ms |-> a.time]}
           reset == C!When(a.reset, <<C!Command("Reset")>>)
           start == C!When(a.start, <<C!Command("Start")>>)
           split == C!When(a.split, <<C!Command("Split")>> \o skips)
           timed == C!When(a.time # None,
                      <<C!Command("PauseGameTime"),
                        [name |-> "SetGameTime", ms |-> a.time]>>)
<1>1. /\ C!Command("Reset") \in S /\ C!Command("Start") \in S
      /\ C!Command("Split") \in S /\ C!Command("SkipSplit") \in S
      /\ C!Command("PauseGameTime") \in S
      /\ [name |-> "SetGameTime", ms |-> a.time] \in S
  OBVIOUS
<1> HIDE DEF S
<1>2. a.skips \in Nat
  BY DEF Actions
<1>3. skips \in Seq(S) /\ Len(skips) = a.skips
  BY <1>1, <1>2
<1> HIDE DEF skips
<1>4. reset \in Seq(S) /\ Len(reset) = C!One(a.reset)
  BY <1>1 DEF C!When, C!One
<1>5. start \in Seq(S) /\ Len(start) = C!One(a.start)
  BY <1>1 DEF C!When, C!One
<1>6. /\ split \in Seq(S)
      /\ Len(split) = IF a.split THEN 1 + a.skips ELSE 0
  BY <1>1, <1>2, <1>3 DEF C!When
<1>7. /\ timed \in Seq(S)
      /\ Len(timed) = IF a.time # None THEN 2 ELSE 0
  BY <1>1 DEF C!When
<1>8. C!Wanted(a) = reset \o start \o split \o timed
  BY DEF C!Wanted, skips
<1> HIDE DEF reset, start, split, timed
<1>9. /\ reset \o start \in Seq(S)
      /\ Len(reset \o start) = C!One(a.reset) + C!One(a.start)
  BY <1>4, <1>5
<1>10. /\ reset \o start \o split \in Seq(S)
       /\ Len(reset \o start \o split) = C!Led(a)
  BY <1>6, <1>9 DEF C!Led
<1>11. C!Led(a) \in Nat
  BY <1>2 DEF C!Led, C!One
<1> DEFINE led == reset \o start \o split
<1>12. led \in Seq(S) /\ Len(led) = C!Led(a)
  BY <1>10
<1> HIDE DEF led
<1>13. Len(led \o timed) = Len(led) + Len(timed)
  BY <1>7, <1>12, ConcatLength
<1>14. C!Wanted(a) = led \o timed
  BY <1>8 DEF led
<1> QED
  BY <1>7, <1>11, <1>12, <1>13, <1>14

\* The orders of every tick fit in the list.
LEMMA PathOneStory ==
  PInv /\ OneStory /\ [PathNext]_vars => OneStory'
<1> SUFFICES ASSUME PInv, OneStory, [PathNext]_vars PROVE OneStory'
  OBVIOUS
<1>1. CASE UNCHANGED vars
  BY <1>1 DEF vars, policyVars, OneStory
<1>2. CASE actions' = Nothing
  BY <1>2, NoSplitOneStory DEF Nothing
<1>3. CASE ReadLevel
  BY <1>3, ReadFacts, NowType, OrderedTellsOneStory DEF PInv, Typed
<1>4. CASE ReadNothing
  BY <1>4, NoSplitOneStory DEF ReadNothing, Tick, NoGame, Nothing
<1>5. PathNext => ReadLevel \/ ReadNothing \/ actions' = Nothing
  BY RestsKeepFacts
     DEF PathNext, Walk, Shortcut, EnterDimension, LeaveDimension, Go, Settle,
         Elevator
<1> QED
  BY <1>1, <1>2, <1>3, <1>4, <1>5

\* The list of commands has room for the widest warp zone, whatever its
\* length: no order of a tick is dropped.
THEOREM NothingIsDropped == PathSpec => []NoCommandIsDropped
<1>1. PathInit => OneStory
  BY NoSplitOneStory, WarpReachAssumption DEF PathInit, Init, Nothing, OneStory
<1>2. ASSUME PInv, OneStory PROVE NoCommandIsDropped
  <2>1. actions \in Actions
    BY <1>2 DEF PInv, Typed, TypeOK
  <2>2. C!Led(actions) \in Nat /\ C!Led(actions) <= WARP_REACH + 1
    BY <1>2, <2>1, WarpReachAssumption
       DEF OneStory, C!Led, C!One, Actions
  <2>3. Len(C!Wanted(actions)) <= MAX
    BY <2>1, <2>2, WantedLength, WarpReachAssumption, PathAssumption
  <2> QED
    BY <2>3 DEF NoCommandIsDropped, C!CommandsOf
<1> QED
  BY <1>1, <1>2, PathOneStory, PathInvariant, PTL DEF PathSpec

=============================================================================
