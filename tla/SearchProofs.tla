---------------------------- MODULE SearchProofs ----------------------------
(***************************************************************************)
(* How long the search may miss a game that is there to be found, for any  *)
(* number of loads and regions, and for every kind of player.              *)
(***************************************************************************)
EXTENDS SearchProps, TLAPS

-----------------------------------------------------------------------------
(* The inductive invariant *)

\* The load that runs is intact, in memory that is mapped; a sweep runs only
\* while no GameManager is known.
Settled ==
  /\ live # None => live \in Intact /\ home[live] \in Mapped
  /\ sweep # {} => manager = None

\* What the attempts that missed the live game have left.  A sweep under way
\* when the game appeared misses at most once; a sweep of the regions that
\* had changed, once more, and after it none of them has changed; then every
\* attempt skipped counts towards the whole sweep, which does not miss.
Counted ==
  missed > 0 =>
    /\ live # None /\ mode[live] = "game" /\ Intact = {live}
    /\ manager = None
    /\ missed <= FULL_SWEEP + 1
    /\ sweep # {} => /\ before = {live} /\ regions = size
                     /\ sweep = Mapped \/ missed <= 1
    /\ sweep = {} => IF Fresh(regions) = {}
                     THEN missed <= 2 + sweeps
                     ELSE missed <= 1

SearchInv == TypeOK /\ Settled /\ Counted

-----------------------------------------------------------------------------
(* The counters *)

\* A counter modulo n, one step further.
LEMMA NextModulo ==
  ASSUME NEW n \in Nat \ {0}, NEW i \in 0..(n - 1)
  PROVE  /\ (i + 1) % n \in 0..(n - 1)
         /\ (i + 1) % n # 0 => (i + 1) % n = i + 1
OBVIOUS

-----------------------------------------------------------------------------
(* Types *)

Modes == {"unborn", "null", "menu", "game", "junk", "unmapped"}

LEMMA SearchInitType == Init => TypeOK
<1> SUFFICES ASSUME Init PROVE TypeOK
  OBVIOUS
<1>1. (CHOOSE r \in Region : TRUE) \in Region
  BY SearchAssumption
<1>2. 0..1 \subseteq 0..MAX_SIZE /\ 0 \in 0..MAX_SIZE
  BY SearchAssumption
<1>3. size \in [Region -> 0..MAX_SIZE] /\ regions \in [Region -> 0..MAX_SIZE]
  BY <1>2 DEF Init
<1>4. home \in [Load -> Region] /\ mode \in [Load -> Modes]
  BY <1>1 DEF Init, Modes
<1>5. manager_idle \in 0..(MANAGER_IDLE_LIMIT - 1) /\ sweeps \in 0..(FULL_SWEEP - 1)
  BY SearchAssumption DEF Init
<1>6. /\ live = None /\ manager = None /\ held = None /\ declared = None
      /\ cache \in [Key -> Load \cup {None}] /\ missed \in Nat
      /\ manager_proven \in BOOLEAN /\ sweep \subseteq Region
      /\ before \subseteq Load
  BY DEF Init
<1> QED
  BY <1>3, <1>4, <1>5, <1>6 DEF TypeOK, Modes

\* What the player does to its memory.
LEMMA PlayerType ==
  ASSUME TypeOK, Player
  PROVE  /\ TypeOK' /\ missed' = 0
         /\ UNCHANGED <<anchor, loop>>
<1>1. missed' = 0 /\ UNCHANGED <<anchor, loop>>
  BY DEF Player
<1>2. UNCHANGED <<manager, manager_proven, manager_idle, regions, sweeps, cache,
                  held, declared, sweep, before>>
  BY <1>1 DEF anchor, loop
<1>3. SUFFICES /\ live' \in Load \cup {None}
               /\ mode' \in [Load -> Modes]
               /\ home' \in [Load -> Region]
               /\ size' \in [Region -> 0..MAX_SIZE]
  BY <1>1, <1>2 DEF TypeOK, Modes
<1> USE DEF TypeOK, Modes
<1>4. CASE Transition
  BY <1>4 DEF Transition
<1>5. CASE Leave
  BY <1>5 DEF Leave
<1>6. ASSUME NEW i \in Load, Born(i)
      PROVE  /\ live' \in Load \cup {None}
             /\ mode' \in [Load -> Modes]
             /\ home' \in [Load -> Region]
             /\ size' \in [Region -> 0..MAX_SIZE]
  <2>1. PICK r \in Region :
          /\ home' = [home EXCEPT ![i] = r]
          /\ size' \in {[size EXCEPT ![r] = n] : n \in (size[r]..MAX_SIZE) \ {0}}
    BY <1>6 DEF Born
  <2>2. PICK n \in (size[r]..MAX_SIZE) \ {0} : size' = [size EXCEPT ![r] = n]
    BY <2>1
  <2>3. n \in 0..MAX_SIZE
    BY <2>2, SearchAssumption
  <2> QED
    BY <1>6, <2>1, <2>2, <2>3 DEF Born
<1>7. ASSUME NEW i \in Load, Recycle(i) \/ Unmap(i)
      PROVE  /\ live' \in Load \cup {None}
             /\ mode' \in [Load -> Modes]
             /\ home' \in [Load -> Region]
             /\ size' \in [Region -> 0..MAX_SIZE]
  BY <1>7 DEF Recycle, Unmap
<1>8. ASSUME NEW r \in Region, Resize(r)
      PROVE  /\ live' \in Load \cup {None}
             /\ mode' \in [Load -> Modes]
             /\ home' \in [Load -> Region]
             /\ size' \in [Region -> 0..MAX_SIZE]
  BY <1>8, SearchAssumption DEF Resize
<1> QED
  BY <1>4, <1>5, <1>6, <1>7, <1>8 DEF Player

LEMMA HoldType ==
  ASSUME TypeOK, NEW i \in Load, Hold(i)
  PROVE  held' \in Load \cup {None} /\ declared' \in Load \cup {None}
BY DEF TypeOK, Hold

LEMMA KeptType ==
  ASSUME TypeOK
  PROVE  Kept \in {manager, None} /\ Kept \in Load \cup {None}
BY DEF TypeOK, Kept

LEMMA MissType ==
  ASSUME TypeOK, Miss
  PROVE  missed' \in Nat
BY DEF TypeOK, Miss

LEMMA ListType ==
  ASSUME TypeOK, NEW list \in Lists
  PROVE  list \in [Region -> 0..MAX_SIZE]
BY SearchAssumption DEF TypeOK, Lists

\* What a sweep answers.
LEMMA AnswersType ==
  ASSUME TypeOK, NEW key \in Key, NEW accepted, NEW answer \in Answers(key, accepted)
  PROVE  /\ answer.string \in Intact \cup {None}
         /\ answer.owner \in {answer.string, None}
         /\ answer.owner # None => answer.owner \in Intact \cap accepted
         /\ answer.string = None => Strings(key) \cap before = {}
         /\ answer.string # None /\ answer.string \in accepted
              => answer.owner = answer.string
         /\ answer.string # None => answer.string \in Strings(key)
         /\ Strings(key) \subseteq Intact
<1>1. Strings(key) \subseteq Intact
  BY DEF Strings, Known
<1>2. None \notin Intact
  BY DEF Intact, Load, None
<1> HIDE DEF None
<1>3. \/ \E i \in Strings(key) :
           answer = [string |-> i, owner |-> IF i \in accepted THEN i ELSE None]
      \/ /\ Strings(key) \cap before = {}
         /\ answer = [string |-> None, owner |-> None]
  BY DEF Answers
<1> QED
  BY <1>1, <1>2, <1>3

LEMMA IntactType ==
  /\ Intact \subseteq Load /\ Managers \subseteq Intact /\ Games \subseteq Intact
  /\ None \notin Load
BY DEF Intact, Managers, Games, Load, None

LEMMA SearchType ==
  ASSUME TypeOK, Search
  PROVE  TypeOK'
<1>1. PICK list \in Lists : Skip(list) \/ Idle(list) \/ SweepStarts(list)
  BY DEF Search
<1>2. list \in [Region -> 0..MAX_SIZE]
  BY ListType
<1>3. CASE Skip(list)
  <2>1. sweeps' \in 0..(FULL_SWEEP - 1)
    BY <1>3, NextModulo, SearchAssumption DEF Skip, TypeOK
  <2>2. missed' \in Nat /\ manager' \in Load \cup {None}
    BY <1>3, MissType, KeptType DEF Skip
  <2> QED
    BY <1>2, <1>3, <2>1, <2>2 DEF Skip, TypeOK, memory, loop
<1>4. CASE Idle(list)
  <2>1. sweeps' \in 0..(FULL_SWEEP - 1) /\ regions' = size
    BY <1>4, SearchAssumption DEF Idle, GoesOn, TypeOK
  <2>2. manager_idle' \in 0..(MANAGER_IDLE_LIMIT - 1)
    BY <1>4, SearchAssumption DEF Idle, TooSilent, TypeOK
  <2>3. manager' \in Load \cup {None} /\ missed' = 0
    BY <1>4 DEF Idle, TypeOK
  <2> QED
    BY <1>4, <2>1, <2>2, <2>3 DEF Idle, TypeOK, memory, loop
<1>5. CASE SweepStarts(list)
  <2>1. /\ sweeps' \in 0..(FULL_SWEEP - 1) /\ regions' = size
        /\ sweep' \subseteq Region
    BY <1>5, SearchAssumption DEF SweepStarts, GoesOn, TypeOK, Fresh, Mapped
  <2>2. before' \subseteq Load /\ manager' = None
    BY <1>5, IntactType DEF SweepStarts
  <2> QED
    BY <1>5, <2>1, <2>2 DEF SweepStarts, TypeOK, memory
<1> QED
  BY <1>1, <1>3, <1>4, <1>5

LEMMA SweepEndsType ==
  ASSUME TypeOK, SweepEnds
  PROVE  TypeOK'
<1>1. /\ UNCHANGED <<live, mode, home, size, regions, sweeps>>
      /\ sweep' = {} /\ before' = {}
  BY DEF SweepEnds, memory
<1>2. {"fVersion", "world"} = Key
  BY DEF Key
<1>3. SUFFICES /\ cache' \in [Key -> Load \cup {None}]
               /\ manager' \in Load \cup {None}
               /\ held' \in Load \cup {None} /\ declared' \in Load \cup {None}
               /\ manager_proven' \in BOOLEAN
               /\ manager_idle' \in 0..(MANAGER_IDLE_LIMIT - 1)
               /\ missed' \in Nat
  BY <1>1 DEF TypeOK
<1>4. 0 \in 0..(MANAGER_IDLE_LIMIT - 1)
  BY SearchAssumption
<1>5. ASSUME NEW key \in Key, NEW accepted, NEW answer \in Answers(key, accepted)
      PROVE  /\ answer.string \in Load \cup {None}
             /\ answer.owner \in Load \cup {None}
             /\ Remember(key, answer) \in [Key -> Load \cup {None}]
  <2>1. answer.string \in Load \cup {None} /\ answer.owner \in Load \cup {None}
    BY <1>5, AnswersType, IntactType
  <2> QED
    BY <2>1 DEF Remember, TypeOK
<1>6. CASE EndsOnManager
  <2>1. PICK answer \in Answers("fVersion", Managers) :
          /\ answer.owner # None
          /\ cache' = Remember("fVersion", answer)
          /\ manager' = answer.owner
          /\ IF answer.owner \in Games
             THEN /\ Hold(answer.owner)
                  /\ manager_proven' = TRUE
                  /\ manager_idle' = 0
                  /\ missed' = 0
             ELSE UNCHANGED <<held, declared, manager_proven, manager_idle, missed>>
    BY <1>6 DEF EndsOnManager
  <2>2. answer.owner \in Load /\ cache' \in [Key -> Load \cup {None}]
    BY <1>2, <1>5, <2>1
  <2>3. CASE answer.owner \in Games
    BY <1>4, <2>1, <2>2, <2>3, HoldType
  <2>4. CASE answer.owner \notin Games
    BY <2>1, <2>2, <2>4 DEF TypeOK
  <2> QED
    BY <2>3, <2>4
<1>7. CASE EndsUnborn
  <2>1. PICK answer \in Answers("fVersion", Managers) :
          cache' = Remember("fVersion", answer)
    BY <1>7 DEF EndsUnborn
  <2>2. cache' \in [Key -> Load \cup {None}]
    BY <1>2, <1>5, <2>1
  <2> QED
    BY <1>7, <2>2, MissType DEF EndsUnborn, TypeOK
<1>8. CASE EndsOnWorld
  <2>1. PICK answer \in Answers("fVersion", Managers),
             world \in Answers("world", Games) :
          /\ cache' = IF Caches
                      THEN [fVersion |-> answer.string, world |-> world.string]
                      ELSE cache
          /\ IF world.owner = None
             THEN Miss /\ UNCHANGED <<held, declared, manager>>
             ELSE Hold(world.owner) /\ manager' = world.owner /\ missed' = 0
          /\ UNCHANGED <<manager_proven, manager_idle>>
    BY <1>8 DEF EndsOnWorld
  <2>2. /\ answer.string \in Load \cup {None} /\ world.string \in Load \cup {None}
        /\ world.owner \in Load \cup {None}
    BY <1>2, <1>5
  <2>3. [fVersion |-> answer.string, world |-> world.string]
          \in [Key -> Load \cup {None}]
    BY <1>2, <2>2
  <2>4. cache' \in [Key -> Load \cup {None}]
    BY <2>1, <2>3 DEF TypeOK
  <2>5. CASE world.owner = None
    BY <2>1, <2>4, <2>5, MissType DEF TypeOK
  <2>6. CASE world.owner # None
    BY <2>1, <2>2, <2>4, <2>6, HoldType DEF TypeOK
  <2> QED
    BY <2>5, <2>6
<1> QED
  BY <1>6, <1>7, <1>8 DEF SweepEnds

LEMMA SearchNextType == TypeOK /\ [Next]_vars => TypeOK'
<1> SUFFICES ASSUME TypeOK, [Next]_vars PROVE TypeOK'
  OBVIOUS
<1>1. CASE UNCHANGED vars
  BY <1>1 DEF vars, memory, anchor, loop, TypeOK
<1>2. CASE FastPath
  <2>1. manager \in Load /\ 0 \in 0..(MANAGER_IDLE_LIMIT - 1)
    BY <1>2, SearchAssumption DEF FastPath, LeadsToAGame, TypeOK
  <2>2. held' \in Load \cup {None} /\ declared' \in Load \cup {None}
    BY <1>2, <2>1, HoldType DEF FastPath
  <2> QED
    BY <1>2, <2>1, <2>2 DEF FastPath, memory, TypeOK
<1>3. CASE Wait
  BY <1>3, KeptType DEF Wait, memory, loop, TypeOK
<1>4. CASE Dropped
  BY <1>4 DEF Dropped, memory, anchor, TypeOK
<1> QED
  BY <1>1, <1>2, <1>3, <1>4, PlayerType, SearchType, SweepEndsType DEF Next

\* The counters of the anchor stay below their limits.
THEOREM SearchTypeCorrect == Spec => []TypeOK
BY SearchInitType, SearchNextType, PTL DEF Spec

-----------------------------------------------------------------------------
(* Where the load that runs is *)

LEMMA PlayerSettles ==
  ASSUME TypeOK, Settled, Player
  PROVE  Settled'
<1>1. UNCHANGED <<manager, sweep>>
  BY PlayerType DEF anchor, loop
<1> SUFFICES ASSUME live' # None
             PROVE  live' \in Intact' /\ home'[live'] \in Mapped'
  BY <1>1 DEF Settled
<1> USE DEF TypeOK, Intact, Mapped
<1>2. CASE Transition
  BY <1>2 DEF Transition, Settled
<1>3. CASE Leave
  BY <1>3 DEF Leave
<1>4. ASSUME NEW i \in Load, Born(i)
      PROVE  live' \in Intact' /\ home'[live'] \in Mapped'
  <2>1. PICK r \in Region :
          /\ home' = [home EXCEPT ![i] = r]
          /\ size' \in {[size EXCEPT ![r] = n] : n \in (size[r]..MAX_SIZE) \ {0}}
    BY <1>4 DEF Born
  <2>2. PICK n \in (size[r]..MAX_SIZE) \ {0} : size' = [size EXCEPT ![r] = n]
    BY <2>1
  <2>3. n > 0
    BY <2>2, SearchAssumption
  <2>4. live' = i /\ mode'[i] = "null" /\ home'[i] = r /\ size'[r] > 0
    BY <1>4, <2>1, <2>2, <2>3 DEF Born
  <2> QED
    BY <2>4
<1>5. ASSUME NEW i \in Load, Recycle(i) \/ Unmap(i)
      PROVE  live' \in Intact' /\ home'[live'] \in Mapped'
  BY <1>5 DEF Recycle, Unmap, Settled
<1>6. ASSUME NEW r \in Region, Resize(r)
      PROVE  live' \in Intact' /\ home'[live'] \in Mapped'
  <2>1. PICK n \in 1..MAX_SIZE : size' = [size EXCEPT ![r] = n]
    BY <1>6 DEF Resize
  <2>2. n > 0
    BY SearchAssumption
  <2>3. UNCHANGED <<live, mode, home>>
    BY <1>6 DEF Resize
  <2>4. \A s \in Region : size[s] > 0 => size'[s] > 0
    BY <2>1, <2>2
  <2> QED
    BY <2>3, <2>4 DEF Settled
<1> QED
  BY <1>2, <1>3, <1>4, <1>5, <1>6 DEF Player

\* The loop leaves the memory alone, and starts a sweep without an anchor.
LEMMA LoopSettles ==
  ASSUME TypeOK, Settled,
         UNCHANGED vars \/ FastPath \/ Wait \/ Search \/ SweepEnds \/ Dropped
  PROVE  Settled' /\ UNCHANGED <<live, mode, home, size>>
<1>1. UNCHANGED <<live, mode, home, size>>
  BY DEF vars, memory, FastPath, Wait, Search, Skip, Idle, SweepStarts,
         SweepEnds, Dropped
<1>2. (sweep # {} => manager = None)'
  BY DEF vars, anchor, loop, FastPath, Wait, Search, Skip, Idle, SweepStarts,
         SweepEnds, Dropped, Attempt, GoesOn, Settled
<1> QED
  BY <1>1, <1>2 DEF Settled, Intact, Mapped

-----------------------------------------------------------------------------
(* The attempts that miss the game *)

\* The game is alone in a memory that does not change.
Alone == live # None /\ mode[live] = "game" /\ Intact = {live}

LEMMA MissFacts ==
  ASSUME TypeOK, Miss
  PROVE  \/ missed' = 0
         \/ Alone /\ Kept = None /\ missed' = missed + 1
BY DEF Miss, Alone

\* A sweep that goes over the region of the game finds it.
LEMMA SweepFinds ==
  ASSUME TypeOK, Settled, Alone, before = {live}, home[live] \in sweep,
         NEW answer \in Answers("fVersion", Managers)
  PROVE  answer.owner = live /\ live \in Games
<1>1. live \in Intact /\ live \in Managers /\ live \in Games
  BY DEF Alone, Managers, Games
<1>2. live \in Strings("fVersion")
  <2>1. CASE Known("fVersion")
    BY <2>1 DEF Known, Strings, Alone
  <2>2. CASE ~ Known("fVersion")
    BY <1>1, <2>2 DEF Strings
  <2> QED
    BY <2>1, <2>2
<1>3. "fVersion" \in Key
  BY DEF Key
<1>4. answer.string # None
  BY <1>2, <1>3, AnswersType
<1>5. answer.string = live
  BY <1>3, <1>4, AnswersType DEF Alone
<1> QED
  BY <1>1, <1>3, <1>4, <1>5, AnswersType

\* The attempts that were skipped, and those that start a sweep.
LEMMA SearchCounts ==
  ASSUME SearchInv, Search
  PROVE  Counted'
<1>1. PICK list \in Lists : Skip(list) \/ Idle(list) \/ SweepStarts(list)
  BY DEF Search
<1>2. /\ UNCHANGED <<live, mode, home, size>> /\ TypeOK /\ sweep = {}
      /\ Mapped # {} /\ FULL_SWEEP \in Nat \ {0}
      /\ sweeps \in 0..(FULL_SWEEP - 1) /\ missed \in Nat
  BY <1>1, LoopSettles, SearchAssumption
     DEF SearchInv, TypeOK, Skip, Idle, SweepStarts, GoesOn, Attempt
<1>3. Intact' = Intact /\ Mapped' = Mapped
  BY <1>2 DEF Intact, Mapped
<1>4. list = regions \/ Fresh(list) = Mapped
  <2>1. CASE list = [r \in Region |-> 0]
    <3>1. \A r \in Mapped : r \in Region /\ size[r] # list[r]
      BY <1>2, <2>1 DEF Mapped, TypeOK
    <3> QED
      BY <3>1 DEF Fresh
  <2> QED
    BY <2>1 DEF Lists
<1>5. CASE Skip(list)
  <2>1. /\ Fresh(list) = {} /\ regions' = list /\ sweep' = {}
        /\ sweeps' = sweeps + 1 /\ sweeps' \in 0..(FULL_SWEEP - 1)
        /\ manager' = Kept /\ Miss
    BY <1>2, <1>5, NextModulo DEF Skip, Due, loop
  <2>2. Fresh(regions)' = {} /\ list = regions
    BY <1>2, <1>3, <1>4, <2>1 DEF Fresh
  <2>3. SUFFICES ASSUME missed' > 0
                 PROVE  /\ Alone' /\ manager' = None
                        /\ missed' <= 2 + sweeps' /\ missed' <= FULL_SWEEP + 1
    BY <2>1, <2>2 DEF Counted, Alone
  <2>4. Alone /\ Kept = None /\ missed' = missed + 1
    BY <1>2, <2>1, <2>3, MissFacts
  <2>5. missed <= 2 + sweeps
    BY <1>2, <2>1, <2>2 DEF SearchInv, Counted
  <2> QED
    BY <1>2, <1>3, <2>1, <2>4, <2>5 DEF Alone
<1>6. CASE Idle(list)
  BY <1>6 DEF Idle, Counted
<1>7. CASE SweepStarts(list)
  <2>1. /\ manager' = None /\ before' = Intact /\ regions' = size
        /\ missed' = missed
        /\ sweep' = IF Fresh(list) = {} THEN Mapped ELSE Fresh(list)
    BY <1>7 DEF SweepStarts, GoesOn
  <2>2. sweep' # {}
    BY <1>2, <2>1
  <2>3. ASSUME missed > 0
        PROVE  Alone /\ missed <= FULL_SWEEP + 1
               /\ (Fresh(regions) # {} => missed <= 1)
    BY <1>2, <2>3 DEF SearchInv, Counted, Alone
  <2>4. sweep' = Mapped \/ Fresh(regions) # {}
    BY <1>4, <2>1
  <2> QED
    BY <1>2, <1>3, <2>1, <2>2, <2>3, <2>4 DEF Counted, Alone
<1> QED
  BY <1>1, <1>5, <1>6, <1>7

\* The end of a sweep.
LEMMA SweepCounts ==
  ASSUME SearchInv, SweepEnds
  PROVE  Counted'
<1>1. /\ UNCHANGED <<live, mode, home, size, regions, sweeps>>
      /\ sweep # {} /\ sweep' = {} /\ TypeOK /\ Settled /\ manager = None
      /\ FULL_SWEEP \in Nat \ {0} /\ sweeps \in 0..(FULL_SWEEP - 1)
      /\ missed \in Nat
  BY SearchAssumption DEF SweepEnds, memory, SearchInv, Settled, TypeOK
<1>2. Intact' = Intact /\ Fresh(regions)' = Fresh(regions)
  BY <1>1 DEF Intact, Mapped, Fresh
\* Either the attempt missed, or it found the game, or it found a manager
\* that leads to none.
<1>3. \/ missed' = 0
      \/ Miss /\ manager' = manager
      \/ \E answer \in Answers("fVersion", Managers) :
           /\ answer.owner # None /\ answer.owner \notin Games
           /\ missed' = missed
  BY DEF SweepEnds, EndsOnManager, EndsUnborn, EndsOnWorld
<1>4. SUFFICES ASSUME missed' > 0 PROVE Counted'
  BY DEF Counted
<1>5. CASE Miss /\ manager' = manager
  <2>1. Alone /\ missed' = missed + 1
    BY <1>1, <1>4, <1>5, MissFacts
  <2>2. CASE missed = 0
    BY <1>1, <1>2, <1>5, <2>1, <2>2 DEF Counted, Alone
  <2>3. CASE missed > 0
    <3>1. before = {live} /\ regions = size
      BY <1>1, <2>3 DEF SearchInv, Counted
    <3>2. Fresh(regions) = {}
      BY <3>1 DEF Fresh
    <3>3. sweep # Mapped
      <4>1. SUFFICES ASSUME sweep = Mapped PROVE FALSE
        OBVIOUS
      <4>2. home[live] \in sweep
        BY <1>1, <2>1, <4>1 DEF Settled, Alone
      <4>3. \A answer \in Answers("fVersion", Managers) :
              answer.owner = live /\ live \in Games
        BY <1>1, <2>1, <3>1, <4>2, SweepFinds
      <4>4. \A answer \in Answers("fVersion", Managers) :
              answer.owner # None /\ answer.string # None
        <5>1. "fVersion" \in Key
          BY DEF Key
        <5> QED
          BY <1>1, <2>1, <4>3, <5>1, AnswersType DEF Alone
      <4>5. EndsOnManager
        BY <4>4 DEF SweepEnds, EndsUnborn, EndsOnWorld
      <4>6. missed' = 0
        BY <4>3, <4>5 DEF EndsOnManager
      <4> QED
        BY <1>4, <4>6
    <3>4. missed <= 1
      BY <1>1, <2>3, <3>3 DEF SearchInv, Counted
    <3> QED
      BY <1>1, <1>2, <1>5, <2>1, <3>2, <3>4 DEF Counted, Alone
  <2> QED
    BY <1>1, <2>2, <2>3
\* Alone, the game is the only owner there is.
<1>6. ASSUME NEW answer \in Answers("fVersion", Managers),
             answer.owner # None, answer.owner \notin Games,
             missed' = missed
      PROVE  FALSE
  <2>1. Alone
    BY <1>1, <1>4, <1>6 DEF SearchInv, Counted, Alone
  <2>2. answer.owner \in Intact
    <3>1. "fVersion" \in Key
      BY DEF Key
    <3> QED
      BY <1>1, <1>6, <3>1, AnswersType
  <2> QED
    BY <1>6, <2>1, <2>2 DEF Alone, Games
<1> QED
  BY <1>3, <1>4, <1>5, <1>6

LEMMA SearchStep == SearchInv /\ [Next]_vars => SearchInv'
<1> SUFFICES ASSUME SearchInv, [Next]_vars PROVE SearchInv'
  OBVIOUS
<1>1. TypeOK' /\ TypeOK /\ Settled
  BY SearchNextType DEF SearchInv
<1>2. Settled'
  BY <1>1, PlayerSettles, LoopSettles DEF Next
<1> SUFFICES Counted'
  BY <1>1, <1>2 DEF SearchInv
<1>3. CASE Player \/ FastPath \/ Dropped
  BY <1>1, <1>3, PlayerType DEF FastPath, Dropped, Counted
<1>4. CASE Wait \/ UNCHANGED vars
  <2>1. /\ UNCHANGED <<live, mode, home, size, regions, sweeps, sweep, before>>
        /\ missed' = missed
    BY <1>4 DEF Wait, vars, memory, anchor, loop
  <2>2. manager = None => manager' = None
    BY <1>1, <1>4, KeptType DEF Wait, vars, anchor
  <2> QED
    BY <2>1, <2>2 DEF SearchInv, Counted, Intact, Mapped, Fresh
<1> QED
  BY <1>3, <1>4, SearchCounts, SweepCounts DEF Next

\* In memory that no longer changes, and where no dead game is readable, a
\* running game is missed by at most one attempt more than the attempts that
\* bring the whole sweep, for any number of regions and of loads, whatever
\* the player keeps, proves or reuses.
THEOREM TheGameIsFoundWithinAFullSweep == Spec => []FoundWithinAFullSweep
<1>1. Init => SearchInv
  <2>1. Init => Settled /\ Counted
    BY DEF Init, Settled, Counted
  <2> QED
    BY <2>1, SearchInitType DEF SearchInv
<1>2. SearchInv => FoundWithinAFullSweep
  BY SearchAssumption DEF SearchInv, Counted, FoundWithinAFullSweep, TypeOK
<1> QED
  BY <1>1, <1>2, SearchStep, PTL DEF Spec

=============================================================================
