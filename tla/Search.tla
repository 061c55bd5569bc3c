------------------------------- MODULE Search -------------------------------
(***************************************************************************)
(* How the game is found in the memory of one player process: the anchor,  *)
(* and the search that learns it (src/reader/hammerfest.rs), with the      *)
(* strings a player keeps from one search to the next                      *)
(* (src/reader/pepper_flash.rs, src/reader/ruffle.rs).                     *)
(*                                                                         *)
(* Every launch loads the SWF again: a load has its own key strings, its   *)
(* own GameManager and its own modes, born together in one region.  What a *)
(* dead load leaves stays readable until its memory is used again, and     *)
(* nothing in its bytes says that it is dead.  A load stands for all its   *)
(* addresses.                                                              *)
(*                                                                         *)
(* A sweep gives ticks back: the SWF goes on while it reads.               *)
(***************************************************************************)
EXTENDS Integers

CONSTANTS
  MANAGER_IDLE_LIMIT,  \* failed attempts before an unproven anchor is dropped
  FULL_SWEEP,          \* skipped attempts before the whole heap is read again
  Region,              \* the memory regions of the player
  MAX_SIZE,            \* bound: the largest size of a region
  MAX_LOADS,           \* bound: loads of the SWF in one process
  Caches,              \* are key strings kept? Pepper Flash does, Ruffle not
  Proven,              \* does a string not found prove the key absent?
  ReusesMemory,        \* are objects born in memory already committed? (Firefox)
  Unmaps               \* may the memory of a dead load become unreadable?

ASSUME SearchAssumption ==
  /\ MANAGER_IDLE_LIMIT \in Nat \ {0} /\ FULL_SWEEP \in Nat \ {0}
  /\ Region # {} /\ MAX_SIZE \in Nat \ {0} /\ MAX_LOADS \in Nat
  /\ {Caches, Proven, ReusesMemory, Unmaps} \subseteq BOOLEAN

Load == 1..MAX_LOADS
None == 0
Key == {"fVersion", "world"}

VARIABLES
  \* The memory of the player:
  live,             \* the load that runs, or None
  mode,             \* what current of each load is, or what became of it
  home,             \* the region of each load
  size,             \* the committed size of each region
  \* The anchor:
  manager,          \* the load whose GameManager is known, or None
  manager_proven,   \* did the anchor ever deliver a game?
  manager_idle,     \* failed attempts since it was set
  regions,          \* the sizes seen at the last search
  sweeps,           \* searches skipped, modulo FULL_SWEEP
  cache,            \* the load whose string of each key is kept, or None
  \* The loop:
  held,             \* the load whose GameMode is held, or None
  declared,         \* the load the policy declared dead last, or None
  sweep,            \* the regions being swept, or {}
  before,           \* the loads already there when the sweep started
  missed            \* for the properties: attempts that missed the live game

memory == <<live, mode, home, size>>
anchor == <<manager, manager_proven, manager_idle, regions, sweeps, cache>>
loop == <<held, declared, sweep, before>>
vars == <<memory, anchor, loop, missed>>

Intact == {i \in Load : mode[i] \in {"null", "menu", "game"}}
Mapped == {r \in Region : size[r] > 0}

Init ==
  /\ live = None
  /\ mode = [i \in Load |-> "unborn"]
  /\ home = [i \in Load |-> CHOOSE r \in Region : TRUE]
  /\ size \in [Region -> 0..1]
  /\ manager = None /\ manager_proven = FALSE /\ manager_idle = 0
  /\ regions = [r \in Region |-> 0]
  /\ sweeps = 0
  /\ cache = [k \in Key |-> None]
  /\ held = None /\ declared = None
  /\ sweep = {} /\ before = {}
  /\ missed = 0

-----------------------------------------------------------------------------
(* The player: external *)

\* The SWF is loaded: its objects are born in one burst, in a region that
\* grows for them, or in memory already committed.
Born(i) ==
  /\ live = None /\ mode[i] = "unborn"
  /\ \A j \in Load : j < i => mode[j] # "unborn"
  /\ live' = i
  /\ mode' = [mode EXCEPT ![i] = "null"]
  /\ \E r \in Region :
       /\ home' = [home EXCEPT ![i] = r]
       /\ size' \in {[size EXCEPT ![r] = n] : n \in (size[r]..MAX_SIZE) \ {0}}

\* GameManager.transition: a loading screen or a menu, a game, its end.
Transition ==
  /\ live # None
  /\ mode' = [mode EXCEPT ![live] = IF @ = "menu" THEN "game" ELSE "menu"]
  /\ UNCHANGED <<live, home, size>>

\* The game is left, and the SWF with it.
Leave ==
  /\ live # None
  /\ live' = None
  /\ UNCHANGED <<mode, home, size>>

\* A region grows, or shrinks, for reasons of its own.
Resize(r) ==
  /\ size[r] > 0
  /\ \E n \in 1..MAX_SIZE : n # size[r] /\ size' = [size EXCEPT ![r] = n]
  /\ UNCHANGED <<live, mode, home>>

\* The memory of a dead load is used for something else.
Recycle(i) ==
  /\ i # live /\ i \in Intact
  /\ mode' = [mode EXCEPT ![i] = "junk"]
  /\ UNCHANGED <<live, home, size>>

\* The memory of a dead load goes back to the system: no read succeeds.
Unmap(i) ==
  /\ Unmaps
  /\ i # live /\ i \in Intact
  /\ mode' = [mode EXCEPT ![i] = "unmapped"]
  /\ UNCHANGED <<live, home, size>>

Player ==
  /\ \/ Transition \/ Leave
     \/ \E i \in Load : Born(i) \/ Recycle(i) \/ Unmap(i)
     \/ \E r \in Region : Resize(r)
  /\ missed' = 0
  /\ UNCHANGED <<anchor, loop>>

-----------------------------------------------------------------------------
(* The fast path: resolve_via_manager *)

\* Mutant: an object that is no longer one is kept.
KeptWhatever == manager

\* The anchor is kept unless its address is read and is no GameManager.
Kept == IF manager # None /\ mode[manager] = "junk" THEN None ELSE manager

LeadsToAGame == manager # None /\ mode[manager] = "game"

\* A game is held until the policy drops it, and the policy drops at once a
\* game whose heartbeat is still the one it declared dead.
Hold(i) ==
  IF i = declared THEN UNCHANGED <<held, declared>>
  ELSE held' = i /\ declared' = None

FastPath ==
  /\ held = None /\ sweep = {}
  /\ LeadsToAGame
  /\ Hold(manager)
  /\ manager_proven' = TRUE
  /\ manager_idle' = 0
  /\ missed' = 0
  /\ UNCHANGED <<memory, manager, regions, sweeps, cache, sweep, before>>

\* No game by the fast path, and the pacing allows no search.
Wait ==
  /\ held = None /\ sweep = {}
  /\ ~ LeadsToAGame
  /\ manager' = Kept
  /\ UNCHANGED <<memory, manager_proven, manager_idle, regions, sweeps, cache,
                 loop, missed>>

-----------------------------------------------------------------------------
(* The search: resolve *)

\* An attempt that does not find a game that is there to be found: alone,
\* and with no GameManager known.
Miss ==
  missed' = IF live # None /\ mode[live] = "game" /\ Kept = None
               /\ Intact = {live}
            THEN missed + 1 ELSE 0

\* Mutant: the skipped attempts never call for a whole sweep.
NeverDue == FALSE

\* Every FULL_SWEEP skipped attempts, the whole heap is read all the same.
Due == (sweeps + 1) % FULL_SWEEP = 0

\* The regions that are not in the list of the last search.
Fresh(list) == {r \in Mapped : size[r] # list[r]}

Attempt == held = None /\ sweep = {} /\ ~ LeadsToAGame /\ Mapped # {}

\* Nothing changed: nothing can have been born, so the search is skipped.
Skip(list) ==
  /\ Attempt
  /\ Fresh(list) = {} /\ ~ Due
  /\ sweeps' = (sweeps + 1) % FULL_SWEEP
  /\ regions' = list
  /\ manager' = Kept
  /\ Miss
  /\ UNCHANGED <<memory, manager_proven, manager_idle, cache, loop>>

\* The search goes on with these regions, and remembers what it saw.
GoesOn(list, swept) ==
  /\ Attempt
  /\ Fresh(list) = {} => Due
  /\ swept = IF Fresh(list) = {} THEN Mapped ELSE Fresh(list)
  /\ sweeps' = IF Fresh(list) = {} THEN 0 ELSE sweeps
  /\ regions' = size

\* Mutant: an anchor that stays silent is kept.
NeverSilent == FALSE

\* Silent for long and never proven: the anchor may be the problem itself.
TooSilent == ~ manager_proven /\ manager_idle + 1 >= MANAGER_IDLE_LIMIT

\* The anchor is known and leads to no game: there is none, and nothing is
\* swept, though the regions are remembered.
Idle(list) ==
  /\ \E swept \in SUBSET Region : GoesOn(list, swept)
  /\ Kept # None
  /\ manager' = IF TooSilent THEN None ELSE manager
  /\ manager_idle' =
       IF TooSilent THEN 0
       ELSE IF manager_proven THEN manager_idle ELSE manager_idle + 1
  /\ missed' = 0
  /\ UNCHANGED <<memory, manager_proven, cache, loop>>

\* No anchor: a sweep starts.
SweepStarts(list) ==
  /\ GoesOn(list, sweep')
  /\ Kept = None
  /\ manager' = None
  /\ before' = Intact
  /\ UNCHANGED <<memory, manager_proven, manager_idle, cache, held, declared,
                 missed>>

\* During a loading window, a player whose objects are born in memory already
\* committed is swept whole: the list of regions is emptied first.
Lists == {regions} \cup IF ReusesMemory THEN {[r \in Region |-> 0]} ELSE {}

Search == \E list \in Lists : Skip(list) \/ Idle(list) \/ SweepStarts(list)

\* A string that was kept is checked by decoding it.
Known(key) == Caches /\ cache[key] # None /\ cache[key] \in Intact

\* The loads whose string of the key a sweep meets.
Strings(key) ==
  IF Known(key) THEN {cache[key]} ELSE {i \in Intact : home[i] \in sweep}

\* What a sweep for the owner of a key may answer: the string it settles on,
\* and the owner, of a load that is accepted.  Pepper Flash settles on one
\* string; Ruffle looks at every entry.  What was born after the sweep
\* started may be missed.
Answers(key, accepted) ==
  LET met == Strings(key)
      owner(i) == IF i \in accepted THEN i ELSE None
  IN  {[string |-> i, owner |-> owner(i)] :
         i \in IF Caches \/ met \cap accepted = {} THEN met
               ELSE met \cap accepted}
      \cup IF met \cap before = {} THEN {[string |-> None, owner |-> None]}
           ELSE {}

\* A GameManager is proven by a mode that points back at it.
Managers == {i \in Intact : mode[i] # "null"}
Games == {i \in Intact : mode[i] = "game"}

Remember(key, answer) ==
  IF Caches THEN [cache EXCEPT ![key] = answer.string] ELSE cache

\* The sweep ends on a GameManager, and on its game if there is one.
EndsOnManager ==
  \E answer \in Answers("fVersion", Managers) :
    /\ answer.owner # None
    /\ cache' = Remember("fVersion", answer)
    /\ manager' = answer.owner
    /\ IF answer.owner \in Games
       THEN /\ Hold(answer.owner)
            /\ manager_proven' = TRUE
            /\ manager_idle' = 0
            /\ missed' = 0
       ELSE UNCHANGED <<held, declared, manager_proven, manager_idle, missed>>

\* No string of the GameManager: it is not born, and no game either.
EndsUnborn ==
  \E answer \in Answers("fVersion", Managers) :
    /\ answer.string = None /\ Proven
    /\ cache' = Remember("fVersion", answer)
    /\ Miss
    /\ UNCHANGED <<held, declared, manager, manager_proven, manager_idle>>

\* The last resort: a GameMode, found by its world.
EndsOnWorld ==
  \E answer \in Answers("fVersion", Managers),
     world \in Answers("world", Games) :
    /\ answer.owner = None
    /\ answer.string = None => ~ Proven
    /\ cache' = IF Caches
                THEN [fVersion |-> answer.string, world |-> world.string]
                ELSE cache
    /\ IF world.owner = None
       THEN Miss /\ UNCHANGED <<held, declared, manager>>
       ELSE Hold(world.owner) /\ manager' = world.owner /\ missed' = 0
    /\ UNCHANGED <<manager_proven, manager_idle>>

SweepEnds ==
  /\ sweep # {}
  /\ EndsOnManager \/ EndsUnborn \/ EndsOnWorld
  /\ sweep' = {} /\ before' = {}
  /\ UNCHANGED <<memory, regions, sweeps>>

-----------------------------------------------------------------------------
(* The game held *)

\* A read that fails, a game over, or a game the policy declares dead: its
\* frameTimer does not move.
Dropped ==
  /\ held # None
  /\ held' = None
  /\ declared' = IF held # live /\ mode[held] = "game" THEN held ELSE declared
  /\ missed' = 0
  /\ UNCHANGED <<memory, anchor, sweep, before>>

\* What no loop can keep holding.
DeadHeld == held # None /\ (held # live \/ mode[held] # "game")

Next == Player \/ FastPath \/ Wait \/ Search \/ SweepEnds \/ Dropped

Spec == Init /\ [][Next]_vars

\* The loop turns, a sweep ends, the policy drops what is dead, and the
\* pacing allows a search again and again while no game is held.
LoopFairness ==
  /\ WF_vars(FastPath)
  /\ WF_vars(SweepEnds)
  /\ WF_vars(DeadHeld /\ Dropped)
  /\ SF_vars(Search)

LoopSpec == Spec /\ LoopFairness

\* The memory of a dead load is used again.
FairSpec == LoopSpec /\ \A i \in Load : WF_vars(Recycle(i) /\ Player)

=============================================================================
