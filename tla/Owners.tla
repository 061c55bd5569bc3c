------------------------------- MODULE Owners -------------------------------
(***************************************************************************)
(* FlashPlayer::objects_owning of src/reader/heap.rs: what a player knows  *)
(* of its build, how it comes to know it, and how it finds the object that *)
(* owns a key, from one process to the next (src/reader/pepper_flash.rs,   *)
(* src/reader/ruffle.rs).                                                  *)
(*                                                                         *)
(* A build is told by where its vtable is from the start of its module,    *)
(* and the module is elsewhere in each process.  A process loads the SWF   *)
(* once (see Search for the others), and the strings of the keys are born  *)
(* together.  A sweep gives ticks back: the player goes on while it reads, *)
(* and may close.                                                          *)
(***************************************************************************)
EXTENDS Integers

CONSTANTS
  None,          \* nothing: not known, not born
  Build,         \* the builds of the player
  Offset,        \* where the vtable of each is, from the start of its module
  Base,          \* where a module may start
  MAX_PROCESSES  \* bound: processes attached

ASSUME OwnersAssumption ==
  /\ Offset \in [Build -> Nat] /\ Base \subseteq Nat
  /\ \A b, c \in Build : Offset[b] = Offset[c] => b = c
  /\ MAX_PROCESSES \in Nat

Region == {"first", "rest"}
Key == {"fVersion", "world"}

ASSUME NoneAssumption == None \notin Int \cup Build \cup Region

VARIABLES
  player,    \* "pepper", "ruffle", or "web": Ruffle in a browser
  seed,      \* the build that the player may be (Binary.seed), or None
  \* The memory of the process:
  process,   \* how many were attached
  build,     \* the build that runs
  base,      \* where its module starts
  filled,    \* are its vtables filled in?
  crowded,   \* do eight copies of a key come before its string?
  home,      \* the region of the strings, or None
  owners,    \* the keys whose owner can be proven now
  \* What the player knows:
  module,    \* where the module was when the process was attached
  known,     \* the vtable a game proved, or that a build names: from the
             \* module for Pepper Flash, an address for Ruffle
  cached,    \* the keys whose string is remembered
  not_born,  \* manager_is_not_born
  \* The search:
  stage,     \* the sweep under way, "rest", or "next": the key of the mode
  key,       \* the key it is for
  ranges,    \* the regions where a string is looked for
  there,     \* was what it looks for there when the sweep began?
  found      \* is a GameManager or a game known?

memory == <<player, seed, process, build, base, filled, crowded, home, owners>>
knowledge == <<module, known, cached, not_born>>
search == <<stage, key, ranges, there, found>>
vars == <<memory, knowledge, search>>

Init ==
  /\ player \in {"pepper", "ruffle", "web"}
  /\ seed \in IF player = "pepper" THEN Build \cup {None} ELSE {None}
  /\ process = 0
  /\ build \in Build /\ base \in Base
  /\ filled = FALSE /\ crowded = FALSE /\ home = None /\ owners = {}
  /\ module = 0 /\ known = None /\ cached = {} /\ not_born = FALSE
  /\ stage = "rest" /\ key = "fVersion" /\ ranges = {}
  /\ there = FALSE /\ found = FALSE

\* The vtable in this process.
Vtable == base + Offset[build]

-----------------------------------------------------------------------------
(* A process *)

\* Mutant: Ruffle keeps the vtable of the process before.
KeptByAttach == IF player = "web" THEN Vtable' ELSE known

\* Pepper Flash keeps what it knows of the binary, and Ruffle nothing; in a
\* browser the build that was recognised names the vtable.
KnownAtAttach ==
  CASE player = "pepper" -> known
    [] player = "ruffle" -> None
    [] player = "web" -> Vtable'

\* At any moment the process closes, and another is attached.
Attach ==
  /\ process < MAX_PROCESSES
  /\ process' = process + 1
  /\ build' \in Build /\ base' \in Base
  /\ filled' \in BOOLEAN /\ crowded' \in BOOLEAN
  /\ home' = None /\ owners' = {}
  /\ module' = base' /\ known' = KnownAtAttach
  /\ cached' = {} /\ not_born' = FALSE
  /\ stage' = "rest" /\ found' = FALSE
  /\ UNCHANGED <<player, seed, key, ranges, there>>

\* The library is loaded: its vtables are filled in.
Fills ==
  /\ ~ filled /\ filled' = TRUE
  /\ UNCHANGED <<home, owners>>

\* The SWF is loaded: its strings are born.
Born ==
  /\ home = None /\ home' \in Region
  /\ UNCHANGED <<filled, owners>>

\* GameManager.transition: what can be proven changes.
Transition ==
  /\ home # None /\ owners' \in SUBSET Key
  /\ UNCHANGED <<filled, home>>

Player ==
  /\ process > 0
  /\ Fills \/ Born \/ Transition
  /\ UNCHANGED <<player, seed, process, build, base, crowded, knowledge, search>>

\* The game is over, or its memory used again: one is looked for again.
Lost ==
  /\ found /\ found' = FALSE
  /\ UNCHANGED <<memory, knowledge, stage, key, ranges, there>>

-----------------------------------------------------------------------------
(* What is known of the build *)

\* Binary::recognise_the_build: the vtables hold the methods of the seed.
Recognised == seed # None /\ build = seed /\ filled

\* Mutant: a seed is taken for a proven layout.
ProvenBySeed == known # None \/ seed # None

\* Binary::proven.
Proven == known # None

\* Binary::layout: what is proven, or the seed, in the module of the process.
Trusted ==
  IF known # None THEN module + known
  ELSE IF seed # None THEN module + Offset[seed] ELSE None

\* Mutant: the address is learned, and not the offset.
AddressLearned(vtable) == vtable

\* learn: what is kept of the vtable that led to a game.
Learned(vtable) == IF player = "pepper" THEN vtable - module ELSE vtable

-----------------------------------------------------------------------------
(* A sweep, which other ticks interrupt *)

Sweeps(what, present) == stage' = what /\ there' = present

\* What it answers: what came since it began may be missed.
Outcomes(present) ==
  IF ~ present THEN {FALSE} ELSE IF there THEN {TRUE} ELSE BOOLEAN

\* The search of this key ends with nothing.
EndsWith(claim) ==
  /\ not_born' = claim
  /\ stage' = IF key = "fVersion" /\ ~ claim THEN "next" ELSE "rest"
  /\ UNCHANGED <<cached, there>>

-----------------------------------------------------------------------------
(* The string of a key, in Pepper Flash: find_string *)

FirstLook(list) == list \cap {"first"}

\* string_by_content: the first ranges alone, when there are others.
ByContent(list) ==
  IF FirstLook(list) \in {{}, list} THEN "content" ELSE "content_first"

Swept(what, list) == IF what = "content_first" THEN FirstLook(list) ELSE list

SweepsForString(what, list) == Sweeps(what, home \in Swept(what, list))

\* The string that is remembered is decoded again; or else the vtable that is
\* trusted is looked for, or the bytes of the key.
StartsFromAString(k, list) ==
  /\ not_born' = (not_born /\ k # "fVersion")
  /\ known' = IF ~ Proven /\ Recognised THEN Offset[seed] ELSE known
  /\ cached' = IF home = None THEN cached \ {k} ELSE cached
  /\ IF k \in cached' THEN Sweeps("owners", k \in owners)
     ELSE IF known' # None \/ seed # None THEN SweepsForString("headers", list)
     ELSE SweepsForString(ByContent(list), list)

FindsTheString ==
  /\ cached' = cached \cup {key}
  /\ Sweeps("owners", key \in owners)
  /\ UNCHANGED not_born

\* One pass over the headers that hold the vtable.  Only a proven one tells a
\* string that is absent from one it cannot see.
SweepsTheHeaders ==
  /\ stage = "headers"
  /\ \E met \in Outcomes(home \in ranges) :
       IF met /\ Trusted = Vtable THEN FindsTheString
       ELSE IF Proven THEN EndsWith(key = "fVersion")
       ELSE SweepsForString(ByContent(ranges), ranges) /\ UNCHANGED <<cached, not_born>>

\* The bytes of the key, and what points at them: eight places at most.
SweepsTheContent ==
  /\ stage \in {"content_first", "content"}
  /\ \E met \in Outcomes(home \in Swept(stage, ranges)) :
       IF met /\ ~ crowded THEN FindsTheString
       ELSE IF stage = "content_first"
       THEN SweepsForString("content", ranges) /\ UNCHANGED <<cached, not_born>>
       ELSE EndsWith(FALSE)

-----------------------------------------------------------------------------
(* The search *)

\* Ruffle looks for the entries of the key, by its hash.
LooksFor(k, list) ==
  /\ key' = k /\ ranges' = list
  /\ IF player = "pepper" THEN StartsFromAString(k, list)
     ELSE SweepsForString("entries", list) /\ UNCHANGED <<known, cached, not_born>>
  /\ UNCHANGED <<memory, module, found>>

\* resolve: the GameManager first, in the regions that changed or in all.
Searches(list) ==
  /\ process > 0 /\ ~ found /\ stage = "rest"
  /\ LooksFor("fVersion", list)

\* Then the mode itself, unless the manager is not born.
LooksForTheWorld == stage = "next" /\ LooksFor("world", ranges)

\* The layout of Ruffle is fixed: no entry, no key.
SweepsTheEntries ==
  /\ stage = "entries"
  /\ \E met \in Outcomes(home \in ranges) :
       IF met
       THEN /\ Sweeps("owners", key \in owners)
            /\ not_born' = (not_born /\ key # "fVersion")
            /\ UNCHANGED cached
       ELSE EndsWith(key = "fVersion")

SweepsForTheKey ==
  /\ SweepsTheHeaders \/ SweepsTheContent \/ SweepsTheEntries
  /\ UNCHANGED <<memory, module, known, key, ranges, found>>

\* object_vtable_of: the vtable that is known, or one of the statics.
IsAnObject ==
  player = "pepper" \/ IF known = None THEN module = base ELSE known = Vtable

\* The objects that own the key are swept, until one is proven.
SweepsTheOwners ==
  /\ stage = "owners"
  /\ \E met \in Outcomes(key \in owners) :
       IF met /\ IsAnObject
       THEN /\ found' = TRUE /\ stage' = "rest"
            /\ known' = Learned(Vtable)
            /\ UNCHANGED <<cached, not_born, there>>
       ELSE EndsWith(FALSE) /\ UNCHANGED <<known, found>>
  /\ UNCHANGED <<memory, module, key, ranges>>

Search ==
  \/ \E list \in SUBSET Region \ {{}} : Searches(list)
  \/ LooksForTheWorld \/ SweepsForTheKey \/ SweepsTheOwners

Next == Attach \/ Player \/ Lost \/ Search

Spec == Init /\ [][Next]_vars

\* A sweep ends, and while nothing is found the whole memory is looked at
\* again and again (FULL_SWEEP, see Search).
Fairness ==
  /\ WF_vars(LooksForTheWorld) /\ WF_vars(SweepsForTheKey) /\ WF_vars(SweepsTheOwners)
  /\ SF_vars(Searches(Region))

FairSpec == Spec /\ Fairness

=============================================================================
