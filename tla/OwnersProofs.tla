---------------------------- MODULE OwnersProofs ----------------------------
(***************************************************************************)
(* A player learns the build of the process it reads, and calls no key     *)
(* absent that it would see: for any builds, any addresses and any number  *)
(* of processes.                                                           *)
(***************************************************************************)
EXTENDS OwnersProps, TLAPS

Stage == {"rest", "next", "headers", "content_first", "content", "entries", "owners"}

\* Every variable has its type.
TypeOK ==
  /\ player \in {"pepper", "ruffle", "web"}
  /\ seed \in Build \cup {None}
  /\ process \in Nat /\ build \in Build /\ base \in Base
  /\ filled \in BOOLEAN /\ crowded \in BOOLEAN
  /\ home \in Region \cup {None} /\ owners \in SUBSET Key
  /\ module \in Nat /\ known \in Int \cup {None}
  /\ cached \in SUBSET Key /\ not_born \in BOOLEAN
  /\ stage \in Stage /\ key \in Key /\ ranges \in SUBSET Region
  /\ there \in BOOLEAN /\ found \in BOOLEAN

\* A sweep is under way in a process alone, and the module is known to be
\* where it is there.
InItsProcess ==
  /\ process > 0 => module = base
  /\ stage # "rest" => process > 0

\* What was there when the sweep for a key began is there until it ends.
StillThere == stage \in {"headers", "entries"} /\ there => home \in ranges

\* Only Pepper Flash looks for headers.
OfItsPlayer == stage = "headers" => player = "pepper"

IInv == TypeOK /\ InItsProcess /\ StillThere /\ OfItsPlayer

LEMMA InitInv == Init => IInv
<1> SUFFICES ASSUME Init PROVE IInv
  OBVIOUS
<1>1. TypeOK
  BY DEF Init, TypeOK, Stage, Key
<1>2. InItsProcess /\ StillThere /\ OfItsPlayer
  BY DEF Init, InItsProcess, StillThere, OfItsPlayer
<1> QED
  BY <1>1, <1>2 DEF IInv

-----------------------------------------------------------------------------
(* The vtable of the process *)

\* The vtable is a number, and its place in the module is its build.
LEMMA VtableType ==
  ASSUME TypeOK
  PROVE  /\ Vtable \in Nat
         /\ Vtable - base = Offset[build]
         /\ \A k \in Int : base + k = Vtable => k = Offset[build]
<1>1. base \in Nat /\ Offset[build] \in Nat
  BY OwnersAssumption DEF TypeOK
<1> QED
  BY <1>1 DEF Vtable

\* It is so after a step as well.
LEMMA VtableTypeNext ==
  ASSUME build' \in Build, base' \in Base
  PROVE  Vtable' \in Nat
<1>1. base' \in Nat /\ Offset[build'] \in Nat
  BY OwnersAssumption
<1> QED
  BY <1>1 DEF Vtable

\* What an owner teaches, in the process it was found in.
LEMMA LearnedIsTheBuild ==
  ASSUME TypeOK, InItsProcess, process > 0
  PROVE  /\ Learned(Vtable) \in Int
         /\ Learned(Vtable) = IF player = "pepper" THEN Offset[build] ELSE Vtable
<1>1. module = base
  BY DEF InItsProcess
<1> QED
  BY <1>1, VtableType DEF Learned, TypeOK

-----------------------------------------------------------------------------
(* The steps *)

LEMMA AttachInv ==
  ASSUME IInv, Attach
  PROVE  IInv'
<1> USE DEF IInv, Attach
<1>1. module' \in Nat /\ known' \in Int \cup {None}
  <2>1. base' \in Nat
    BY OwnersAssumption
  <2>2. Vtable' \in Nat
    BY VtableTypeNext
  <2> QED
    BY <2>1, <2>2 DEF KnownAtAttach, TypeOK
<1>2. process' \in Nat /\ build' \in Build /\ base' \in Base
  BY DEF TypeOK
<1>3. filled' \in BOOLEAN /\ crowded' \in BOOLEAN /\ home' = None
      /\ not_born' \in BOOLEAN /\ found' \in BOOLEAN
  OBVIOUS
<1>4. owners' \in SUBSET Key /\ cached' \in SUBSET Key /\ stage' \in Stage
  BY DEF Stage
<1>5. TypeOK'
  BY <1>1, <1>2, <1>3, <1>4 DEF TypeOK
<1>6. InItsProcess' /\ StillThere' /\ OfItsPlayer'
  BY DEF InItsProcess, StillThere, OfItsPlayer, TypeOK
<1> QED
  BY <1>5, <1>6

LEMMA PlayerInv ==
  ASSUME IInv, Player
  PROVE  IInv'
<1> USE DEF IInv, Player, knowledge, search
<1>1. filled' \in BOOLEAN /\ home' \in Region \cup {None} /\ owners' \in SUBSET Key
  BY DEF TypeOK, Fills, Born, Transition
<1>2. home \in Region => home' = home
  BY NoneAssumption DEF Fills, Born, Transition
<1>3. TypeOK'
  BY <1>1 DEF TypeOK
<1>4. InItsProcess' /\ StillThere' /\ OfItsPlayer'
  BY <1>2 DEF InItsProcess, StillThere, OfItsPlayer, TypeOK
<1> QED
  BY <1>3, <1>4

LEMMA LostInv ==
  ASSUME IInv, Lost
  PROVE  IInv'
  BY DEF IInv, Lost, memory, knowledge, TypeOK, InItsProcess, StillThere, OfItsPlayer

LEMMA OutcomesType == \A present \in BOOLEAN : Outcomes(present) \subseteq BOOLEAN
  BY DEF Outcomes

\* A sweep for the string of a key begins, or nothing more is looked for.
LEMMA EndsType ==
  ASSUME NEW claim \in BOOLEAN, TypeOK, EndsWith(claim)
  PROVE  /\ not_born' \in BOOLEAN /\ stage' \in {"next", "rest"}
         /\ cached' \in SUBSET Key /\ there' \in BOOLEAN
  BY DEF EndsWith, TypeOK

LEMMA FindsType ==
  ASSUME TypeOK, FindsTheString
  PROVE  /\ not_born' \in BOOLEAN /\ stage' = "owners"
         /\ cached' \in SUBSET Key /\ there' \in BOOLEAN
  BY DEF FindsTheString, Sweeps, TypeOK

\* What a first sweep knows of its key.
LEMMA StartsType ==
  ASSUME NEW k \in Key, NEW list \in SUBSET Region, TypeOK, memory' = memory,
         StartsFromAString(k, list)
  PROVE  /\ not_born' \in BOOLEAN /\ cached' \in SUBSET Key
         /\ known' \in {known, Offset[seed]} /\ known' \in Int \cup {None}
         /\ stage' \in {"owners", "headers", "content", "content_first"}
         /\ there' \in BOOLEAN
         /\ stage' = "headers" => there' = (home \in list)
<1>1. not_born' \in BOOLEAN /\ cached' \in SUBSET Key
  BY DEF StartsFromAString, TypeOK
<1>2. known' \in {known, Offset[seed]} /\ known' \in Int \cup {None}
  BY OwnersAssumption DEF StartsFromAString, Recognised, TypeOK
<1>3. /\ stage' \in {"owners", "headers", "content", "content_first"}
      /\ there' \in BOOLEAN
      /\ stage' = "headers" => there' = (home \in list)
  <2>1. \/ Sweeps("owners", k \in owners)
        \/ SweepsForString("headers", list)
        \/ SweepsForString(ByContent(list), list)
    BY DEF StartsFromAString
  <2>2. ByContent(list) \in {"content", "content_first"}
    BY DEF ByContent
  <2>3. CASE Sweeps("owners", k \in owners)
    BY <2>3 DEF Sweeps
  <2>4. CASE SweepsForString("headers", list)
    BY <2>4 DEF SweepsForString, Sweeps, Swept
  <2>5. CASE SweepsForString(ByContent(list), list)
    BY <2>2, <2>5 DEF SweepsForString, Sweeps
  <2> QED
    BY <2>1, <2>3, <2>4, <2>5
<1> QED
  BY <1>1, <1>2, <1>3

LEMMA LooksForInv ==
  ASSUME NEW k \in Key, NEW list \in SUBSET Region, IInv, process > 0, LooksFor(k, list)
  PROVE  IInv'
<1> USE DEF IInv, LooksFor
<1>1. /\ player' = player /\ seed' = seed /\ process' = process /\ build' = build
      /\ base' = base /\ filled' = filled /\ crowded' = crowded /\ home' = home
      /\ owners' = owners /\ module' = module /\ found' = found
      /\ key' = k /\ ranges' = list
  BY DEF memory
<1>2. /\ not_born' \in BOOLEAN /\ cached' \in SUBSET Key
      /\ known' \in Int \cup {None} /\ stage' \in Stage /\ there' \in BOOLEAN
      /\ stage' \in {"headers", "entries"} => there' = (home \in list)
      /\ stage' = "headers" => player = "pepper"
  <2>1. CASE player = "pepper"
    BY <2>1, StartsType DEF Stage
  <2>2. CASE player # "pepper"
    BY <2>2 DEF SweepsForString, Sweeps, Swept, TypeOK, Stage
  <2> QED
    BY <2>1, <2>2
<1>3. TypeOK'
  BY <1>1, <1>2 DEF TypeOK
<1>4. InItsProcess' /\ StillThere' /\ OfItsPlayer'
  BY <1>1, <1>2 DEF InItsProcess, StillThere, OfItsPlayer
<1> QED
  BY <1>3, <1>4

LEMMA SweepsForTheKeyInv ==
  ASSUME IInv, SweepsForTheKey
  PROVE  IInv'
<1> USE DEF IInv, SweepsForTheKey
<1>1. /\ player' = player /\ seed' = seed /\ process' = process /\ build' = build
      /\ base' = base /\ filled' = filled /\ crowded' = crowded /\ home' = home
      /\ owners' = owners /\ module' = module /\ known' = known /\ key' = key
      /\ ranges' = ranges /\ found' = found /\ process > 0
  BY DEF memory, InItsProcess, SweepsTheHeaders, SweepsTheContent, SweepsTheEntries
<1>2. /\ not_born' \in BOOLEAN /\ cached' \in SUBSET Key /\ there' \in BOOLEAN
      /\ stage' \in {"owners", "next", "rest", "content", "content_first"}
  <2> DEFINE Goes(what) == Sweeps(what, home \in Swept(what, ranges))
                           /\ UNCHANGED <<cached, not_born>>
  <2>1. \/ FindsTheString
        \/ \E claim \in BOOLEAN : EndsWith(claim)
        \/ \E what \in {"content", "content_first"} : Goes(what)
        \/ /\ Sweeps("owners", key \in owners)
           /\ not_born' = (not_born /\ key # "fVersion") /\ cached' = cached
    <3>1. CASE SweepsTheHeaders
      BY <3>1 DEF SweepsTheHeaders, SweepsForString, ByContent
    <3>2. CASE SweepsTheContent
      BY <3>2 DEF SweepsTheContent, SweepsForString
    <3>3. CASE SweepsTheEntries
      BY <3>3 DEF SweepsTheEntries
    <3> QED
      BY <3>1, <3>2, <3>3
  <2>2. CASE FindsTheString
    BY <2>2, FindsType
  <2>3. CASE \E claim \in BOOLEAN : EndsWith(claim)
    BY <2>3, EndsType
  <2>4. CASE \E what \in {"content", "content_first"} : Goes(what)
    BY <2>4 DEF Sweeps, TypeOK
  <2>5. CASE /\ Sweeps("owners", key \in owners)
             /\ not_born' = (not_born /\ key # "fVersion") /\ cached' = cached
    BY <2>5 DEF Sweeps, TypeOK
  <2> QED
    BY <2>1, <2>2, <2>3, <2>4, <2>5
<1>3. TypeOK'
  BY <1>1, <1>2 DEF TypeOK, Stage
<1>4. InItsProcess' /\ StillThere' /\ OfItsPlayer'
  BY <1>1, <1>2 DEF InItsProcess, StillThere, OfItsPlayer
<1> QED
  BY <1>3, <1>4

LEMMA SweepsTheOwnersInv ==
  ASSUME IInv, SweepsTheOwners
  PROVE  IInv'
<1> USE DEF IInv, SweepsTheOwners
<1>1. /\ player' = player /\ seed' = seed /\ process' = process /\ build' = build
      /\ base' = base /\ filled' = filled /\ crowded' = crowded /\ home' = home
      /\ owners' = owners /\ module' = module /\ key' = key /\ ranges' = ranges
      /\ process > 0
  BY DEF memory, InItsProcess
<1>2. /\ not_born' \in BOOLEAN /\ cached' \in SUBSET Key /\ there' \in BOOLEAN
      /\ stage' \in {"next", "rest"} /\ known' \in Int \cup {None} /\ found' \in BOOLEAN
  BY <1>1, EndsType, LearnedIsTheBuild DEF TypeOK
<1>3. TypeOK'
  BY <1>1, <1>2 DEF TypeOK, Stage
<1>4. InItsProcess' /\ StillThere' /\ OfItsPlayer'
  BY <1>1, <1>2 DEF InItsProcess, StillThere, OfItsPlayer
<1> QED
  BY <1>3, <1>4

-----------------------------------------------------------------------------
(* The invariant *)

LEMMA SearchInv ==
  ASSUME IInv, Search
  PROVE  IInv'
<1>1. CASE \E list \in SUBSET Region \ {{}} : Searches(list)
  BY <1>1, LooksForInv DEF Searches, Key
<1>2. CASE LooksForTheWorld
  BY <1>2, LooksForInv DEF LooksForTheWorld, IInv, TypeOK, InItsProcess, Key
<1>3. CASE SweepsForTheKey
  BY <1>3, SweepsForTheKeyInv
<1>4. CASE SweepsTheOwners
  BY <1>4, SweepsTheOwnersInv
<1> QED
  BY <1>1, <1>2, <1>3, <1>4 DEF Search

LEMMA NextInv == IInv /\ [Next]_vars => IInv'
<1> SUFFICES ASSUME IInv, [Next]_vars PROVE IInv'
  OBVIOUS
<1>1. CASE UNCHANGED vars
  BY <1>1 DEF vars, memory, knowledge, search, IInv, TypeOK, InItsProcess, StillThere, OfItsPlayer
<1>2. CASE Next
  BY <1>2, AttachInv, PlayerInv, LostInv, SearchInv DEF Next
<1> QED
  BY <1>1, <1>2

LEMMA Invariance == Spec => []IInv
<1> QED
  BY InitInv, NextInv, PTL DEF Spec

\* Every variable of a search keeps its type, for any builds and addresses.
THEOREM TypeCorrect == Spec => []TypeOK
<1>1. IInv => TypeOK
  BY DEF IInv
<1> QED
  BY <1>1, Invariance, PTL

-----------------------------------------------------------------------------
(* What it teaches, and what it claims *)

\* What a step learns is the build of its process.
LEMMA StepLearnsTheBuild ==
  ASSUME IInv, [Next]_vars, known' # known, known' # None
  PROVE  known' = IF player = "pepper" THEN Offset[build'] ELSE Vtable'
<1> USE DEF IInv
<1>1. CASE UNCHANGED vars
  BY <1>1 DEF vars, knowledge
<1>2. CASE Attach
  BY <1>2 DEF Attach, KnownAtAttach, TypeOK
<1>3. CASE Player \/ Lost \/ SweepsForTheKey
  BY <1>3 DEF Player, Lost, SweepsForTheKey, knowledge
<1>4. CASE \E k \in Key, list \in SUBSET Region : LooksFor(k, list)
  <2>1. player = "pepper" /\ build' = build
    BY <1>4 DEF LooksFor, memory
  <2>2. known' = Offset[seed] /\ build = seed
    BY <1>4, <2>1 DEF LooksFor, StartsFromAString, Recognised
  <2> QED
    BY <2>1, <2>2
<1>5. CASE SweepsTheOwners
  <2>1. known' = Learned(Vtable)
    BY <1>5 DEF SweepsTheOwners
  <2>2. process > 0
    BY <1>5 DEF SweepsTheOwners, InItsProcess
  <2>3. build' = build /\ Vtable' = Vtable
    BY <1>5 DEF SweepsTheOwners, memory, Vtable
  <2> QED
    BY <2>1, <2>2, <2>3, LearnedIsTheBuild
<1>6. Search => \/ \E k \in Key, list \in SUBSET Region : LooksFor(k, list)
                \/ SweepsForTheKey \/ SweepsTheOwners
  BY DEF Search, Searches, LooksForTheWorld, Key, TypeOK
<1> QED
  BY <1>1, <1>2, <1>3, <1>4, <1>5, <1>6 DEF Next

\* A build that was read is known by its vtable in any process of it, for any
\* builds, any addresses and any number of processes.
THEOREM LearnsTheBuildAlways == Spec => LearnsTheBuild
<1>1. IInv /\ [Next]_vars =>
        [known' # known /\ known' # None =>
           known' = IF player = "pepper" THEN Offset[build'] ELSE Vtable']_vars
  BY StepLearnsTheBuild
<1> QED
  BY <1>1, Invariance, PTL DEF Spec, LearnsTheBuild

\* A sweep that ends with nothing, and held its key, had the vtable of another
\* build.
LEMMA StepClaims ==
  ASSUME IInv, [Next]_vars,
         stage \in {"headers", "entries"}, stage' = "rest", process' = process,
         not_born', there
  PROVE  player = "pepper" /\ known \notin {None, Offset[build]}
<1> USE DEF IInv
<1>1. home \in ranges /\ Outcomes(home \in ranges) = {TRUE}
  BY DEF StillThere, Outcomes
<1>2. CASE UNCHANGED vars
  BY <1>2 DEF vars, search
<1>3. CASE Attach
  BY <1>3 DEF Attach, TypeOK
<1>4. CASE Player \/ Lost
  BY <1>4 DEF Player, Lost, search
<1>5. CASE SweepsTheHeaders
  <2>1. /\ ~ FindsTheString /\ stage' # "content" /\ stage' # "content_first"
    BY DEF FindsTheString, Sweeps
  <2>2. Proven /\ Trusted # Vtable
    BY <1>1, <1>5, <2>1
       DEF SweepsTheHeaders, SweepsForString, Sweeps, ByContent
  <2>3. known # None /\ module + known # Vtable
    BY <2>2 DEF Proven, Trusted
  <2>4. module = base
    BY <1>5 DEF SweepsTheHeaders, InItsProcess
  <2>5. known # Offset[build]
    BY <2>3, <2>4 DEF Vtable
  <2>6. player = "pepper"
    BY <1>5 DEF SweepsTheHeaders, OfItsPlayer
  <2> QED
    BY <2>3, <2>5, <2>6
<1>6. CASE SweepsTheEntries
  BY <1>1, <1>6 DEF SweepsTheEntries, Sweeps
<1>7. CASE Search /\ ~ SweepsTheHeaders /\ ~ SweepsTheEntries
  BY <1>7 DEF Search, Searches, LooksForTheWorld, SweepsForTheKey, SweepsTheContent,
              SweepsTheOwners
<1> QED
  BY <1>2, <1>3, <1>4, <1>5, <1>6, <1>7 DEF Next

\* The manager is called not born only when its key was in nothing that was
\* swept, or when another build was proven: for any builds and addresses.
THEOREM NotBornIsSoAlways == Spec => NotBornIsSo
<1>1. IInv /\ [Next]_vars =>
        [/\ stage \in {"headers", "entries"} /\ stage' = "rest"
         /\ process' = process /\ not_born'
         => ~ there \/ (player = "pepper" /\ known \notin {None, Offset[build]})]_vars
  BY StepClaims
<1> QED
  BY <1>1, Invariance, PTL DEF Spec, NotBornIsSo

=============================================================================
