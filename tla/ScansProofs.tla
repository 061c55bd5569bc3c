---------------------------- MODULE ScansProofs -----------------------------
(***************************************************************************)
(* A sweep misses nothing that stays, for any ranges, any size of block    *)
(* and any overlap that is long enough.                                    *)
(***************************************************************************)
EXTENDS ScansProps, TLAPS

\* Before this range, and in it before the next block, all that stays is met.
Passed(r, p) ==
  \/ r < range
  \/ r = range /\ (p < base \/ phase = "done")

Covered ==
  \A p \in kept, r \in DOMAIN Ranges \ shrunk :
    Within(p, Start(r), End(r)) /\ Passed(r, p) => p \in met

IInv ==
  /\ TypeOK
  /\ there \subseteq Int
  /\ phase = "done" => range = Len(Ranges)
  /\ Covered

\* The sizes are positive numbers.
LEMMA SizesType ==
  /\ LENGTH \in Nat \ {0} /\ CHUNK \in Nat \ {0} /\ OVERLAP \in Nat \ {0}
  /\ CHUNKS_PER_TICK \in Nat \ {0}
  /\ OVERLAP < CHUNK /\ LENGTH <= OVERLAP + 1
BY ScansAssumption DEF ScansAssumption

\* Ranges have natural ends, and hold more than an overlap.
LEMMA RangeType ==
  ASSUME NEW r \in DOMAIN Ranges
  PROVE  /\ Start(r) \in Nat /\ End(r) \in Nat
         /\ End(r) - Start(r) > OVERLAP
         /\ r \in 1..Len(Ranges) /\ Len(Ranges) \in Nat
<1>1. Ranges[r] \in Nat \X Nat
  BY ScansAssumption DEF ScansAssumption
<1> QED
  BY <1>1, ScansAssumption DEF ScansAssumption, Start, End

\* Where what is looked for may lie is an address.
LEMMA PlacesAreAddresses == Places \subseteq Int
<1>1. ASSUME NEW r \in DOMAIN Ranges PROVE Start(r)..(End(r) - 1) \subseteq Int
  BY RangeType
<1> QED
  BY <1>1 DEF Places, Words

\* A block lies in its range, and is no longer than what is left.
LEMMA BlockType ==
  ASSUME TypeOK
  PROVE  /\ base \in Nat /\ End(range) \in Nat
         /\ Block \in 1..CHUNK /\ base + Block <= End(range)
         /\ Block <= OVERLAP => base + Block = End(range)
<1>1. /\ range \in DOMAIN Ranges /\ Start(range) \in Nat
      /\ End(range) \in Nat /\ base \in Start(range)..(End(range) - 1)
  BY RangeType DEF TypeOK
<1>2. base \in Nat /\ End(range) - base \in Nat \ {0}
  BY <1>1
<1>3. Block = IF End(range) - base < CHUNK THEN End(range) - base ELSE CHUNK
  BY DEF Block
<1>4. CASE End(range) - base < CHUNK
  BY <1>1, <1>2, <1>3, <1>4, SizesType
<1>5. CASE ~ (End(range) - base < CHUNK)
  BY <1>1, <1>2, <1>3, <1>5, SizesType
<1> QED
  BY <1>4, <1>5

\* No place lies before the first range.
LEMMA InitIInv == Init => IInv
<1> SUFFICES ASSUME Init PROVE IInv
  OBVIOUS
<1> USE ScansAssumption DEF ScansAssumption
<1>1. 1 \in DOMAIN Ranges
  OBVIOUS
<1>2. Start(1) \in Start(1)..(End(1) - 1)
  BY <1>1, RangeType
<1>3. TypeOK
  BY <1>1, <1>2 DEF Init, TypeOK
<1>4. there \subseteq Int
  BY PlacesAreAddresses DEF Init
<1>5. Covered
  <2> SUFFICES ASSUME NEW p \in kept, NEW r \in DOMAIN Ranges \ shrunk,
                      Within(p, Start(r), End(r)), Passed(r, p)
               PROVE  FALSE
    BY DEF Covered
  <2>1. r \in 1..Len(Ranges) /\ range = 1 /\ base = Start(1)
    BY RangeType DEF Init
  <2>2. r = 1 /\ p < Start(1)
    BY <2>1 DEF Passed, Init
  <2> QED
    BY <1>1, <1>4, <2>2, RangeType DEF Within, Init
<1> QED
  BY <1>3, <1>4, <1>5 DEF Init, IInv

\* What the player writes was not there from the start, and what it erases
\* or gives back is not asked for.
LEMMA PlayerKeepsIInv ==
  ASSUME IInv, Player
  PROVE  IInv'
<1>1. UNCHANGED <<budget, range, base, chunks, calls, requested, met, phase>>
  BY DEF Player, sweep
<1>2. /\ kept' \subseteq kept /\ shrunk \subseteq shrunk'
      /\ kept' \subseteq there' /\ there' \subseteq Int
      /\ shrunk' \subseteq DOMAIN Ranges
  BY PlacesAreAddresses DEF Player, Written, Erased, Shrinks, IInv, TypeOK
<1>3. Covered'
  BY <1>1, <1>2 DEF IInv, Covered, Passed, Within
<1> QED
  BY <1>1, <1>2, <1>3 DEF IInv, TypeOK

\* A block meets all that stays between its ends.
LEMMA BlockMeets ==
  ASSUME IInv, ReadBlock, range \notin shrunk,
         NEW p \in kept, Within(p, base, base + Block)
  PROVE  p \in met'
<1>1. Answers
  BY DEF Answers
<1> QED
  BY <1>1 DEF ReadBlock, Hits, IInv, TypeOK

\* A read changes nothing but what was met and counted.
LEMMA ReadTypes ==
  ASSUME IInv, ReadBlock
  PROVE  /\ calls' \in Nat /\ requested' \in Nat
         /\ met \subseteq met'
         /\ UNCHANGED <<budget, there, kept, shrunk>>
         /\ phase = "reads"
BY BlockType DEF IInv, TypeOK, ReadBlock, memory

\* The next block starts where nothing that is looked for can begin and lie
\* before its end without lying whole in this one.
LEMMA GoesOnKeepsIInv ==
  ASSUME IInv, GoesOn
  PROVE  IInv'
<1>1. ReadBlock /\ Block > OVERLAP /\ base' = base + Block - OVERLAP
  BY BlockType, SizesType DEF GoesOn, IsTail, Step, IInv
<1>2. /\ range' = range /\ base' \in Start(range)..(End(range) - 1)
      /\ base' <= base + Block - OVERLAP
  <2>1. base \in Start(range)..(End(range) - 1) /\ Start(range) \in Nat
    BY RangeType DEF IInv, TypeOK
  <2>2. range' = range /\ End(range) \in Nat
    BY BlockType DEF GoesOn, IInv
  <2> QED
    BY <1>1, <2>1, <2>2, BlockType, SizesType DEF IInv
<1>3. chunks' \in 0..(CHUNKS_PER_TICK - 1) /\ phase' \in {"reads", "waits"}
  <2>1. chunks + 1 \in Nat /\ chunks' = (chunks + 1) % CHUNKS_PER_TICK
    BY SizesType DEF GoesOn, IInv, TypeOK
  <2> QED
    BY <2>1, SizesType DEF GoesOn
<1>4. Covered'
  <2> SUFFICES ASSUME NEW p \in kept, NEW r \in DOMAIN Ranges \ shrunk,
                      Within(p, Start(r), End(r)), Passed(r, p)'
               PROVE  p \in met'
    BY <1>1, ReadTypes DEF Covered, Within
  <2>1. p \in Int
    BY DEF IInv, TypeOK
  <2>2. CASE Passed(r, p)
    BY <1>1, <2>2, ReadTypes DEF IInv, Covered
  <2>3. CASE ~ Passed(r, p)
    <3>1. r = range /\ ~ (p < base) /\ p < base'
      BY <1>2, <1>3, <2>3 DEF Passed
    <3>2. p + LENGTH <= base + Block
      BY <1>1, <2>1, <3>1, BlockType, SizesType DEF IInv
    <3>3. Within(p, base, base + Block)
      BY <2>1, <3>1, <3>2, BlockType DEF Within, IInv
    <3> QED
      BY <1>1, <3>1, <3>3, BlockMeets
  <2> QED
    BY <2>2, <2>3
<1> QED
  BY <1>1, <1>2, <1>3, <1>4, ReadTypes DEF IInv, TypeOK

\* The last block of a range reaches its end.
LEMMA LeavesKeepsIInv ==
  ASSUME IInv, Leaves
  PROVE  IInv'
<1>1. ReadBlock /\ base + Block = End(range) /\ chunks' = chunks
  BY BlockType DEF Leaves, IsTail, IInv
<1>2. ASSUME NEW p \in kept, range \notin shrunk,
             Within(p, Start(range), End(range))
      PROVE  p \in met'
  <2>1. p \in Int
    BY DEF IInv, TypeOK
  <2>2. CASE p < base
    BY <1>1, <1>2, <2>2, ReadTypes DEF IInv, TypeOK, Covered, Passed
  <2>3. CASE ~ (p < base)
    BY <1>1, <1>2, <2>1, <2>3, BlockMeets, BlockType DEF Within, IInv
  <2> QED
    BY <2>2, <2>3
<1>3. CASE range < Len(Ranges)
  <2>1. /\ range' = range + 1 /\ base' = Start(range + 1) /\ phase' = "reads"
        /\ range \in Nat /\ range + 1 \in DOMAIN Ranges
    <3>1. range \in 1..Len(Ranges) /\ Len(Ranges) \in Nat
      BY RangeType DEF IInv, TypeOK
    <3>2. DOMAIN Ranges = 1..Len(Ranges)
      BY ScansAssumption DEF ScansAssumption
    <3> QED
      BY <1>3, <3>1, <3>2 DEF Leaves
  <2>2. base' \in Start(range')..(End(range') - 1)
    <3>1. /\ Start(range + 1) \in Nat /\ End(range + 1) \in Nat
          /\ End(range + 1) - Start(range + 1) > OVERLAP
      BY <2>1, RangeType
    <3>2. Start(range + 1) \in Start(range + 1)..(End(range + 1) - 1)
      BY <3>1, SizesType
    <3> QED
      BY <2>1, <3>2 DEF Start, End
  <2>3. Covered'
    <3> SUFFICES ASSUME NEW p \in kept, NEW r \in DOMAIN Ranges \ shrunk,
                        Within(p, Start(r), End(r)), Passed(r, p)'
                 PROVE  p \in met'
      BY <1>1, ReadTypes DEF Covered, Within
    <3>1. r \in Nat /\ p \in Int
      <4>1. r \in DOMAIN Ranges /\ p \in there /\ there \subseteq Int
        BY DEF IInv, TypeOK
      <4> QED
        BY <4>1, RangeType
    <3>2. ~ (r = range')
      BY <2>1, <2>2, <3>1, RangeType DEF Passed, Within
    <3>3. r < range \/ r = range
      BY <2>1, <3>1, <3>2 DEF Passed
    <3>4. CASE r < range
      BY <1>1, <3>4, ReadTypes DEF IInv, Covered, Passed
    <3> QED
      BY <1>2, <3>3, <3>4
  <2> QED
    BY <1>1, <2>1, <2>2, <2>3, ReadTypes DEF IInv, TypeOK
<1>4. CASE ~ (range < Len(Ranges))
  <2>1. UNCHANGED <<range, base>> /\ phase' = "done" /\ range = Len(Ranges)
    BY <1>4 DEF Leaves, IInv, TypeOK
  <2>2. Covered'
    <3> SUFFICES ASSUME NEW p \in kept, NEW r \in DOMAIN Ranges \ shrunk,
                        Within(p, Start(r), End(r)), Passed(r, p)'
                 PROVE  p \in met'
      BY <1>1, ReadTypes DEF Covered, Within
    <3>1. CASE r = range
      BY <1>2, <3>1
    <3>2. CASE r # range
      BY <1>1, <2>1, <3>2, ReadTypes DEF IInv, Covered, Passed
    <3> QED
      BY <3>1, <3>2
  <2> QED
    BY <1>1, <2>1, <2>2, ReadTypes DEF IInv, TypeOK
<1> QED
  BY <1>3, <1>4

\* Neither the player nor the sweep leaves behind what stays.
LEMMA NextIInv == IInv /\ [Next]_vars => IInv'
<1> SUFFICES ASSUME IInv, [Next]_vars PROVE IInv'
  OBVIOUS
<1>1. CASE Player
  BY <1>1, PlayerKeepsIInv
<1>2. CASE Stops
  <2>1. /\ UNCHANGED <<range, base, chunks>> /\ phase' = "stopped"
        /\ phase = "reads" /\ ReadBlock
    BY <1>2 DEF Stops, ReadBlock
  <2>2. Covered'
    BY <2>1, ReadTypes DEF IInv, Covered, Passed, Within
  <2> QED
    BY <2>1, <2>2, ReadTypes DEF IInv, TypeOK
<1>3. CASE GoesOn
  BY <1>3, GoesOnKeepsIInv
<1>4. CASE Leaves
  BY <1>4, LeavesKeepsIInv
<1>5. CASE GivesTheTickBack
  BY <1>5 DEF GivesTheTickBack, memory, IInv, TypeOK, Covered, Passed, Within
<1>6. CASE UNCHANGED vars
  BY <1>6 DEF vars, memory, sweep, IInv, TypeOK, Covered, Passed, Within
<1> QED
  BY <1>1, <1>2, <1>3, <1>4, <1>5, <1>6 DEF Next, Sweep

\* The invariant of the two theorems.
LEMMA IInvHolds == Spec => []IInv
BY InitIInv, NextIInv, PTL DEF Spec

\* Blocks never leave their range, and a sweep that goes on always has words
\* left to read.
THEOREM TypeCorrect == Spec => []TypeOK
<1>1. IInv => TypeOK
  BY DEF IInv
<1> QED
  BY <1>1, IInvHolds, PTL

\* "Overlap between two blocks, so a pattern across the edge is not missed"
\* (scan.rs:16), within a range: a sweep that was not stopped met all that
\* stayed, as soon as the overlap and one word hold what is looked for.
THEOREM NothingKeptIsMissed == Spec => []WhatStaysIsMet
<1>1. IInv => WhatStaysIsMet
  <2> SUFFICES ASSUME IInv, phase = "done", NEW p \in kept,
                      NEW r \in DOMAIN Ranges \ shrunk,
                      Within(p, Start(r), End(r))
               PROVE  p \in met
    BY DEF WhatStaysIsMet
  <2>1. r \in 1..Len(Ranges) /\ Len(Ranges) \in Nat /\ range = Len(Ranges)
    BY RangeType DEF IInv
  <2> QED
    BY <2>1 DEF IInv, Covered, Passed
<1> QED
  BY <1>1, IInvHolds, PTL

-----------------------------------------------------------------------------
(* The tick *)

\* Between two reads the tick is not over; only the last words of a range may
\* have been read past the count, and those are not two in a row.
Counted ==
  IF base = Start(range)
  THEN IF budget
       THEN calls <= READS_PER_TICK /\ requested < WORDS_PER_TICK + OVERLAP
       ELSE calls <= 2 * chunks + 1
  ELSE IF budget
       THEN calls < READS_PER_TICK /\ requested < WORDS_PER_TICK
       ELSE calls <= 2 * chunks

SharedInv ==
  /\ phase = "reads" => Counted
  /\ phase = "waits" /\ ~ budget => chunks = 0
  /\ TheTickIsShared

\* The counts of a tick are positive numbers.
LEMMA CountsType ==
  READS_PER_TICK \in Nat \ {0} /\ WORDS_PER_TICK \in Nat \ {0}
BY ScansAssumption DEF ScansAssumption

\* The first block of a range is not its last words.
LEMMA FirstIsNoTail ==
  ASSUME TypeOK, base = Start(range)
  PROVE  Block > OVERLAP
<1>1. /\ End(range) - Start(range) > OVERLAP
      /\ Start(range) \in Nat /\ End(range) \in Nat
  BY RangeType DEF TypeOK
<1> QED
  BY <1>1, SizesType DEF Block

\* A block that does not end its range is counted.
LEMMA NextChunk ==
  ASSUME TypeOK
  PROVE  (chunks + 1) % CHUNKS_PER_TICK =
            IF chunks + 1 = CHUNKS_PER_TICK THEN 0 ELSE chunks + 1
<1>1. chunks + 1 \in 1..CHUNKS_PER_TICK
  BY SizesType DEF TypeOK
<1>2. CASE chunks + 1 = CHUNKS_PER_TICK
  BY <1>2, SizesType
<1>3. CASE chunks + 1 < CHUNKS_PER_TICK
  BY <1>1, <1>3, SizesType
<1> QED
  BY <1>1, <1>2, <1>3, SizesType

\* A read after which nothing more is read in this tick.
LEMMA ReadIsShared ==
  ASSUME IInv, SharedInv, ReadBlock
  PROVE  TheTickIsShared' /\ (~ budget => calls' <= 2 * chunks + 2)
<1>1. /\ calls \in Nat /\ requested \in Nat /\ Block \in 1..CHUNK
      /\ chunks \in 0..(CHUNKS_PER_TICK - 1) /\ budget \in BOOLEAN
  BY BlockType DEF IInv, TypeOK
<1>2. /\ calls' = calls + 1 /\ requested' = requested + Block /\ budget' = budget
      /\ Counted
  BY DEF ReadBlock, SharedInv
<1> QED
  BY <1>1, <1>2, SizesType, CountsType DEF Counted, TheTickIsShared

LEMMA GoesOnShares ==
  ASSUME IInv, SharedInv, GoesOn
  PROVE  SharedInv'
<1>1. /\ ReadBlock /\ budget' = budget /\ range' = range
      /\ phase' = IF ShouldYield(chunks') THEN "waits" ELSE "reads"
      /\ calls' \in Nat /\ requested' \in Nat
  BY ReadTypes DEF GoesOn
<1>2. chunks' = IF chunks + 1 = CHUNKS_PER_TICK THEN 0 ELSE chunks + 1
  BY NextChunk DEF GoesOn, IInv
<1>3. /\ TheTickIsShared' /\ (~ budget => calls' <= 2 * chunks + 2)
      /\ budget \in BOOLEAN /\ chunks \in Nat
  BY <1>1, ReadIsShared, SizesType DEF IInv, TypeOK
<1>4. ASSUME phase' = "waits", ~ budget PROVE chunks' = 0
  BY <1>1, <1>4 DEF ShouldYield
<1>5. ASSUME phase' = "reads" PROVE Counted'
  <2>1. ~ ShouldYield(chunks')
    BY <1>1, <1>5
  <2>2. CASE budget
    <3>1. ~ (requested' >= WORDS_PER_TICK) /\ ~ (calls' >= READS_PER_TICK)
      BY <2>1, <2>2 DEF ShouldYield
    <3> QED
      BY <1>1, <2>2, <3>1, CountsType, SizesType DEF Counted
  <2>3. CASE ~ budget
    <3>1. chunks' # 0
      BY <2>1, <2>3 DEF ShouldYield
    <3> QED
      BY <1>1, <1>2, <1>3, <2>3, <3>1 DEF Counted
  <2> QED
    BY <2>2, <2>3
<1> QED
  BY <1>1, <1>3, <1>4, <1>5 DEF SharedInv

LEMMA LeavesShares ==
  ASSUME IInv, SharedInv, Leaves
  PROVE  SharedInv'
<1>1. /\ ReadBlock /\ budget' = budget /\ chunks' = chunks
      /\ phase' \in {"reads", "done"}
      /\ Block \in 1..CHUNK /\ Block <= OVERLAP /\ budget \in BOOLEAN
      /\ calls \in Nat /\ requested \in Nat /\ chunks \in Nat
  BY BlockType, ReadTypes, SizesType DEF Leaves, IsTail, IInv, TypeOK
<1>2. base # Start(range)
  BY <1>1, FirstIsNoTail, SizesType DEF IInv
<1>3. TheTickIsShared'
  BY <1>1, ReadIsShared
<1>4. ASSUME phase' = "reads" PROVE Counted'
  <2>1. base' = Start(range')
    BY <1>4 DEF Leaves, Start
  <2>2. calls' = calls + 1 /\ requested' = requested + Block /\ Counted
    BY <1>1 DEF ReadBlock, SharedInv
  <2> QED
    BY <1>1, <1>2, <2>1, <2>2, SizesType, CountsType DEF Counted
<1> QED
  BY <1>1, <1>3, <1>4 DEF SharedInv

LEMMA NextShares == IInv /\ SharedInv /\ [Next]_vars => SharedInv'
<1> SUFFICES ASSUME IInv, SharedInv, [Next]_vars PROVE SharedInv'
  OBVIOUS
<1>1. CASE Player \/ UNCHANGED vars
  BY <1>1 DEF Player, vars, sweep, SharedInv, Counted, TheTickIsShared, Start
<1>2. CASE Stops
  BY <1>2, ReadIsShared DEF Stops, SharedInv
<1>3. CASE GoesOn
  BY <1>3, GoesOnShares
<1>4. CASE Leaves
  BY <1>4, LeavesShares
<1>5. CASE GivesTheTickBack
  <2>1. /\ calls' = 0 /\ requested' = 0 /\ phase' = "reads" /\ budget' = budget
        /\ range' = range /\ base' = base /\ chunks' = chunks /\ chunks \in Nat
    BY <1>5, SizesType DEF GivesTheTickBack, IInv, TypeOK
  <2> QED
    BY <2>1, SizesType, CountsType DEF SharedInv, Counted, TheTickIsShared, Start
<1> QED
  BY <1>1, <1>2, <1>3, <1>4, <1>5 DEF Next, Sweep

\* No tick is kept past its count, by more than the last words of a range, for
\* any ranges and in both builds (scan.rs:75).
THEOREM TicksAreShared == Spec => []TheTickIsShared
<1>1. Init => SharedInv
  BY SizesType, CountsType DEF Init, SharedInv, Counted, TheTickIsShared, Start
<1>2. SharedInv => TheTickIsShared
  BY DEF SharedInv
<1> QED
  BY <1>1, <1>2, IInvHolds, NextShares, PTL DEF Spec

=============================================================================
