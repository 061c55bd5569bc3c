------------------------------- MODULE Scans --------------------------------
(***************************************************************************)
(* One sweep of a list of ranges (src/reader/scan.rs, and scan_atoms of    *)
(* pepper_flash.rs): blocks that overlap, and ticks given back.            *)
(*                                                                         *)
(* Addresses are counted in the words the sweep looks at: ranges, blocks   *)
(* and their overlap are whole numbers of them.  What is looked for takes  *)
(* LENGTH words: one, a pointer and the length that follows it, a string.  *)
(* The player runs all along, and a range may shrink.                      *)
(***************************************************************************)
EXTENDS Integers, Sequences, FiniteSets

CONSTANTS
  Ranges,           \* the ranges, as the list has them: <<start, end>>
  LENGTH,           \* words of what is looked for
  CHUNK,            \* words of a block
  OVERLAP,          \* words two blocks have in common
  CHUNKS_PER_TICK,  \* blocks before the tick is given back
  READS_PER_TICK,   \* with the budget: reads
  WORDS_PER_TICK,   \* with the budget: words
  MAX_THERE         \* bound: places that hold what is looked for

Start(r) == Ranges[r][1]
End(r) == Ranges[r][2]

ASSUME ScansAssumption ==
  /\ {LENGTH, CHUNK, OVERLAP, CHUNKS_PER_TICK, READS_PER_TICK,
      WORDS_PER_TICK} \subseteq Nat \ {0}
  /\ MAX_THERE \in Nat
  /\ OVERLAP < CHUNK /\ LENGTH <= OVERLAP + 1
  /\ Ranges \in Seq(Nat \X Nat) /\ Ranges # <<>>
  \* A range is made of pages.
  /\ \A r \in DOMAIN Ranges : End(r) - Start(r) > OVERLAP

VARIABLES
  budget,     \* the build: is the tick shared by volume, or by blocks?
  there,      \* the places that hold what is looked for
  kept,       \* those that held it since the sweep started
  shrunk,     \* the ranges whose end was given back
  range,      \* the range that is swept
  base,       \* the next block
  chunks,     \* blocks read, up to a multiple of CHUNKS_PER_TICK
  calls,      \* reads since the tick was given back
  requested,  \* words since then
  met,        \* the places on_hit was called for
  phase       \* "reads", "waits" for the tick, or how the sweep ended

memory == <<there, kept, shrunk>>
sweep == <<range, base, chunks, calls, requested, met, phase>>
vars == <<budget, memory, sweep>>

\* From p, what is looked for lies whole between these two addresses.
Within(p, from, to) == from <= p /\ p + LENGTH <= to

Words == UNION {Start(r)..(End(r) - 1) : r \in DOMAIN Ranges}
Places == {p \in Words : p..(p + LENGTH - 1) \subseteq Words}

Init ==
  /\ budget \in BOOLEAN
  /\ there \in {set \in SUBSET Places : Cardinality(set) <= MAX_THERE}
  /\ kept = there
  /\ shrunk = {}
  /\ range = 1 /\ base = Start(1)
  /\ chunks = 0
  /\ calls = 0 /\ requested = 0
  /\ met = {}
  /\ phase = "reads"

-----------------------------------------------------------------------------
(* The player: external *)

Written(p) ==
  /\ Cardinality(there) < MAX_THERE
  /\ there' = there \cup {p}
  /\ UNCHANGED <<kept, shrunk>>

Erased(p) ==
  /\ there' = there \ {p} /\ kept' = kept \ {p}
  /\ UNCHANGED shrunk

Shrinks(r) ==
  /\ shrunk' = shrunk \cup {r}
  /\ UNCHANGED <<there, kept>>

Player ==
  /\ \/ \E p \in Places \ there : Written(p)
     \/ \E p \in there : Erased(p)
     \/ \E r \in DOMAIN Ranges \ shrunk : Shrinks(r)
  /\ UNCHANGED <<budget, sweep>>

-----------------------------------------------------------------------------
(* The sweep *)

\* Mutant: the last block is as long as the others.
WholeBlock == CHUNK

Block == LET left == End(range) - base IN IF left < CHUNK THEN left ELSE CHUNK

\* A read that meets a word that is gone fails whole.
Answers == base + Block < End(range) \/ range \notin shrunk

Hits ==
  IF Answers THEN {p \in there : Within(p, base, base + Block)} ELSE {}

\* Mutant: the next block starts one word too far.
StepTooFar(n) == n + 1 - OVERLAP

\* The next block starts in the last words of this one.
Step(n) == n - OVERLAP

\* Mutant: a block as long as the overlap is no tail.
IsShort(n) == n < OVERLAP

\* What is left lies in the last block.
IsTail(n) == n <= OVERLAP

\* Mutant: the volume alone is counted.
YieldsOnVolume(chunk) ==
  IF budget THEN requested' >= WORDS_PER_TICK ELSE chunk = 0

ShouldYield(chunk) ==
  IF budget THEN requested' >= WORDS_PER_TICK \/ calls' >= READS_PER_TICK
  ELSE chunk = 0

ReadBlock ==
  /\ phase = "reads"
  /\ met' = met \cup Hits
  /\ calls' = calls + 1 /\ requested' = requested + Block
  /\ UNCHANGED <<budget, memory>>

\* on_hit has what it looked for, or as many as it asked for.
Stops ==
  /\ ReadBlock
  /\ Hits # {}
  /\ phase' = "stopped"
  /\ UNCHANGED <<range, base, chunks>>

\* The next block of this range, in this tick or in the next one.
GoesOn ==
  /\ ReadBlock
  /\ ~ IsTail(Block)
  /\ base' = base + Step(Block)
  /\ chunks' = (chunks + 1) % CHUNKS_PER_TICK
  /\ phase' = IF ShouldYield(chunks') THEN "waits" ELSE "reads"
  /\ UNCHANGED range

\* The end of this range.
Leaves ==
  /\ ReadBlock
  /\ IsTail(Block)
  /\ IF range < Len(Ranges)
     THEN range' = range + 1 /\ base' = Start(range + 1) /\ phase' = "reads"
     ELSE UNCHANGED <<range, base>> /\ phase' = "done"
  /\ UNCHANGED chunks

\* The tick is given back: the runtime polls once, and the sweep goes on.
GivesTheTickBack ==
  /\ phase = "waits"
  /\ calls' = 0 /\ requested' = 0
  /\ phase' = "reads"
  /\ UNCHANGED <<budget, memory, range, base, chunks, met>>

Sweep == Stops \/ GoesOn \/ Leaves \/ GivesTheTickBack

Next == Player \/ Sweep

Spec == Init /\ [][Next]_vars

\* The loop polls the sweep at every tick.
FairSpec == Spec /\ WF_vars(Sweep)

-----------------------------------------------------------------------------
(* Ranges *)

\* A linear memory is cut into blocks of so many words.
BlocksOf(committed, size) ==
  [b \in 1..((committed + size - 1) \div size) |->
     <<(b - 1) * size, IF b * size < committed THEN b * size ELSE committed>>]

=============================================================================
