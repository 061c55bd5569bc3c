----------------------------- MODULE ScansProps -----------------------------
(***************************************************************************)
(* What a sweep promises to the searches (src/reader/scan.rs).             *)
(***************************************************************************)
EXTENDS Scans

TypeOK ==
  /\ budget \in BOOLEAN
  /\ kept \subseteq there
  /\ shrunk \subseteq DOMAIN Ranges
  /\ range \in DOMAIN Ranges
  /\ base \in Start(range)..(End(range) - 1)
  /\ chunks \in 0..(CHUNKS_PER_TICK - 1)
  /\ calls \in Nat /\ requested \in Nat
  /\ phase \in {"reads", "waits", "done", "stopped"}

\* What stays in place during the whole sweep, in a range that stays whole,
\* is met, wherever the edges of the blocks fall, whatever the player writes
\* and gives back elsewhere, and whichever the ticks between the blocks.
WhatStaysIsMet ==
  phase = "done" =>
    \A p \in kept, r \in DOMAIN Ranges \ shrunk :
      Within(p, Start(r), End(r)) => p \in met

\* The tick is given back in time: the last words of a range are a read that
\* no count is compared with, so there may be two reads for one counted.
TheTickIsShared ==
  IF budget
  THEN calls <= READS_PER_TICK + 1 /\ requested < WORDS_PER_TICK + CHUNK + OVERLAP
  ELSE calls <= 2 * CHUNKS_PER_TICK + 1

\* A sweep ends, whatever the player does to what it reads.
SweepEnds == <>(phase \in {"done", "stopped"})

\* "Overlap between two blocks, so a pattern across the edge is not missed"
\* (scan.rs:16): at least in memory that does not change.  A linear memory is
\* handed over as blocks that follow each other, and those have no overlap.
NothingIsMissedAtAnEdge ==
  phase = "done" /\ shrunk = {} => kept \subseteq met

=============================================================================
