---------------------------- MODULE SearchProps -----------------------------
(***************************************************************************)
(* What the search promises: a game that runs is found, whatever the loads *)
(* before it left in memory (docs/internals/finding-the-game.md).          *)
(***************************************************************************)
EXTENDS Search

\* The anchor and the loop keep their types, and the counters of struct
\* Anchor stay below their limits.
TypeOK ==
  /\ live \in Load \cup {None}
  /\ mode \in [Load -> {"unborn", "null", "menu", "game", "junk", "unmapped"}]
  /\ home \in [Load -> Region]
  /\ size \in [Region -> 0..MAX_SIZE]
  /\ manager \in Load \cup {None} /\ manager_proven \in BOOLEAN
  /\ manager_idle \in 0..(MANAGER_IDLE_LIMIT - 1)
  /\ regions \in [Region -> 0..MAX_SIZE] /\ sweeps \in 0..(FULL_SWEEP - 1)
  /\ cache \in [Key -> Load \cup {None}]
  /\ held \in Load \cup {None} /\ declared \in Load \cup {None}
  /\ sweep \subseteq Region /\ before \subseteq Load
  /\ missed \in Nat

\* In memory that no longer changes, and where no dead game is readable, a
\* running game is missed by the sweep under way when it appeared, by one
\* sweep of the regions that had changed, and by the attempts skipped until
\* the whole heap is read: never by more.
FoundWithinAFullSweep == missed <= FULL_SWEEP + 1

\* A game that goes on running is found, and found again whenever it is
\* lost, once the heap no longer changes.  A heap in which some region
\* changes before every attempt never brings the whole sweep.
FindsTheGame ==
  \A i \in Load :
    <>[](live = i /\ mode[i] = "game") /\ <>[][UNCHANGED size]_vars
    => []<>(held = i)

\* "A wrong anchor -- or simply one we cannot use -- must not be able to block
\* all detection on its own" (hammerfest.rs:83): while a game runs, it is
\* held or looked for.  A proven GameManager whose memory no longer answers
\* is neither dropped, since is_object says nothing of it, nor doubted.
AnAnchorNeverBlinds ==
  \A i \in Load :
    <>[](live = i /\ mode[i] = "game") /\ <>[][UNCHANGED size]_vars
    => []<>(held = i \/ sweep # {})

=============================================================================
