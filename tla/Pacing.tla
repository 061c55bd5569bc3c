------------------------------- MODULE Pacing -------------------------------
(***************************************************************************)
(* When the loop may scan the whole heap again (src/core/pacing.rs), in    *)
(* the loop that asks (run of src/lib.rs).                                 *)
(*                                                                         *)
(* One step is one turn of the loop on one process.  A turn that holds a   *)
(* game reads it.  A turn that holds none tries the fast path, then asks   *)
(* the pacing for a scan.  The policy answers every turn without a read,   *)
(* and every turn on a dead game, with the order to drop the game.         *)
(***************************************************************************)
EXTENDS Integers

CONSTANTS
  MIN_WAIT,        \* turns to wait after the first scan that finds nothing
  MAX_WAIT,        \* the ceiling on that wait
  GROWTH,          \* heap growth that cancels a wait
  LOADING_WINDOW,  \* turns a loading window stays open after a growth
  LOADING_WAIT,    \* the wait after a failure while the window is open
  Heaps            \* the sizes of the heap

ASSUME PacingAssumption ==
  /\ MIN_WAIT \in Nat \ {0} /\ MAX_WAIT \in Nat /\ MIN_WAIT <= MAX_WAIT
  /\ GROWTH \in Nat
  /\ LOADING_WINDOW \in Nat \ {0}
  /\ LOADING_WAIT \in Nat /\ LOADING_WAIT <= MAX_WAIT
  /\ Heaps \subseteq Nat

VARIABLES
  wait,          \* turns left before a scan is allowed again
  next_wait,     \* the wait the next failure will set
  heap,          \* the size of the heap at the last scan
  loading,       \* turns left in the loading window
  holds_a_game,  \* is a game held since it was found?
  game,          \* does the loop hold a game?
  \* What happened, for the properties only:
  refused,       \* turns refused since a scan, or a game, in a row
  bought,        \* the wait the last failure bought out of a loading window
                 \* since a game, or 0
  spacing        \* the wait owed after the last failed scan, or 0

pacing == <<wait, next_wait, heap, loading, holds_a_game>>
history == <<refused, bought, spacing>>
pacing_vars == <<pacing, game, history>>

\* A process that has just appeared has no history.
PacingInit ==
  /\ wait = 0
  /\ next_wait = MIN_WAIT
  /\ heap = 0
  /\ loading = 0
  /\ holds_a_game = FALSE
  /\ game = FALSE
  /\ refused = 0
  /\ bought = 0
  /\ spacing = 0

-----------------------------------------------------------------------------

\* Mutant: the wait has no ceiling.
NoLeast(a, b) == a

Least(a, b) == IF a <= b THEN a ELSE b

Grown(size) == size > heap + GROWTH

\* The first measure is not a growth: there was nothing before it.
OpensTheWindow(size) == Grown(size) /\ heap > 0

NextLoading(size) ==
  IF OpensTheWindow(size) THEN LOADING_WINDOW
  ELSE IF loading > 0 THEN loading - 1 ELSE 0

MustWait(size) == wait > 0 /\ ~ Grown(size)

\* Mutant: the pacing is not told of a game that is found.
KeepUntold(next) ==
  game' = TRUE /\ next_wait' = next /\ UNCHANGED <<wait, holds_a_game>>

\* The turn keeps the game it holds or has found.
Keep(next) ==
  /\ game' = TRUE
  /\ holds_a_game' = TRUE
  /\ next_wait' = next
  /\ UNCHANGED wait

\* Mutant: every turn without a game loses one.
DropAlways(held, left, next) ==
  /\ game' = FALSE /\ holds_a_game' = FALSE
  /\ wait' = 0 /\ next_wait' = MIN_WAIT

\* Mutant: a loss keeps the wait.
DropWaiting(held, left, next) ==
  /\ game' = FALSE /\ holds_a_game' = FALSE
  /\ wait' = left
  /\ next_wait' = IF held THEN MIN_WAIT ELSE next

\* The policy drops the resolution.  Only a game held can be lost, and it
\* is: the wait and its growth start again.
Drop(held, left, next) ==
  /\ game' = FALSE
  /\ holds_a_game' = FALSE
  /\ wait' = IF held THEN 0 ELSE left
  /\ next_wait' = IF held THEN MIN_WAIT ELSE next

\* A game that was just found: the next failure waits the least again.
Found == Keep(MIN_WAIT) \/ Drop(TRUE, wait, MIN_WAIT)

\* A game held or found, or another process: nothing is owed any more.
NoDebt == refused' = 0 /\ bought' = 0 /\ spacing' = 0

\* The loop holds a game, and reads it.
ReadHeld ==
  /\ game
  /\ \/ UNCHANGED <<wait, next_wait, holds_a_game, game>>
     \/ Drop(holds_a_game, wait, next_wait)
  /\ NoDebt
  /\ UNCHANGED <<heap, loading>>

\* The game is found by way of the GameManager, without a scan.
FastPath ==
  /\ ~ game
  /\ Found
  /\ NoDebt
  /\ UNCHANGED <<heap, loading>>

\* Mutant: a refusal does not spend the wait (and is counted up to two).
RefuseForNothing(size) ==
  /\ ~ game
  /\ MustWait(size)
  /\ loading' = NextLoading(size)
  /\ Drop(holds_a_game, wait, next_wait)
  /\ refused' = 1 + (refused % 2)
  /\ UNCHANGED <<heap, bought, spacing>>

\* may_scan says no, and spends one turn of the wait.
Refuse(size) ==
  /\ ~ game
  /\ MustWait(size)
  /\ loading' = NextLoading(size)
  /\ Drop(holds_a_game, wait - 1, next_wait)
  /\ refused' = refused + 1
  /\ UNCHANGED <<heap, bought, spacing>>

\* may_scan says yes.
Scan(size) ==
  /\ ~ game
  /\ ~ MustWait(size)
  /\ heap' = size
  /\ loading' = NextLoading(size)

ScanFinds(size) ==
  /\ Scan(size)
  /\ Found
  /\ NoDebt

\* Mutant: a failure waits no longer than the one before.
SameWait == next_wait

\* The wait of the failure after the next one.
LongerWait == Least(next_wait * 2, MAX_WAIT)

\* What the spec says a failure buys, after one that bought b: 20 ticks,
\* then 40, then 60 (resolution-pacing.md:45).
Buys(b) ==
  IF b = 0 THEN MIN_WAIT ELSE IF 2 * b > MAX_WAIT THEN MAX_WAIT ELSE 2 * b

\* A failure buys a wait: short in a loading window, else longer each time.
ScanFails(size) ==
  /\ Scan(size)
  /\ IF NextLoading(size) > 0
     THEN /\ Drop(holds_a_game, LOADING_WAIT, next_wait)
          /\ spacing' = LOADING_WAIT
          /\ UNCHANGED bought
     ELSE /\ Drop(holds_a_game, next_wait, LongerWait)
          /\ bought' = Buys(bought)
          /\ spacing' = bought'
  /\ refused' = 0

\* The process closes, and the loop runs on another one.
NewProcess ==
  /\ wait' = 0 /\ next_wait' = MIN_WAIT /\ heap' = 0 /\ loading' = 0
  /\ holds_a_game' = FALSE /\ game' = FALSE
  /\ NoDebt

Turn ==
  \/ ReadHeld
  \/ FastPath
  \/ \E size \in Heaps : Refuse(size) \/ ScanFinds(size) \/ ScanFails(size)

PacingNext == Turn \/ NewProcess

PacingSpec == PacingInit /\ [][PacingNext]_pacing_vars

\* The loop turns as long as its process is open, and a process stays open.
FairPacingSpec == PacingSpec /\ WF_pacing_vars(Turn) /\ <>[][Turn]_pacing_vars

=============================================================================
