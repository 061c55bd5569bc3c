----------------------------- MODULE FinishLine -----------------------------
(***************************************************************************)
(* What the policy promises about the end of a run, in three variables:    *)
(* a run ends once, and from then on it cannot be reset, split or moved    *)
(* in time, until another run is dated.                                    *)
(*                                                                         *)
(* "A finished run must survive its own end" (src/core/policy.rs): game    *)
(* over and the loss of the player both come after the elevator.           *)
(***************************************************************************)
EXTENDS Integers

CONSTANT None

VARIABLES
  over,    \* the run is finished
  mark,    \* the time it ended at, or None
  out      \* what was ordered: the flags reset, start, split, and the time

vars == <<over, mark, out>>

Orders ==
  [reset : BOOLEAN, start : BOOLEAN, split : BOOLEAN, time : Int \cup {None}]

Silent(o) == ~ o.reset /\ ~ o.start /\ ~ o.split

Init ==
  /\ over = FALSE
  /\ mark = None
  /\ out = [reset |-> FALSE, start |-> FALSE, split |-> FALSE, time |-> None]

\* A run that goes on: anything may be ordered, never a split with a restart.
GoOn ==
  /\ ~ over /\ ~ over'
  /\ mark' = None
  /\ out' \in Orders
  /\ out'.split => ~ out'.reset /\ ~ out'.start

\* The elevator: the time of the end is the one that is published, and the
\* order is to split, unless the timer has just been started.
Finish ==
  /\ ~ over /\ over'
  /\ out' \in Orders
  /\ out'.time = mark'
  /\ ~ out'.reset
  /\ out'.split => ~ out'.start

\* A finished run: nothing is ordered, and the time stands still.
Rest ==
  /\ over /\ over'
  /\ mark' = mark
  /\ out' \in Orders
  /\ Silent(out')
  /\ mark # None => out'.time \in {None, mark}

\* Another run is dated: the last one is over and done with.
NewRun ==
  /\ over /\ ~ over'
  /\ mark' = None
  /\ out' \in Orders
  /\ out'.time # None
  /\ out'.split => ~ out'.reset /\ ~ out'.start

\* Another run is dated on the very read that ends it.
Overtake ==
  /\ over /\ over'
  /\ out' \in Orders
  /\ out'.time = mark' /\ mark' # None
  /\ ~ out'.reset
  /\ out'.split => ~ out'.start

Next == GoOn \/ Finish \/ Rest \/ NewRun \/ Overtake

Spec == Init /\ [][Next]_vars

=============================================================================
