------------------------------ MODULE MCPolicy ------------------------------
(***************************************************************************)
(* A small instance of the open policy: three levels in two worlds, clocks *)
(* of one or two units on each side of every threshold.                    *)
(***************************************************************************)
EXTENDS PolicyProps

MCWorld == {"adventure", "deepnight"}

MCLevels ==
  {[world |-> "adventure", id |-> 0], [world |-> "adventure", id |-> 1],
   [world |-> "deepnight", id |-> 0]}

\* A game that is over decides nothing by its other fields.  The game clock
\* runs ahead of the duration, and a locked game shows the first level.
MCReads ==
  {r \in [level : MCLevels, chrono : {0, 3}, frame : {1, 2},
          gameOver : BOOLEAN, locked : BOOLEAN, duration : {0, 1},
          remaining : {0, 3}] :
     /\ r.duration = 1 => r.chrono = 3
     /\ r.locked => r.level = [world |-> "adventure", id |-> 0]
     /\ r.gameOver => /\ r.level = [world |-> "adventure", id |-> 0]
                      /\ r.chrono = 0 /\ r.frame = 1
                      /\ ~ r.locked /\ r.remaining = 0}

=============================================================================
