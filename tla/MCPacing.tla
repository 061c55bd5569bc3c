------------------------------ MODULE MCPacing ------------------------------
(***************************************************************************)
(* A small instance of the pacing: a wait that doubles once before its     *)
(* ceiling, and heaps on both sides of a growth.                           *)
(***************************************************************************)
EXTENDS PacingProps

MCHeaps == 0..7

=============================================================================
