------------------------------ MODULE MCSearch ------------------------------
(***************************************************************************)
(* A small instance of the search: two regions, two loads of the SWF.      *)
(***************************************************************************)
EXTENDS SearchProps

=============================================================================
