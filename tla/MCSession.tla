----------------------------- MODULE MCSession ------------------------------
(***************************************************************************)
(* Small instances of a session.                                           *)
(***************************************************************************)
EXTENDS SessionProps

MCWorld == {"adventure"}

\* The reads of a session come from its game, not from this set.
MCReads == {}

=============================================================================
