----------------------------- MODULE MCPlayers ------------------------------
(***************************************************************************)
(* A small instance of the choice of a player.                             *)
(***************************************************************************)
EXTENDS PlayersProps

MCExecutables == <<"projector", "ruffle">>

=============================================================================
