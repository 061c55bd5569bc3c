------------------------------ MODULE MCOwners ------------------------------
(***************************************************************************)
(* Two processes of two builds, at two addresses.                          *)
(***************************************************************************)
EXTENDS OwnersProps

MCBuild == {1, 2}
MCOffset == [b \in MCBuild |-> b]
MCBase == {10, 20}

=============================================================================
