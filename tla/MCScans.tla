------------------------------ MODULE MCScans -------------------------------
(***************************************************************************)
(* Small instances of a sweep.                                             *)
(***************************************************************************)
EXTENDS ScansProps

\* A range of many blocks, and two of one block and its tail.
MCRanges == << <<0, 10>>, <<12, 15>>, <<17, 20>> >>

\* A linear memory of two blocks and a half.
MCBlocks == BlocksOf(15, 6)

=============================================================================
