------------------------------ MODULE MCReads -------------------------------
(***************************************************************************)
(* One reading of a game of two frames, of Pepper Flash or of Ruffle.      *)
(***************************************************************************)
EXTENDS ReadsProps

=============================================================================
