---------------------------- MODULE MCTempFiles ----------------------------
(* TempFiles for TLC: request 1 is from before, and its file is out of reach. *)
EXTENDS TempFiles

=============================================================================
