------------------------------ MODULE MCRestore ------------------------------
(* Small instances of Restore. *)
EXTENDS Restore
=============================================================================
