---------------------------- MODULE MCUserLibrary ----------------------------
(* A small instance of UserLibrary: three initialisations let a re-          *)
(* initialisation fail while an older thread still runs, and a third one     *)
(* succeed; two messages overflow a buffer of one.                           *)
EXTENDS UserLibrary
=============================================================================
