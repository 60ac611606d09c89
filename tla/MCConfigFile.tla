----------------------------- MODULE MCConfigFile -----------------------------
(* Two backup sets, the first with an item, which is longer than a set, so that*)
(* an entry written at another's offset is seen.                              *)
EXTENDS ConfigFile, TLC

MCSetOf == 3 :> 1
=============================================================================
