------------------------------- MODULE MCIoLog -------------------------------
(* Small instances of the logging pipeline. *)
EXTENDS IoLog

(* One set; the item of the small instance, and a second, orphaned one. *)
MCOneItem  == {"i1"}
MCTwoItems == {"i1", "i2"}
MCSetOf    == [i \in Items |-> "s1"]

MCOps    == AllOps

(* A path that cannot be computed is left to the hooks' run, dropped messages *)
(* to the tasks'.                                                             *)
MCTaskFaults == AllFaults \ {"path"}
MCFaults     == AllFaults \ {"message"}
=============================================================================
