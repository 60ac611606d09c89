----------------------------- MODULE MCLifecycle -----------------------------
(* A small instance of Lifecycle: two functions in an address space of 64     *)
(* bytes. The first jumps out, to the byte behind its end and back to its     *)
(* start; the second lies where its copy's distances wrap around, and refers  *)
(* to data outside and inside itself.                                         *)
EXTENDS Lifecycle

MCBase     == <<8, 40>>
MCCopyBase == <<48, 2>>
MCCode ==
  << << [at |-> 0, len |-> 5, kind |-> "jump", to |-> 30],
        [at |-> 5, len |-> 5, kind |-> "jump", to |-> 22],
        [at |-> 10, len |-> 4, kind |-> "jump", to |-> 8] >>,
     << [at |-> 0, len |-> 4, kind |-> "plain", to |-> 0],
        [at |-> 4, len |-> 5, kind |-> "rip", to |-> 3],
        [at |-> 9, len |-> 5, kind |-> "rip", to |-> 41],
        [at |-> 14, len |-> 5, kind |-> "branch", to |-> 44] >> >>
=============================================================================
