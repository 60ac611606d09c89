----------------------------- MODULE NumberedLog -----------------------------
(***************************************************************************)
(* What the logging pipeline promises the reader of a log directory: each   *)
(* backup set owns one sequence of numbers without gaps; a number gets one  *)
(* outcome, a whole log file or a failure, and keeps it.                    *)
(***************************************************************************)
EXTENDS Naturals

CONSTANT Sets   \* backup sets

VARIABLES
  issued,   \* how many numbers each set has issued
  written,  \* numbers with a whole log file
  failed,   \* numbers given up
  closed    \* logging has ended, pending numbers may stay without outcome

vars == <<issued, written, failed, closed>>

Pending(m) == m[2] < issued[m[1]] /\ m \notin written \cup failed

Init ==
  /\ issued = [s \in Sets |-> 0]
  /\ written = {}
  /\ failed = {}
  /\ closed = FALSE

Issue(s) ==
  /\ issued' = [issued EXCEPT ![s] = @ + 1]
  /\ UNCHANGED <<written, failed, closed>>

Write(m) ==
  /\ Pending(m)
  /\ written' = written \cup {m}
  /\ UNCHANGED <<issued, failed, closed>>

Fail(m) ==
  /\ Pending(m)
  /\ failed' = failed \cup {m}
  /\ UNCHANGED <<issued, written, closed>>

Close == closed' = TRUE /\ UNCHANGED <<issued, written, failed>>

Settle(s, n) == Write(<<s, n>>) \/ Fail(<<s, n>>)

Next ==
  \/ \E s \in Sets : Issue(s) \/ \E n \in 0 .. (issued[s] - 1) : Settle(s, n)
  \/ Close

Spec == Init /\ [][Next]_vars
=============================================================================
