------------------------------ MODULE MCPathTree ------------------------------
(* A small instance: the paths /b, /b/x, /b/x/y, /b/z and /c. *)
EXTENDS PathTree

MCPaths  == 1 .. 5
MCPrefix == {<<1, 2>>, <<1, 3>>, <<1, 4>>, <<2, 3>>}
=============================================================================
