-------------------------- MODULE MCMonitorRegistry --------------------------
(* Small instances of the registry: the paths /b, /b/x and /b/z. *)
EXTENDS MonitorRegistry

MCPaths  == 1 .. 3
MCPrefix == {<<1, 2>>, <<1, 3>>}
=============================================================================
