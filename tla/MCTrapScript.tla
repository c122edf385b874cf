---------------------------- MODULE MCTrapScript ----------------------------
(* Two files, either of which may be new.                                  *)
EXTENDS TrapScript

CONSTANTS p1, p2

MCPaths == {p1, p2}
=============================================================================
