---------------------------- MODULE MCPirDriver ----------------------------
(* PirDriver with one thread that calls run(), as in the program. *)
EXTENDS PirDriver

CONSTANT r1

MCOneRunner == {r1}
MCAllFailures == {"read", "edges", "wait", "input"}
=============================================================================
