--------------------------- MODULE MCTaskProcess ---------------------------
(* TaskProcess with and without exceptions. *)
EXTENDS TaskProcess

MCAllFailures == {"dispatch", "thread"}
=============================================================================
