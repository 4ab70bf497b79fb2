--------------------------- MODULE MCTimerService ---------------------------
(* TimerService on a small instance: two messages, any call failing. *)
EXTENDS TimerService

CONSTANTS m1, m2

MCMessage == {m1, m2}
MCAllFailures == {"send", "spawn"}
=============================================================================
