----------------------------- MODULE MCWatchDog -----------------------------
(* WatchDog with a duration of three ticks, any call failing. *)
EXTENDS WatchDog

MCAllFailures == {"send", "spawn"}
=============================================================================
