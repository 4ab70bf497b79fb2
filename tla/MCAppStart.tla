----------------------------- MODULE MCAppStart -----------------------------
(* App::run() with the four processes of app.cpp:29-34. *)
EXTENDS AppStart

MCTasks == 4
=============================================================================
