------------------------------ MODULE AppStart ------------------------------
(***************************************************************************)
(* App::run() of core/app/app.cpp with Process::spawn() of                 *)
(* infra/process/process.cpp: one process per task is forked, in order.    *)
(* fork() copies the caller, place in the loop included; what keeps the    *)
(* copy out of the loop is that spawn() never returns in it.               *)
(*                                                                         *)
(* A process is a record of the sequence procs and its pid is its index;   *)
(* procs[App] is the one main() called App::run() in.  What a child's      *)
(* Process::run() does is TaskProcess; here it may return, throw or go on. *)
(***************************************************************************)
EXTENDS Integers, Sequences

CONSTANT Tasks      \* how many processes App::run() is to start
ASSUME TasksAssumption == Tasks \in Nat \ {0}

App == 1

VARIABLE procs
vars == <<procs>>

Places == {"spawn", "priority", "returned", "threw", "run", "exit0", "exit1"}
Process == [place : Places, at : 1..(Tasks + 1), pid : Int]

Children == (DOMAIN procs) \ {App}

Init == procs = <<[place |-> "spawn", at |-> 1, pid |-> 0]>>

-----------------------------------------------------------------------------
\* fork() succeeds: the child is a copy of the caller and goes to run().
Fork(p) ==
    /\ procs[p].place = "spawn"
    /\ procs' = Append([procs EXCEPT ![p].place = "priority", ![p].pid = Len(procs) + 1],
                       [procs[p] EXCEPT !.place = "run"])

\* Mutant: App::run() logs the exception and goes on with the next task.
ForkFailsSkips(p) ==
    /\ procs[p].place = "spawn" /\ procs[p].at < Tasks
    /\ procs' = [procs EXCEPT ![p].at = @ + 1]

\* fork() fails: spawn() throws, and App::run() throws on.
ForkFails(p) ==
    /\ procs[p].place = "spawn"
    /\ procs' = [procs EXCEPT ![p].place = "threw"]

\* spawn() has returned: setpriority(), whose result is not looked at, and the loop
\* goes on.
SetPriority(p) ==
    /\ procs[p].place = "priority"
    /\ procs' = [procs EXCEPT
          ![p].place = IF procs[p].at = Tasks THEN "returned" ELSE "spawn",
          ![p].at = @ + 1]

\* Mutant: spawn() returns in the child too when run() does.
ChildGoesOn(p) ==
    /\ procs[p].place = "run"
    /\ procs' = [procs EXCEPT
          ![p].place = IF procs[p].at = Tasks THEN "returned" ELSE "spawn",
          ![p].at = @ + 1]

\* run() returns or throws in the child, which exits without leaving spawn().
ChildExits(p) ==
    /\ procs[p].place = "run"
    /\ \E code \in {"exit0", "exit1"} : procs' = [procs EXCEPT ![p].place = code]

-----------------------------------------------------------------------------
Next == \E p \in DOMAIN procs :
            Fork(p) \/ ForkFails(p) \/ SetPriority(p) \/ ChildExits(p)

Spec == Init /\ [][Next]_vars

-----------------------------------------------------------------------------
(* Properties *)

\* Every process is at a place of the code; setpriority() is called only with the pid
\* of the child of the task just spawned, never with fork()'s -1 (process.cpp:21-26,
\* app.cpp:38-39).
TypeOK ==
    /\ procs \in Seq(Process)
    /\ \A p \in DOMAIN procs : procs[p].place = "priority" =>
          procs[p].pid \in Children /\ procs[procs[p].pid].at = procs[p].at

\* Only the process that called App::run() is ever in its loop: a child whose run()
\* comes to an end does not start the tasks after its own a second time
\* (process.cpp:28-35, app.cpp:36-41).
OnlyAppSpawns == \A p \in Children : procs[p].place \in {"run", "exit0", "exit1"}

\* The children are the tasks before the one App::run() is at, one each and in order:
\* when a spawn fails, exactly those are left behind (app.cpp:36-41, 45-46).
Spawned == IF procs[App].place = "priority" THEN procs[App].at ELSE procs[App].at - 1

ChildrenArePrefix ==
    /\ Len(procs) = Spawned + 1
    /\ \A p \in Children : procs[p].at = p - 1
=============================================================================
