--------------------------- MODULE AppStartProofs ---------------------------
(***************************************************************************)
(* Proofs about AppStart for any number of tasks.                          *)
(***************************************************************************)
EXTENDS AppStart, TLAPS

USE TasksAssumption DEF App, Children

\* What is true of procs[App] besides: it is in the loop or has left it, and its place
\* in the loop goes with it.
AppInLoop ==
    \/ procs[App].place \in {"spawn", "priority", "threw"} /\ procs[App].at \in 1..Tasks
    \/ procs[App].place = "returned" /\ procs[App].at = Tasks + 1

Inductive == procs # <<>> /\ TypeOK /\ OnlyAppSpawns /\ ChildrenArePrefix /\ AppInLoop

\* App::run() begins with one process, at its first task.
LEMMA InitInductive == Init => Inductive
<1> SUFFICES ASSUME Init PROVE Inductive
  OBVIOUS
<1> DEFINE app == [place |-> "spawn", at |-> 1, pid |-> 0]
<1>1. app \in Process /\ app.place = "spawn" /\ app.at = 1
  BY DEF Process, Places
<1>2. procs = <<app>>
  BY DEF Init
<1> HIDE DEF app
<1>3. /\ procs \in Seq(Process) /\ Len(procs) = 1 /\ DOMAIN procs = {1}
      /\ procs[1] = app
  BY <1>1, <1>2
<1>4. TypeOK /\ OnlyAppSpawns /\ procs # <<>>
  BY <1>1, <1>3 DEF TypeOK, OnlyAppSpawns
<1>5. ChildrenArePrefix /\ AppInLoop
  BY <1>1, <1>3 DEF ChildrenArePrefix, Spawned, AppInLoop
<1> QED BY <1>4, <1>5 DEF Inductive

\* fork() in App::run() adds the child of the task it is at, and the child is in run().
LEMMA ForkKeeps == Inductive /\ Fork(App) => Inductive'
<1> SUFFICES ASSUME Inductive, Fork(App) PROVE Inductive'
  OBVIOUS
<1> DEFINE n == Len(procs)
           app == [procs[1] EXCEPT !.place = "priority", !.pid = n + 1]
           child == [procs[1] EXCEPT !.place = "run"]
           parent == [procs EXCEPT ![1] = app]
<1>1. /\ n \in Nat /\ n >= 1 /\ DOMAIN procs = 1..n /\ procs[1] \in Process
      /\ procs \in Seq(Process)
  BY DEF Inductive, TypeOK
<1>2. /\ procs[1].place = "spawn" /\ n = procs[1].at /\ procs[1].at \in 1..Tasks
      /\ \A p \in 2..n : procs[p].at = p - 1 /\ procs[p].place \in {"run", "exit0", "exit1"}
  BY <1>1 DEF Fork, Inductive, OnlyAppSpawns, ChildrenArePrefix, Spawned, AppInLoop
<1>3. /\ app \in Process /\ app.place = "priority" /\ app.at = n /\ app.pid = n + 1
      /\ child \in Process /\ child.place = "run" /\ child.at = n
  <2>1. n + 1 \in Int
    BY <1>1
  <2> HIDE DEF n
  <2>2. app \in Process /\ app.place = "priority" /\ app.at = n /\ app.pid = n + 1
    BY <1>1, <1>2, <2>1 DEF Process, Places
  <2>3. child \in Process /\ child.place = "run" /\ child.at = n
    BY <1>1, <1>2 DEF Process, Places
  <2> QED BY <2>2, <2>3
<1>4. procs' = Append(parent, child)
  BY <1>1 DEF Fork, Process
<1> HIDE DEF app, child
<1>5. parent \in Seq(Process) /\ Len(parent) = n /\ DOMAIN parent = 1..n
      /\ parent[1] = app /\ \A p \in 2..n : parent[p] = procs[p]
  BY <1>1, <1>3
<1> HIDE DEF parent
<1>6. /\ procs' \in Seq(Process) /\ Len(procs') = n + 1 /\ DOMAIN procs' = 1..(n + 1)
      /\ procs'[1] = app /\ procs'[n + 1] = child
      /\ \A p \in 2..n : procs'[p] = procs[p]
  BY <1>1, <1>3, <1>4, <1>5
<1> HIDE DEF n
<1>7. \A p \in 2..(n + 1) :
          procs'[p].at = p - 1 /\ procs'[p].place \in {"run", "exit0", "exit1"}
  <2> SUFFICES ASSUME NEW p \in 2..(n + 1)
               PROVE  procs'[p].at = p - 1 /\ procs'[p].place \in {"run", "exit0", "exit1"}
    OBVIOUS
  <2>1. CASE p \in 2..n BY <1>2, <1>6, <2>1
  <2>2. CASE p = n + 1 BY <1>1, <1>3, <1>6, <2>2
  <2> QED BY <1>1, <2>1, <2>2
<1>8. procs' # <<>> /\ TypeOK'
  BY <1>1, <1>3, <1>6, <1>7 DEF TypeOK
<1>9. OnlyAppSpawns' /\ ChildrenArePrefix' /\ AppInLoop'
  BY <1>1, <1>2, <1>3, <1>6, <1>7 DEF OnlyAppSpawns, ChildrenArePrefix, Spawned, AppInLoop
<1> QED BY <1>8, <1>9 DEF Inductive

\* The other steps of App::run() change its own record only, to leave the loop or to go
\* on to the next task.
LEMMA AppGoesOn ==
    ASSUME Inductive, NEW r \in Process,
           procs' = [procs EXCEPT ![App] = r],
           \/ /\ procs[App].place = "spawn"
              /\ r.place = "threw" /\ r.at = procs[App].at
           \/ /\ procs[App].place = "priority"
              /\ r.place = IF procs[App].at = Tasks THEN "returned" ELSE "spawn"
              /\ r.at = procs[App].at + 1
    PROVE  Inductive'
<1>1. /\ Len(procs) \in Nat /\ DOMAIN procs = 1..Len(procs) /\ Len(procs) >= 1
      /\ procs \in Seq(Process)
  BY DEF Inductive, TypeOK
<1>2. /\ procs' \in Seq(Process) /\ Len(procs') = Len(procs) /\ DOMAIN procs' = DOMAIN procs
      /\ procs'[1] = r /\ \A p \in Children : procs'[p] = procs[p]
  BY <1>1
<1>3. /\ procs[1].at \in 1..Tasks
      /\ \A p \in Children : procs[p].place \in {"run", "exit0", "exit1"} /\ procs[p].at = p - 1
  BY DEF Inductive, OnlyAppSpawns, ChildrenArePrefix, AppInLoop
<1>4. Len(procs) = Spawned + 1
  BY DEF Inductive, ChildrenArePrefix
<1>5. r.place \in {"threw", "returned", "spawn"} /\ Spawned' = Spawned
  BY <1>2, <1>3 DEF Spawned
<1>6. TypeOK' /\ procs' # <<>>
  BY <1>1, <1>2, <1>3, <1>5 DEF TypeOK
<1>7. OnlyAppSpawns' /\ ChildrenArePrefix'
  BY <1>1, <1>2, <1>3, <1>4, <1>5 DEF OnlyAppSpawns, ChildrenArePrefix
<1>8. AppInLoop'
  BY <1>2, <1>3 DEF AppInLoop
<1> QED BY <1>6, <1>7, <1>8 DEF Inductive

\* A child that ends keeps its record but for its place.
LEMMA ChildEnds ==
    ASSUME Inductive, NEW q \in Children, NEW r \in Process,
           procs' = [procs EXCEPT ![q] = r],
           r.place \in {"exit0", "exit1"}, r.at = procs[q].at
    PROVE  Inductive'
<1>1. /\ Len(procs) \in Nat /\ DOMAIN procs = 1..Len(procs) /\ Len(procs) >= 1
      /\ procs \in Seq(Process)
  BY DEF Inductive, TypeOK
<1>2. /\ procs' \in Seq(Process) /\ Len(procs') = Len(procs) /\ DOMAIN procs' = DOMAIN procs
      /\ procs'[1] = procs[1] /\ procs'[q] = r
      /\ \A p \in Children \ {q} : procs'[p] = procs[p]
  BY <1>1
<1>3. \A p \in Children : procs'[p].at = procs[p].at
        /\ (procs'[p].place = procs[p].place \/ procs'[p].place \in {"exit0", "exit1"})
  BY <1>2
<1>4. TypeOK' /\ procs' # <<>>
  BY <1>1, <1>2, <1>3 DEF Inductive, TypeOK
<1>5. OnlyAppSpawns' /\ ChildrenArePrefix' /\ AppInLoop'
  BY <1>1, <1>2, <1>3 DEF Inductive, OnlyAppSpawns, ChildrenArePrefix, Spawned, AppInLoop
<1> QED BY <1>4, <1>5 DEF Inductive

\* Each step of each process keeps the invariant.
LEMMA NextInductive == Inductive /\ [Next]_vars => Inductive'
<1> SUFFICES ASSUME Inductive, [Next]_vars PROVE Inductive'
  OBVIOUS
<1>1. ASSUME NEW p \in DOMAIN procs, Fork(p) PROVE Inductive'
  BY <1>1, ForkKeeps DEF Fork, Inductive, OnlyAppSpawns
<1>2. ASSUME NEW p \in DOMAIN procs, ForkFails(p) PROVE Inductive'
  <2> DEFINE r == [procs[p] EXCEPT !.place = "threw"]
  <2>1. p = App /\ procs[App].place = "spawn" /\ procs[p] \in Process
    BY <1>2 DEF ForkFails, Inductive, OnlyAppSpawns, TypeOK
  <2>2. r \in Process /\ r.place = "threw" /\ r.at = procs[p].at
    BY <2>1 DEF Process, Places
  <2>3. procs' = [procs EXCEPT ![p] = r]
    BY <1>2, <2>1 DEF ForkFails, Process
  <2> QED BY <2>1, <2>2, <2>3, AppGoesOn
<1>3. ASSUME NEW p \in DOMAIN procs, SetPriority(p) PROVE Inductive'
  <2> DEFINE place == IF procs[p].at = Tasks THEN "returned" ELSE "spawn"
             r == [procs[p] EXCEPT !.place = place, !.at = procs[p].at + 1]
  <2>1. /\ p = App /\ procs[App].place = "priority" /\ procs[p] \in Process
        /\ procs[p].at \in 1..Tasks
    BY <1>3 DEF SetPriority, Inductive, OnlyAppSpawns, TypeOK, AppInLoop
  <2>2. place \in Places /\ procs[p].at + 1 \in 1..(Tasks + 1)
    BY <2>1 DEF Places
  <2>3. procs' = [procs EXCEPT ![p] = r]
    BY <1>3, <2>1 DEF SetPriority, Process
  <2>4. r \in Process /\ r.at = procs[p].at + 1 /\ r.place = place
    BY <2>1, <2>2 DEF Process
  <2> HIDE DEF r
  <2> QED BY <2>1, <2>3, <2>4, AppGoesOn
<1>4. ASSUME NEW p \in DOMAIN procs, ChildExits(p) PROVE Inductive'
  <2>1. PICK code \in {"exit0", "exit1"} : procs' = [procs EXCEPT ![p].place = code]
    BY <1>4 DEF ChildExits
  <2> DEFINE r == [procs[p] EXCEPT !.place = code]
  <2>2. p \in Children /\ procs[p] \in Process
    BY <1>4 DEF ChildExits, Inductive, AppInLoop, TypeOK
  <2>3. r \in Process /\ r.place = code /\ r.at = procs[p].at
    BY <2>2 DEF Process, Places
  <2>4. procs' = [procs EXCEPT ![p] = r]
    BY <2>1, <2>2 DEF Process
  <2> HIDE DEF r
  <2> QED BY <2>2, <2>3, <2>4, ChildEnds
<1>5. CASE UNCHANGED vars
  BY <1>5 DEF vars, Inductive, TypeOK, OnlyAppSpawns, ChildrenArePrefix, Spawned, AppInLoop
<1> QED BY <1>1, <1>2, <1>3, <1>4, <1>5 DEF Next

\* Every process is at a place of the code, and a priority is set only on the child of
\* the task just spawned.
THEOREM TypeCorrect == Spec => []TypeOK
<1>1. Inductive => TypeOK
  BY DEF Inductive
<1> QED BY <1>1, InitInductive, NextInductive, PTL DEF Spec

\* No child is ever in App::run()'s loop.
THEOREM NoChildSpawns == Spec => []OnlyAppSpawns
<1>1. Inductive => OnlyAppSpawns
  BY DEF Inductive
<1> QED BY <1>1, InitInductive, NextInductive, PTL DEF Spec

\* The processes started are one each of the tasks before the one App::run() is at.
THEOREM ChildrenInOrder == Spec => []ChildrenArePrefix
<1>1. Inductive => ChildrenArePrefix
  BY DEF Inductive
<1> QED BY <1>1, InitInductive, NextInductive, PTL DEF Spec
=============================================================================
