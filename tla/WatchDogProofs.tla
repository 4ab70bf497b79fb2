--------------------------- MODULE WatchDogProofs ---------------------------
(***************************************************************************)
(* Proofs about WatchDog for every duration and any failures: when the dog *)
(* may bark, how long its calls take, and how soon a hang is reported.     *)
(***************************************************************************)
EXTENDS WatchDog, TLAPS

LEMMA DurationPositive == Duration \in Nat /\ Duration > 0
BY DurationAssumption

USE DurationPositive

LEMMA LongAgoIsLater == LongAgo \in Nat /\ LongAgo > 2 * Duration
BY DEF LongAgo

Busy == todo # <<>>

\* What is left of a call is one of start(), stop() and kick(), or the end of a kick().
Shape ==
    /\ todo \in {<<>>, start, stop, kick}
    /\ waiting => Busy
    /\ call = "kick" => todo \in {start, kick}

\* A worker whose dog was fed is cancelled, or about to be with time still left.
FedIsCancelled ==
    /\ fed /\ worker = "sleep" => cancel \/ (Busy /\ ~waiting /\ left > 0)
    /\ fed => worker # "push"

\* A call waits only for the rest of the worker's sleep; a worker that was started
\* by a call that waited has slept since that call came back.
Times ==
    /\ Busy => age <= Duration
    /\ Busy /\ worker = "sleep" => age + left <= Duration
    /\ worker = "sleep" /\ ~cancel => age + left <= 2 * Duration
    /\ worker = "push" /\ ~cancel => age <= 2 * Duration

Inductive == TypeOK /\ Shape /\ FedIsCancelled /\ Times

\* The sequences a call's timer calls can be, taken apart.
LEMMA Calls ==
    /\ Len(<<>>) = 0
    /\ Len(start) = 1 /\ Head(start) = "start" /\ Tail(start) = <<>>
    /\ Len(stop) = 1 /\ Head(stop) = "stop" /\ Tail(stop) = <<>>
    /\ Len(kick) = 2 /\ Head(kick) = "stop" /\ Tail(kick) = start
    /\ \A t \in {<<>>, start, stop, kick} : t \in Seq({"start", "stop"})
    /\ start # <<>> /\ stop # <<>> /\ kick # <<>>
    /\ start # stop /\ start # kick /\ stop # kick
BY DEF start, stop, kick

\* TypeOK without the sequence: what is a number, and what is not.
NumbersOK == left \in 0 .. Duration /\ age \in 0 .. LongAgo

FlagsOK ==
    /\ call \in {"none", "start", "stop", "kick", "returned", "threw"}
    /\ worker \in {"none", "sleep", "push", "failed"}
    /\ waiting \in BOOLEAN /\ cancel \in BOOLEAN /\ fed \in BOOLEAN

LEMMA InitInductive == Init => Inductive
<1> SUFFICES ASSUME Init PROVE Shape /\ NumbersOK /\ FlagsOK /\ FedIsCancelled /\ Times
  BY Calls DEF Inductive, TypeOK, NumbersOK, FlagsOK, Shape
<1>1. ~Busy /\ Shape
  BY DEF Init, Busy, Shape
<1>2. NumbersOK
  BY LongAgoIsLater DEF Init, NumbersOK
<1>4. FlagsOK
  BY DEF Init, FlagsOK
<1>3. FedIsCancelled /\ Times
  BY <1>1 DEF Init, FedIsCancelled, Times
<1> QED BY <1>1, <1>2, <1>3, <1>4

\* A timer call that comes back leaves the rest of the dog's call.
LEMMA ReturnsToShape ==
  ASSUME Shape, todo # <<>>, CallReturns \/ CallThrows
  PROVE  /\ todo' \in {<<>>, start} /\ ~waiting'
         /\ todo' = start => todo = kick /\ call' = call
         /\ todo' = <<>> => call' \in {"returned", "threw"}
BY Calls DEF Shape, CallReturns, CallThrows

LEMMA NextInductive == Inductive /\ [Next]_vars => Inductive'
<1> SUFFICES ASSUME NumbersOK, FlagsOK, Shape, FedIsCancelled, Times, [Next]_vars
             PROVE  Shape' /\ NumbersOK' /\ FlagsOK' /\ FedIsCancelled' /\ Times'
  BY Calls DEF Inductive, TypeOK, NumbersOK, FlagsOK, Shape
<1> USE LongAgoIsLater DEF timer
<1>0. ASSUME UNCHANGED todo PROVE Busy' = Busy
  BY <1>0 DEF Busy
<1>1. CASE Start \/ Stop \/ Kick
  <2>1. ~Busy /\ UNCHANGED <<waiting, worker, left, cancel>> /\ age' = 0
        /\ fed' = (fed \/ (worker = "sleep" /\ left > 0))
    BY <1>1 DEF Start, Stop, Kick, Invoke, Busy
  <2>2. /\ todo' \in {start, stop, kick} /\ call' \in {"start", "stop", "kick"}
        /\ call' = "kick" => todo' = kick
    BY <1>1 DEF Start, Stop, Kick, Invoke
  <2>3. Busy' /\ ~waiting
    BY <2>1, <2>2, Calls DEF Busy, Shape
  <2>4. Shape'
    BY <2>1, <2>2, <2>3 DEF Shape
  <2>5. NumbersOK'
    BY <2>1 DEF NumbersOK
  <2>6. FlagsOK'
    BY <2>1, <2>2 DEF FlagsOK
  <2>7. FedIsCancelled'
    BY <2>1, <2>3 DEF FedIsCancelled
  <2>8. Times'
    BY <2>1 DEF Times, NumbersOK
  <2> QED BY <2>4, <2>5, <2>6, <2>7, <2>8
<1>2. CASE Cancels
  <2>1. Busy /\ Busy' /\ UNCHANGED <<call, todo, worker, left, age, fed>> /\ waiting' = TRUE
        /\ cancel' = IF worker = "none" THEN cancel ELSE TRUE
    BY <1>2 DEF Cancels, Busy
  <2>2. Shape'
    BY <2>1 DEF Shape
  <2>3. cancel' \in BOOLEAN
    BY <2>1 DEF FlagsOK
  <2>4. worker # "none" => cancel'
    BY <2>1
  <2>5. NumbersOK'
    BY <2>1 DEF NumbersOK
  <2>6. FlagsOK'
    BY <2>1, <2>3 DEF FlagsOK
  <2>7. FedIsCancelled'
    BY <2>1, <2>4 DEF FedIsCancelled
  <2>8. Times'
    BY <2>1, <2>4 DEF Times
  <2> QED BY <2>2, <2>5, <2>6, <2>7, <2>8
<1>3. CASE Collects
  <2>1. todo' = <<>> /\ waiting' = FALSE /\ call' = "threw"
        /\ worker' = "none" /\ UNCHANGED <<left, cancel, age, fed>>
    BY <1>3 DEF Collects, CallThrows
  <2>2. Shape'
    BY <2>1 DEF Shape
  <2>3. NumbersOK'
    BY <2>1 DEF NumbersOK
  <2>4. FlagsOK'
    BY <2>1 DEF FlagsOK
  <2>5. FedIsCancelled' /\ Times'
    BY <2>1 DEF FedIsCancelled, Times, Busy
  <2> QED BY <2>2, <2>3, <2>4, <2>5
<1>4. CASE StopReturns
  <2>1. todo # <<>> /\ CallReturns /\ worker = "none"
        /\ UNCHANGED <<worker, left, cancel, age, fed>>
    BY <1>4 DEF StopReturns, Shape, Busy
  <2>2. todo' \in {<<>>, start} /\ waiting' = FALSE /\ call' \in {call, "returned"}
    BY <2>1, ReturnsToShape DEF CallReturns
  <2>3. call' = "kick" => todo' = start
    BY <2>1, <2>2, ReturnsToShape
  <2>4. Shape'
    BY <2>2, <2>3 DEF Shape
  <2>5. NumbersOK'
    BY <2>1 DEF NumbersOK
  <2>6. FlagsOK'
    BY <2>1, <2>2 DEF FlagsOK
  <2>7. FedIsCancelled'
    BY <2>1 DEF FedIsCancelled
  <2>8. Times'
    BY <2>1 DEF Times, Busy
  <2> QED BY <2>4, <2>5, <2>6, <2>7, <2>8
<1>5. CASE StartReturns
  <2>1. /\ todo # <<>> /\ Head(todo) = "start" /\ worker = "none"
        /\ UNCHANGED age /\ cancel' = FALSE /\ (CallReturns \/ CallThrows)
        /\ \/ worker' = "sleep" /\ left' = Duration /\ fed' = FALSE
           \/ worker' = "none" /\ UNCHANGED <<left, fed>>
    BY <1>5 DEF StartReturns, Shape, Busy
  <2>2. todo = start
    BY <2>1, Calls DEF Shape
  <2>3. todo' = <<>> /\ waiting' = FALSE /\ call' \in {"returned", "threw"}
    BY <2>1, <2>2, Calls DEF CallReturns, CallThrows
  <2>4. ~Busy' /\ Shape'
    BY <2>3 DEF Busy, Shape
  <2>5. age <= Duration
    BY <2>1 DEF Times, Busy
  <2>6. NumbersOK'
    BY <2>1 DEF NumbersOK
  <2>7. FlagsOK'
    BY <2>1, <2>3 DEF FlagsOK
  <2>8. FedIsCancelled'
    BY <2>1 DEF FedIsCancelled
  <2>9. Times'
    BY <2>1, <2>4, <2>5 DEF Times, NumbersOK
  <2> QED BY <2>4, <2>6, <2>7, <2>8, <2>9
<1>6. CASE WorkerWakes \/ WorkerPushes
  <2>1. UNCHANGED <<call, todo, waiting, left, cancel, age, fed>>
    BY <1>6 DEF WorkerWakes, WorkerPushes, owner
  <2>2. \/ worker = "sleep" /\ left = 0 /\ worker' = IF cancel THEN "none" ELSE "push"
        \/ worker = "push" /\ worker' \in {"none", "failed"}
    BY <1>6 DEF WorkerWakes, WorkerPushes
  <2>3. Busy' = Busy /\ Shape'
    BY <1>0, <2>1 DEF Shape
  <2>4. worker' \in {"none", "push", "failed"} /\ (worker' = "push" => ~cancel)
    BY <2>2
  <2>5. NumbersOK'
    BY <2>1 DEF NumbersOK
  <2>6. FlagsOK'
    BY <2>1, <2>4 DEF FlagsOK
  <2>7. FedIsCancelled'
    BY <2>1, <2>2, <2>4 DEF FedIsCancelled
  <2>8. Times'
    BY <2>1, <2>2, <2>3, <2>4 DEF Times, NumbersOK
  <2> QED BY <2>3, <2>5, <2>6, <2>7, <2>8
<1>7. CASE Tick
  <2>1. UNCHANGED <<call, todo, waiting, worker, cancel, fed>> /\ worker # "push"
        /\ (Busy => waiting /\ worker = "sleep")
    BY <1>7 DEF Tick, Busy, owner
  <2>2. Busy' = Busy /\ Shape'
    BY <1>0, <2>1 DEF Shape
  <2>3. age' <= age + 1 /\ age' \in 0 .. LongAgo
    BY <1>7 DEF Tick, NumbersOK
  <2>4. IF worker = "sleep" THEN left > 0 /\ left' = left - 1 ELSE left' = left
    BY <1>7 DEF Tick
  <2>5. NumbersOK'
    BY <2>3, <2>4 DEF NumbersOK
  <2>6. FlagsOK'
    BY <2>1 DEF FlagsOK
  <2>7. FedIsCancelled'
    BY <2>1, <2>2 DEF FedIsCancelled
  <2>8. Times'
    BY <2>1, <2>2, <2>3, <2>4 DEF Times, NumbersOK
  <2> QED BY <2>2, <2>5, <2>6, <2>7, <2>8
<1>8. CASE UNCHANGED vars
  BY <1>0, <1>8 DEF vars, owner, Shape, NumbersOK, FlagsOK, FedIsCancelled, Times
<1> QED BY <1>1, <1>2, <1>3, <1>4, <1>5, <1>6, <1>7, <1>8
        DEF Next, OwnerStep, WorkerStep

LEMMA InductiveHolds == Spec => []Inductive
BY InitInductive, NextInductive, PTL DEF Spec

\* Type correctness: among others, no call is left that is none of the dog's.
THEOREM TypeCorrect == Spec => []TypeOK
BY InductiveHolds, PTL DEF Inductive

\* A dog kicked or stopped in time does not bark for it (watch_dog.cpp:76-77).
THEOREM FedDogIsQuiet == Spec => []KickedInTimeIsQuiet
<1>1. Inductive => KickedInTimeIsQuiet
  BY DEF Inductive, FedIsCancelled, KickedInTimeIsQuiet, Barking
<1> QED BY <1>1, InductiveHolds, PTL

\* kick() and stop() come back within a duration (watch_dog.cpp:55, 76-77).
THEOREM CallsAreBounded == Spec => []CallsLastADuration
<1>1. Inductive => CallsLastADuration
  BY DEF Inductive, Times, CallsLastADuration, Busy
<1> QED BY <1>1, InductiveHolds, PTL

\* A hang is reported within two durations of the last call (watch_dog.cpp:76-77).
THEOREM ReportIsBounded == Spec => []HangIsReported
<1>1. Inductive => HangIsReported
  BY DEF Inductive, Times, TypeOK, HangIsReported
<1> QED BY <1>1, InductiveHolds, PTL

\* A kick() that returns has started the timer afresh (watch_dog.cpp:76-77).
THEOREM KickRearms == Spec => KickLeavesGuarded
<1>1. ASSUME Inductive, [Next]_vars, call = "kick", call' = "returned"
      PROVE  worker' = "sleep" /\ ~cancel' /\ left' = Duration
  <2>1. todo \in {start, kick}
    BY <1>1 DEF Inductive, Shape
  <2>2. todo # <<>>
    BY <2>1, Calls
  <2>3. CASE StartReturns
    BY <1>1, <2>3 DEF StartReturns, CallThrows
  <2>4. CASE StopReturns
    <3>1. todo = kick
      BY <2>1, <2>4, Calls DEF StopReturns
    <3>2. call' = call
      BY <3>1, <2>4, Calls DEF StopReturns, CallReturns
    <3> QED BY <1>1, <3>2
  <2>5. CASE Start \/ Stop \/ Kick
    BY <2>2, <2>5 DEF Start, Stop, Kick, Invoke
  <2>6. CASE Cancels \/ Collects \/ WorkerWakes \/ WorkerPushes \/ Tick \/ UNCHANGED vars
    BY <1>1, <2>6 DEF Cancels, Collects, CallThrows, WorkerWakes, WorkerPushes, Tick,
         vars, owner
  <2> QED BY <1>1, <2>3, <2>4, <2>5, <2>6 DEF Next, OwnerStep, WorkerStep
<1>2. Inductive /\ [Next]_vars =>
        [call = "kick" /\ call' = "returned"
           => worker' = "sleep" /\ ~cancel' /\ left' = Duration]_vars
  BY <1>1
<1> QED BY <1>2, InitInductive, NextInductive, PTL DEF Spec, KickLeavesGuarded
=============================================================================
