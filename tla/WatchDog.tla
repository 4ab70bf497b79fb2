------------------------------- MODULE WatchDog -------------------------------
(***************************************************************************)
(* infra/watch_dog/watch_dog.cpp in time: one owner that starts, kicks and *)
(* stops the dog, and the worker of the timer service the dog wraps.  The  *)
(* timer is TimerService reduced to what the dog's timing depends on:      *)
(* stop() and start() cancel a sleeping worker and then wait until it has  *)
(* slept its duration out.                                                 *)
(*                                                                         *)
(* Time is discrete.  A thread that can run does so before time goes on;   *)
(* kicks and ticks come in any order otherwise.                            *)
(***************************************************************************)
EXTENDS Naturals, Sequences

CONSTANTS
    Duration,   \* duration_ms_, in ticks
    Failures    \* what may throw: "send" (the worker's push), "spawn" (std::async)

\* With 0, start() itself may find its worker's exception (timer_service.cpp:68).
ASSUME DurationAssumption == Duration \in Nat \ {0}
ASSUME FailuresAssumption == Failures \subseteq {"send", "spawn"}

VARIABLES
    call,       \* the owner's call under way, or how the last one ended
    todo,       \* the timer calls left in it
    waiting,    \* has the first of them cancelled the worker and begun to wait?
    worker,     \* the timer's worker; "failed" until its exception is collected
    left,       \* how long the worker still sleeps
    cancel,     \* TimerService::cancel_
    age,        \* history: ticks since the last call; no further than LongAgo
    fed         \* history: was the sleeping worker's dog kicked or stopped in time?

owner == <<call, todo, waiting>>
timer == <<worker, left, cancel>>
vars == <<owner, timer, age, fed>>

LongAgo == 3 * Duration + 1

TypeOK ==
    /\ call \in {"none", "start", "stop", "kick", "returned", "threw"}
    /\ todo \in Seq({"start", "stop"})
    /\ waiting \in BOOLEAN
    /\ worker \in {"none", "sleep", "push", "failed"}
    /\ left \in 0 .. Duration
    /\ cancel \in BOOLEAN
    /\ age \in 0 .. LongAgo
    /\ fed \in BOOLEAN

Init ==
    /\ call = "none"
    /\ todo = <<>>
    /\ waiting = FALSE
    /\ worker = "none"
    /\ left = 0
    /\ cancel = FALSE
    /\ age = 0
    /\ fed = FALSE

-----------------------------------------------------------------------------
(* WatchDog *)

start == <<"start">>
stop == <<"stop">>

\* Mutant: the timer is started twice.
kick_twice == <<"start", "start">>

\* Mutant: the two calls are swapped.
kick_swapped == <<"start", "stop">>

kick == <<"stop", "start">>

Invoke(c, calls) ==
    /\ todo = <<>>
    /\ call' = c
    /\ todo' = calls
    /\ age' = 0
    /\ fed' = (fed \/ (worker = "sleep" /\ left > 0))
    /\ UNCHANGED <<waiting, timer>>

Start == Invoke("start", start)
Stop == Invoke("stop", stop)
Kick == Invoke("kick", kick)

\* The timer call came back: the dog's method goes on, or returns.
CallReturns ==
    /\ todo' = Tail(todo)
    /\ waiting' = FALSE
    /\ call' = IF Len(todo) = 1 THEN "returned" ELSE call

\* It threw: logged and rethrown, what is left is not called.
CallThrows ==
    /\ todo' = <<>>
    /\ waiting' = FALSE
    /\ call' = "threw"

-----------------------------------------------------------------------------
(* TimerService *)

\* Mutant: the old worker is waited for and not cancelled.
WaitsUncancelled ==
    /\ todo # <<>> /\ ~waiting
    /\ waiting' = TRUE
    /\ UNCHANGED <<call, todo, timer, age, fed>>

\* if (running_) cancel_ = true, in stop() and start() alike
Cancels ==
    /\ todo # <<>> /\ ~waiting
    /\ waiting' = TRUE
    /\ cancel' = IF worker = "none" THEN cancel ELSE TRUE
    /\ UNCHANGED <<call, todo, worker, left, age, fed>>

\* worker_future_.get(): the worker's exception comes out of it.
Collects ==
    /\ waiting
    /\ worker = "failed"
    /\ worker' = "none"
    /\ CallThrows
    /\ UNCHANGED <<left, cancel, age, fed>>

StopReturns ==
    /\ waiting /\ Head(todo) = "stop"
    /\ worker = "none"
    /\ CallReturns
    /\ UNCHANGED <<timer, age, fed>>

\* A new worker sleeps for the whole duration.
StartReturns ==
    /\ waiting /\ Head(todo) = "start"
    /\ worker = "none"
    /\ \/ /\ worker' = "sleep"
          /\ left' = Duration
          /\ cancel' = FALSE
          /\ fed' = FALSE
          /\ CallReturns
       \/ /\ "spawn" \in Failures
          /\ cancel' = FALSE
          /\ CallThrows
          /\ UNCHANGED <<worker, left, fed>>
    /\ UNCHANGED age

WorkerWakes ==
    /\ worker = "sleep" /\ left = 0
    /\ worker' = IF cancel THEN "none" ELSE "push"
    /\ UNCHANGED <<owner, left, cancel, age, fed>>

\* The dog barks: its message is pushed to the queue; or the push throws.
WorkerPushes ==
    /\ worker = "push"
    /\ \/ worker' = "none"
       \/ "send" \in Failures /\ worker' = "failed"
    /\ UNCHANGED <<owner, left, cancel, age, fed>>

WorkerStep == WorkerWakes \/ WorkerPushes
OwnerStep == Cancels \/ Collects \/ StopReturns \/ StartReturns

\* Time passes while the worker sleeps, or nothing is going on.
Tick ==
    /\ worker = "sleep" => left > 0
    /\ worker # "push"
    /\ todo # <<>> => waiting /\ worker = "sleep"
    /\ left' = IF worker = "sleep" THEN left - 1 ELSE left
    /\ age' = IF age < LongAgo THEN age + 1 ELSE age
    /\ UNCHANGED <<owner, worker, cancel, fed>>

Next == Start \/ Stop \/ Kick \/ OwnerStep \/ WorkerStep \/ Tick

Spec == Init /\ [][Next]_vars

-----------------------------------------------------------------------------
(* Properties *)

\* The worker is going to push its message.
Barking == worker = "push"

\* A dog kicked or stopped before its time is up does not bark for it, however
\* close: only a kick at the last instant can be too late (watch_dog.cpp:76-77,
\* timer_service.cpp:87, 113).
KickedInTimeIsQuiet == Barking => ~fed

\* kick() and stop() wait for the old worker's sleep, and so for up to a duration;
\* never for longer (watch_dog.cpp:55, 76-77).
CallsLastADuration == todo # <<>> => age <= Duration

\* Because kick() waits first, an owner that hangs after a kick is reported up to two
\* durations after it called, and not later (watch_dog.cpp:76-77).
HangIsReported == worker \in {"sleep", "push"} /\ ~cancel => age <= 2 * Duration

\* A kick() that returns leaves a fresh timer running, whether the old one had
\* been running, had run out, or was running out (watch_dog.cpp:76-77).
KickLeavesGuarded ==
    [][call = "kick" /\ call' = "returned"
         => worker' = "sleep" /\ ~cancel' /\ left' = Duration]_vars
=============================================================================
