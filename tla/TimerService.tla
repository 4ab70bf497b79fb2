---------------------------- MODULE TimerService ----------------------------
(***************************************************************************)
(* infra/timer_service/timer_service.cpp: one object, one owner thread     *)
(* that calls start() and stop() (the receiver thread of a task, which is  *)
(* the only caller of its handler), and the worker threads that            *)
(* std::async launches.  Every read or write of an atomic member, every    *)
(* wait on the future and every push is a step of its own.                 *)
(***************************************************************************)
EXTENDS Naturals, Sequences, FiniteSets

CONSTANTS
    Message,        \* messages given to start()
    NoMessage,      \* a null std::shared_ptr<IMessage>
    MaxStarts,      \* bound: workers launched in a behaviour
    Failures        \* which calls may throw: "send" (the worker's push),
                    \* "spawn" (std::async cannot create a thread)

ASSUME NoMessageAssumption == NoMessage \notin Message
ASSUME MaxStartsAssumption == MaxStarts \in Nat
ASSUME FailuresAssumption == Failures \subseteq {"send", "spawn"}

Worker == 1 .. MaxStarts

VARIABLES
    pc,         \* where the owner thread is
    arg,        \* the message argument of the start() in progress
    running,    \* running_
    cancel,     \* cancel_
    message,    \* message_
    future,     \* the worker worker_future_ refers to; 0 when !valid()
    launched,   \* how many workers std::async has launched
    wpc,        \* where each worker thread is
    inbox       \* what workers have pushed to the owner's queue

vars == <<pc, arg, running, cancel, message, future, launched, wpc, inbox>>
ownerVars == <<pc, arg, cancel, message, future, launched>>

\* Between calls pc tells how the last call ended.
Resting == {"new", "started", "stopped", "threw", "destroyed"}
Starting == {"start_check", "start_cancel", "start_get", "start_validate",
             "start_arm", "start_launch", "start_poll"}
Stopping == {"stop_check", "stop_cancel", "stop_get"}

\* A worker can still touch the object, or push, in these states ...
Live == {"sleep", "send", "clear"}
\* ... and its future is ready in these.
Ready == {"done", "failed"}

LiveWorkers == {w \in Worker : wpc[w] \in Live}

FutureReady == future # 0 => wpc[future] \in Ready
FutureThrows == future # 0 /\ wpc[future] = "failed"

TypeOK ==
    /\ pc \in Resting \cup Starting \cup Stopping
    /\ arg \in Message \cup {NoMessage}
    /\ running \in BOOLEAN
    /\ cancel \in BOOLEAN
    /\ message \in Message \cup {NoMessage}
    /\ launched \in 0 .. MaxStarts
    /\ future \in 0 .. launched
    /\ wpc \in [Worker -> {"unborn"} \cup Live \cup Ready]
    /\ inbox \in Seq(Message)

Init ==
    /\ pc = "new"
    /\ arg = NoMessage
    /\ running = FALSE
    /\ cancel = FALSE
    /\ message = NoMessage
    /\ future = 0
    /\ launched = 0
    /\ wpc = [w \in Worker |-> "unborn"]
    /\ inbox = <<>>

-----------------------------------------------------------------------------
(* start() *)

\* The owner calls start(): with a message, or with a null argument.
StartCall ==
    /\ pc \in Resting \ {"destroyed"}
    /\ launched < MaxStarts
    /\ arg' \in Message \cup {NoMessage}
    /\ pc' = "start_check"
    /\ UNCHANGED <<running, cancel, message, future, launched, wpc, inbox>>

\* Mutant: the running timer is not looked at.
StartCheckNotRunning ==
    /\ pc = "start_check"
    /\ pc' = "start_validate"
    /\ UNCHANGED <<arg, running, cancel, message, future, launched, wpc, inbox>>

\* Mutant: the members are overwritten before the old worker has been collected.
StartCheckOverwrites ==
    /\ pc = "start_check"
    /\ pc' = IF running THEN "start_cancel" ELSE "start_validate"
    /\ message' = arg
    /\ UNCHANGED <<arg, running, cancel, future, launched, wpc, inbox>>

\* if (running_)
StartCheck ==
    /\ pc = "start_check"
    /\ pc' = IF running THEN "start_cancel" ELSE "start_validate"
    /\ UNCHANGED <<arg, running, cancel, message, future, launched, wpc, inbox>>

\* cancel_.store(true)
StartCancel ==
    /\ pc = "start_cancel"
    /\ cancel' = TRUE
    /\ pc' = "start_get"
    /\ UNCHANGED <<arg, running, message, future, launched, wpc, inbox>>

\* worker_future_.get(), outside any try: the old worker's exception leaves
\* start() with running_ still true; otherwise running_ is cleared.
StartGet ==
    /\ pc = "start_get"
    /\ FutureReady
    /\ future' = 0
    /\ IF FutureThrows
       THEN pc' = "threw" /\ UNCHANGED running
       ELSE pc' = "start_validate" /\ running' = FALSE
    /\ UNCHANGED <<arg, cancel, message, launched, wpc, inbox>>

\* The null checks come after the old timer has been stopped.
StartValidate ==
    /\ pc = "start_validate"
    /\ IF arg = NoMessage
       THEN pc' = "threw" /\ UNCHANGED message
       ELSE pc' = "start_arm" /\ message' = arg
    /\ UNCHANGED <<arg, running, cancel, future, launched, wpc, inbox>>

\* Mutant: cancel_ is left over from the stopped timer.
StartArmCancelled ==
    /\ pc = "start_arm"
    /\ running' = TRUE
    /\ pc' = "start_launch"
    /\ UNCHANGED <<arg, cancel, message, future, launched, wpc, inbox>>

StartArm ==
    /\ pc = "start_arm"
    /\ cancel' = FALSE
    /\ running' = TRUE
    /\ pc' = "start_launch"
    /\ UNCHANGED <<arg, message, future, launched, wpc, inbox>>

StartLaunch ==
    /\ pc = "start_launch"
    /\ launched' = launched + 1
    /\ future' = launched + 1
    /\ wpc' = [wpc EXCEPT ![launched + 1] = "sleep"]
    /\ pc' = "start_poll"
    /\ UNCHANGED <<arg, running, cancel, message, inbox>>

\* std::async throws: caught, running_ cleared, rethrown.
StartLaunchFails ==
    /\ "spawn" \in Failures
    /\ pc = "start_launch"
    /\ running' = FALSE
    /\ pc' = "threw"
    /\ UNCHANGED <<arg, cancel, message, future, launched, wpc, inbox>>

\* wait_for(0): a worker that has already ended is collected at once.
StartPoll ==
    /\ pc = "start_poll"
    /\ IF ~FutureReady
       THEN pc' = "started" /\ UNCHANGED <<running, future>>
       ELSE /\ future' = 0
            /\ IF FutureThrows
               THEN pc' = "threw" /\ running' = FALSE
               ELSE pc' = "started" /\ UNCHANGED running
    /\ UNCHANGED <<arg, cancel, message, launched, wpc, inbox>>

-----------------------------------------------------------------------------
(* stop() and the destructor *)

StopCall ==
    /\ pc \in Resting \ {"destroyed"}
    /\ pc' = "stop_check"
    /\ UNCHANGED <<arg, running, cancel, message, future, launched, wpc, inbox>>

StopCheck ==
    /\ pc = "stop_check"
    /\ pc' = IF running THEN "stop_cancel" ELSE "stopped"
    /\ UNCHANGED <<arg, running, cancel, message, future, launched, wpc, inbox>>

StopCancel ==
    /\ pc = "stop_cancel"
    /\ cancel' = TRUE
    /\ pc' = "stop_get"
    /\ UNCHANGED <<arg, running, message, future, launched, wpc, inbox>>

\* Mutant: stop() does not wait for the worker.
StopGetNoWait ==
    /\ pc = "stop_get"
    /\ future' = 0
    /\ running' = FALSE
    /\ message' = NoMessage
    /\ pc' = "stopped"
    /\ UNCHANGED <<arg, cancel, launched, wpc, inbox>>

\* Mutant: stop() swallows the worker's exception.
StopGetSwallows ==
    /\ pc = "stop_get"
    /\ FutureReady
    /\ future' = 0
    /\ running' = FALSE
    /\ message' = NoMessage
    /\ pc' = "stopped"
    /\ UNCHANGED <<arg, cancel, launched, wpc, inbox>>

\* Mutant: stop() waits for running_ to be cleared instead of for the future.
StopGetSpins ==
    /\ pc = "stop_get"
    /\ ~running
    /\ future' = 0
    /\ message' = NoMessage
    /\ pc' = IF FutureThrows THEN "threw" ELSE "stopped"
    /\ UNCHANGED <<arg, running, cancel, launched, wpc, inbox>>

\* get(), then the members are reset, on the exception path as well.
StopGet ==
    /\ pc = "stop_get"
    /\ FutureReady
    /\ future' = 0
    /\ running' = FALSE
    /\ message' = NoMessage
    /\ pc' = IF FutureThrows THEN "threw" ELSE "stopped"
    /\ UNCHANGED <<arg, cancel, launched, wpc, inbox>>

\* ~TimerService(): stop() with its exception swallowed; the owner destroys
\* the object only between calls, once stop() has run.
Destroy ==
    /\ pc \in {"stopped", "threw"}
    /\ ~running
    /\ pc' = "destroyed"
    /\ UNCHANGED <<arg, running, cancel, message, future, launched, wpc, inbox>>

-----------------------------------------------------------------------------
(* The worker threads *)

\* Mutant: the worker sleeps until it is cancelled.
WorkerWakeCancelledOnly(w) ==
    /\ wpc[w] = "sleep"
    /\ wpc' = [wpc EXCEPT ![w] = IF cancel THEN "clear" ELSE "sleep"]
    /\ UNCHANGED <<ownerVars, running, inbox>>

\* sleep_for() returns and cancel_ is read, in one step: nothing depends on
\* the instant at which the sleep ends.
WorkerWake(w) ==
    /\ wpc[w] = "sleep"
    /\ wpc' = [wpc EXCEPT ![w] = IF cancel THEN "clear" ELSE "send"]
    /\ UNCHANGED <<ownerVars, running, inbox>>

\* sender_->send(queue_, message_): the push is atomic under the queue's mutex.
WorkerSend(w) ==
    /\ wpc[w] = "send"
    /\ inbox' = Append(inbox, message)
    /\ wpc' = [wpc EXCEPT ![w] = "clear"]
    /\ UNCHANGED <<ownerVars, running>>

\* The exception is stored in the future; running_ is not cleared.
WorkerSendFails(w) ==
    /\ "send" \in Failures
    /\ wpc[w] = "send"
    /\ wpc' = [wpc EXCEPT ![w] = "failed"]
    /\ UNCHANGED <<ownerVars, running, inbox>>

\* running_.store(false)
WorkerClear(w) ==
    /\ wpc[w] = "clear"
    /\ running' = FALSE
    /\ wpc' = [wpc EXCEPT ![w] = "done"]
    /\ UNCHANGED <<ownerVars, inbox>>

-----------------------------------------------------------------------------
StartStep == \/ StartCheck \/ StartCancel \/ StartGet \/ StartValidate
             \/ StartArm \/ StartLaunch \/ StartLaunchFails \/ StartPoll
StopStep == StopCheck \/ StopCancel \/ StopGet

OwnerNext == StartCall \/ StopCall \/ Destroy \/ StartStep \/ StopStep

WorkerNext(w) == \/ WorkerWake(w) \/ WorkerSend(w)
                 \/ WorkerSendFails(w) \/ WorkerClear(w)

Next == OwnerNext \/ \E w \in Worker : WorkerNext(w)

Spec == Init /\ [][Next]_vars

\* Threads are scheduled; nobody is obliged to call the timer.
Fairness ==
    /\ WF_vars(StartStep \/ StopStep)
    /\ \A w \in Worker : WF_vars(WorkerNext(w))

FairSpec == Spec /\ Fairness

-----------------------------------------------------------------------------
(* Why it works: the inductive invariant *)

\* A live worker is the one worker_future_ refers to, running_ is still true, and
\* the owner is neither about to launch another nor done with stop().
LiveWorkerIsOwned ==
    \A w \in Worker : wpc[w] \in Live =>
        /\ future = w
        /\ running
        /\ pc \notin {"start_validate", "start_arm", "start_launch",
                      "stopped", "destroyed"}

\* A live worker sees cancel_ only while the owner waits for it.
CancelledWorkerIsAwaited ==
    \A w \in Worker : wpc[w] \in Live /\ cancel => pc \in {"start_get", "stop_get"}

\* message_ is set whenever a worker can read it.
MessageIsSet ==
    /\ pc \in {"start_arm", "start_launch"} => message \in Message
    /\ \A w \in Worker : wpc[w] \in {"sleep", "send"} => message \in Message

\* A worker is launched with cancel_ cleared and running_ set, and not before.
LaunchIsPrepared ==
    /\ pc = "start_launch" => running /\ ~cancel
    /\ pc \in Starting \ {"start_poll"} => launched < MaxStarts
    /\ \A w \in Worker : w > launched => wpc[w] = "unborn"

\* A future that holds an exception is still the running timer's, for start() or
\* stop() to collect: running_ is not cleared by a worker that fails.
FailureIsHeld ==
    FutureThrows =>
        /\ running
        /\ pc \notin {"start_validate", "start_arm", "start_launch",
                      "stopped", "destroyed"}

\* The facts about the owner and its worker that start(), stop() and worker()
\* maintain together (timer_service.cpp:31-71, 82-97, 110-119).
OwnerWorkerInv ==
    /\ LiveWorkerIsOwned
    /\ CancelledWorkerIsAwaited
    /\ MessageIsSet
    /\ LaunchIsPrepared
    /\ FailureIsHeld

-----------------------------------------------------------------------------
(* Properties *)

\* start() never runs two workers side by side: it collects the old one before
\* it launches the next (timer_service.cpp:31-38), though running_ is cleared by
\* whichever of the two threads comes first.
AtMostOneWorker == Cardinality(LiveWorkers) <= 1

\* After stop() has returned, and so after the destructor, no worker is left
\* that could push a message or touch a member (timer_service.cpp:79-97).  This
\* is what StopBeforeTimeoutPreventsSend in the tests samples at one instant.
QuietAfterStop == pc \in {"stopped", "destroyed"} => LiveWorkers = {}

\* An exception of the worker is never swallowed: the future that holds it is
\* given up only by a start() or stop() that throws (timer_service.cpp:33-35,
\* 64-66, 87-105).
WorkerExceptionSurfaces ==
    [][FutureThrows /\ future' # future => pc' = "threw"]_vars

\* The service implements the one-shot timer of Timer.tla.
armedMessage == IF \E w \in Worker : wpc[w] \in {"sleep", "send"}
                THEN message ELSE NoMessage

outstandingCall == IF pc \in Starting THEN "start"
                   ELSE IF pc \in Stopping THEN "stop" ELSE "none"

T == INSTANCE Timer WITH armed <- armedMessage, call <- outstandingCall,
                         WorkerMayFail <- "send" \in Failures

ImplementsTimer == T!Spec

\* start() and stop() wait for the worker (timer_service.cpp:34, 90), so each of
\* them must come back, whether the worker sends, is cancelled or throws.
CallsReturn == (pc \in Starting \cup Stopping) ~> (pc \in Resting)

\* An armed timer is never forgotten: its message is sent, or its owner dropped
\* it, or the push threw (timer_service.cpp:110-119).
ArmedSettles == (armedMessage # NoMessage) ~> (armedMessage = NoMessage)
=============================================================================
