------------------------------ MODULE PirDriver ------------------------------
(***************************************************************************)
(* PIRDriver and GPIOReader (infra/pir_driver, infra/gpio_operation): the  *)
(* threads that call run(), the one that calls stop(), and the GPIO line.  *)
(* Every access to an atomic and every libgpiod call is a step.            *)
(*                                                                         *)
(* External: the line (libgpiod).  Requesting it twice, or reading it or   *)
(* waiting on it when it is not requested for that, is an error; a rising  *)
(* edge is recorded only while edge events are requested.                  *)
(***************************************************************************)
EXTENDS Naturals

CONSTANTS
    Runner,     \* the threads that call run(); the program has one per driver
    Failures    \* the libgpiod calls that may fail: "read", "edges", "wait", "input"

ASSUME FailuresAssumption == Failures \subseteq {"read", "edges", "wait", "input"}

VARIABLES
    runner,     \* where each thread is in run(), or how its last run() ended
    stopper,    \* where stop() is
    monitoring, \* PIRDriver::monitoring_
    interrupt,  \* PIRDriver::interrupt_
    line,       \* what the line is requested for
    level,      \* what the sensor puts on the line
    edge,       \* a rising edge is waiting to be reported
    detected,   \* history: has this run() seen a person?
    stopped     \* history: has a stop() overlapped this run()?

flags == <<monitoring, interrupt>>
sensor == <<level, edge>>
history == <<detected, stopped>>
vars == <<runner, stopper, flags, line, sensor, history>>

AtRest == {"new", "returned", "threw", "refused"}

InRun == {"mark", "clear", "read", "test", "edges", "wait", "input", "recheck",
          "leave", "fail"}

TypeOK ==
    /\ runner \in [Runner -> AtRest \cup InRun]
    /\ stopper \in {"idle", "interrupt", "unmonitor"}
    /\ monitoring \in BOOLEAN
    /\ interrupt \in BOOLEAN
    /\ line \in {"input", "edges", "released"}
    /\ level \in {0, 1}
    /\ edge \in BOOLEAN
    /\ detected \in [Runner -> BOOLEAN]
    /\ stopped \in [Runner -> BOOLEAN]

\* GPIOReader's constructor has requested the line as an input.
Init ==
    /\ runner = [r \in Runner |-> "new"]
    /\ stopper = "idle"
    /\ monitoring = FALSE
    /\ interrupt = FALSE
    /\ line = "input"
    /\ level \in {0, 1}
    /\ edge = FALSE
    /\ detected = [r \in Runner |-> FALSE]
    /\ stopped = [r \in Runner |-> FALSE]

At(r, here) == runner[r] = here
Goto(r, there) == runner' = [runner EXCEPT ![r] = there]

-----------------------------------------------------------------------------
(* PIRDriver::run *)

\* if (monitoring_) throw
RunCall(r) ==
    /\ runner[r] \in AtRest
    /\ Goto(r, IF monitoring THEN "refused" ELSE "mark")
    /\ detected' = [detected EXCEPT ![r] = FALSE]
    /\ stopped' = [stopped EXCEPT ![r] = stopper # "idle"]
    /\ UNCHANGED <<stopper, flags, line, sensor>>

RunMarks(r) ==
    /\ At(r, "mark")
    /\ monitoring' = TRUE
    /\ Goto(r, "clear")
    /\ UNCHANGED <<stopper, interrupt, line, sensor, history>>

\* Mutant: interrupt_ is left over from an earlier stop().
RunClearsNothing(r) ==
    /\ At(r, "clear")
    /\ Goto(r, "read")
    /\ UNCHANGED <<stopper, flags, line, sensor, history>>

RunClears(r) ==
    /\ At(r, "clear")
    /\ interrupt' = FALSE
    /\ Goto(r, "read")
    /\ UNCHANGED <<stopper, monitoring, line, sensor, history>>

\* gpio_->read(): a person is already there, or nobody is, or it throws.
Read(r) ==
    /\ At(r, "read")
    /\ \/ /\ line # "released"
          /\ Goto(r, IF level = 1 THEN "leave" ELSE "test")
          /\ detected' = [detected EXCEPT ![r] = level = 1]
       \/ /\ line = "released" \/ "read" \in Failures
          /\ Goto(r, "fail")
          /\ UNCHANGED detected
    /\ UNCHANGED <<stopper, flags, line, sensor, stopped>>

\* while (!interrupt_)
TestInterrupt(r) ==
    /\ At(r, "test")
    /\ Goto(r, IF interrupt THEN "leave" ELSE "edges")
    /\ UNCHANGED <<stopper, flags, line, sensor, history>>

\* Mutant: the loop goes on after an edge.
RecheckLoops(r) ==
    /\ At(r, "recheck")
    /\ Goto(r, IF interrupt THEN "leave" ELSE "test")
    /\ UNCHANGED <<stopper, flags, line, sensor, history>>

\* if (interrupt_) break: run() returns either way.
Recheck(r) ==
    /\ At(r, "recheck")
    /\ detected' = [detected EXCEPT ![r] = ~interrupt]
    /\ Goto(r, "leave")
    /\ UNCHANGED <<stopper, flags, line, sensor, stopped>>

\* Mutant: an exception leaves monitoring_ set.
LeavesMarked(r) ==
    /\ runner[r] \in {"leave", "fail"}
    /\ monitoring' = IF At(r, "leave") THEN FALSE ELSE monitoring
    /\ Goto(r, IF At(r, "leave") THEN "returned" ELSE "threw")
    /\ UNCHANGED <<stopper, interrupt, line, sensor, history>>

\* Every way out clears monitoring_.
Leave(r) ==
    /\ runner[r] \in {"leave", "fail"}
    /\ monitoring' = FALSE
    /\ Goto(r, IF At(r, "leave") THEN "returned" ELSE "threw")
    /\ UNCHANGED <<stopper, interrupt, line, sensor, history>>

-----------------------------------------------------------------------------
(* GPIOReader::poll_edge *)

\* The line is released and requested anew; if that fails it stays released.
Rerequest(r, what, next) ==
    /\ \/ line' = what /\ Goto(r, next)
       \/ what \in Failures /\ line' = "released" /\ Goto(r, "fail")
    /\ edge' = FALSE
    /\ UNCHANGED <<stopper, flags, level, history>>

RequestEdges(r) == At(r, "edges") /\ Rerequest(r, "edges", "wait")

\* gpiod_line_event_wait without a timeout.
Wait(r) ==
    /\ At(r, "wait")
    /\ \/ edge /\ Goto(r, "input")
       \/ (line # "edges" \/ "wait" \in Failures) /\ Goto(r, "fail")
    /\ UNCHANGED <<stopper, flags, line, sensor, history>>

\* Mutant: the line is released after the edge and not requested again.
ReleaseOnly(r) ==
    /\ At(r, "input")
    /\ line' = "released"
    /\ edge' = FALSE
    /\ Goto(r, "recheck")
    /\ UNCHANGED <<stopper, flags, level, history>>

RequestInput(r) == At(r, "input") /\ Rerequest(r, "input", "recheck")

-----------------------------------------------------------------------------
(* PIRDriver::stop *)

\* if (!monitoring_) return
StopCall ==
    /\ stopper = "idle"
    /\ stopper' = IF monitoring THEN "interrupt" ELSE "idle"
    /\ stopped' = [r \in Runner |-> TRUE]
    /\ UNCHANGED <<runner, flags, line, sensor, detected>>

StopInterrupts ==
    /\ stopper = "interrupt"
    /\ interrupt' = TRUE
    /\ stopper' = "unmonitor"
    /\ UNCHANGED <<runner, monitoring, line, sensor, history>>

\* monitoring_ is cleared whether or not run() has come back.
StopUnmonitors ==
    /\ stopper = "unmonitor"
    /\ monitoring' = FALSE
    /\ stopper' = "idle"
    /\ UNCHANGED <<runner, interrupt, line, sensor, history>>

\* The sensor sees a person, or nobody any more.
SensorChanges ==
    /\ level' = 1 - level
    /\ edge' = (edge \/ (level' = 1 /\ line = "edges"))
    /\ UNCHANGED <<runner, stopper, flags, line, history>>

-----------------------------------------------------------------------------
PollStep(r) == RequestEdges(r) \/ Wait(r) \/ RequestInput(r)

RunStep(r) == \/ RunMarks(r) \/ RunClears(r) \/ Read(r) \/ TestInterrupt(r)
              \/ PollStep(r) \/ Recheck(r) \/ Leave(r)

StopStep == StopInterrupts \/ StopUnmonitors

Next == \/ \E r \in Runner : RunCall(r) \/ RunStep(r)
        \/ StopCall \/ StopStep
        \/ SensorChanges

Spec == Init /\ [][Next]_vars

\* Threads are scheduled.  Nobody has to call run() or stop(), or to walk past.
Fairness == WF_vars(StopStep) /\ \A r \in Runner : WF_vars(RunStep(r))

FairSpec == Spec /\ Fairness

-----------------------------------------------------------------------------
(* Properties *)

\* run() is not locked out by its own past: with no run() under way monitoring_ is
\* clear, whatever threw and wherever stop() came, or every later run() would be
\* refused (pir_driver.cpp:24-60).
NeverLockedOut == (\A r \in Runner : runner[r] \in AtRest) => ~monitoring

\* run() returns without having seen a person only if a stop() overlapped it.  A
\* stop() meant for an earlier run() and overtaken by it counts; one that had
\* returned before run() was called does not (pir_driver.cpp:25, 41-47, 71).
UnseenOnlyIfStopped ==
    \A r \in Runner : runner[r] = "returned" => detected[r] \/ stopped[r]

\* A run() that returns leaves the line in a state the next run() can read: only
\* one that throws may leave it released (gpio_reader.cpp:71-89).
LineHeldAfterRun ==
    \A r \in Runner : runner[r] = "returned" => line # "released"

\* A person who goes on moving is seen at last, though an edge between read() and
\* the request for edges is missed: every wait in poll_edge ends
\* (pir_driver.cpp:28-50, gpio_reader.cpp:71-90).
MovingPersonIsSeen ==
    []<>(level = 0) /\ []<>(level = 1) =>
        \A r \in Runner : (runner[r] \in InRun) ~> (runner[r] \in AtRest)
=============================================================================
