------------------------------- MODULE Timer -------------------------------
(***************************************************************************)
(* What a TimerService promises to the task that owns it: a one-shot timer *)
(* holding at most one message.  The message is delivered to the owner's   *)
(* queue at most once; it is dropped only while the owner itself is inside *)
(* start() or stop(); and stop() returns only once nothing is armed.       *)
(*                                                                         *)
(* This is the interface of ITimerService (timer_service.hpp:14-23), and   *)
(* the timer every task of DeviceReminder is composed with.  TimerService  *)
(* implements it.                                                          *)
(***************************************************************************)
EXTENDS Sequences

CONSTANTS
    Message,        \* the messages a task may arm the timer with
    NoMessage,      \* nothing armed
    WorkerMayFail   \* may sending the message throw (std::bad_alloc)?

VARIABLES
    armed,      \* the message waiting to be delivered, or NoMessage
    call,       \* the owner's outstanding call, or "none"
    inbox       \* what has been pushed to the owner's queue

vars == <<armed, call, inbox>>

Init ==
    /\ armed = NoMessage
    /\ call = "none"
    /\ inbox = <<>>

\* The owner enters start() or stop().
Call ==
    /\ call = "none"
    /\ call' \in {"start", "stop"}
    /\ UNCHANGED <<armed, inbox>>

\* start() arms the timer: only when nothing is armed any more.
Arm ==
    /\ call = "start"
    /\ armed = NoMessage
    /\ armed' \in Message
    /\ UNCHANGED <<call, inbox>>

\* The armed message is dropped: only on the owner's own demand.
Discard ==
    /\ call # "none"
    /\ armed # NoMessage
    /\ armed' = NoMessage
    /\ UNCHANGED <<call, inbox>>

\* The timer expires, whether or not a call is outstanding.
Fire ==
    /\ armed # NoMessage
    /\ inbox' = Append(inbox, armed)
    /\ armed' = NoMessage
    /\ UNCHANGED call

\* The push of the expired message throws: the message is lost.
Lose ==
    /\ WorkerMayFail
    /\ armed # NoMessage
    /\ armed' = NoMessage
    /\ UNCHANGED <<call, inbox>>

\* A call returns, normally or by an exception.
Return ==
    /\ call # "none"
    /\ call = "stop" => armed = NoMessage
    /\ call' = "none"
    /\ UNCHANGED <<armed, inbox>>

Next == Call \/ Arm \/ Discard \/ Fire \/ Lose \/ Return

Spec == Init /\ [][Next]_vars
============================================================================
