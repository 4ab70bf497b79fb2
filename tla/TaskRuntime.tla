----------------------------- MODULE TaskRuntime -----------------------------
(***************************************************************************)
(* What the four task processes share.  Each process has a message queue   *)
(* (MessageQueue), one receiver thread that pops a message and dispatches  *)
(* it (MessageReceiver), as Mailbox describes the two and TaskProcess      *)
(* implements it; one timer (TimerService, through its interface Timer)    *)
(* and an endpoint other processes send to (IProcessSender).               *)
(*                                                                         *)
(* A dispatch is not atomic.  The task module pops the message and leaves  *)
(* the calls of the handler, in program order, in todo; each call is a     *)
(* step of its own, so that timers, messages and the other processes       *)
(* interleave with it, and so that any call may throw.  The dispatcher     *)
(* assigns state_ when the handler has returned, with its last call.       *)
(*                                                                         *)
(* External: how an endpoint delivers.  ProcessSender::send encodes the    *)
(* message and drops it, so the transport is modelled from the interface   *)
(* IProcessSender and from MessageInbox::on_recv as one reliable FIFO per  *)
(* endpoint, delivering at any later time.                                 *)
(***************************************************************************)
EXTENDS Naturals, Sequences, SequencesExt

CONSTANT FailingCalls   \* the handler calls that may throw

ASSUME FailingCallsAssumption ==
    FailingCalls \subseteq {"send", "start_timer", "stop_timer", "sense",
                            "scan", "on", "off", "load"}

Task == {"main", "human", "bluetooth", "buzzer"}

\* message_type.hpp.  The three timeouts alias one enumerator in the source, which
\* main_dispatcher.cpp:63,69 cannot be compiled with; they are kept apart here.
MessageType ==
    {"HumanDetected", "StartHumanDetection", "StopHumanDetection",
     "RequestBluetoothScan", "RespondDeviceFound", "RespondDeviceNotFound",
     "StartBuzzing", "StopBuzzing",
     "BuzzTimeout", "CooldownTimeout", "ProcessingTimeout"}

NoMessage == "None"

VARIABLES
    state,  \* state_ of each task's dispatcher
    queue,  \* each process's MessageQueue
    todo,   \* the calls left in the dispatch under way; <<>> between dispatches
    timer,  \* the message each process's timer will deliver, or NoMessage
    net,    \* messages sent to each endpoint and not delivered yet
    up      \* is the receiver thread still in its loop?

taskVars == <<state, queue, todo, timer, net, up>>

(* The calls a handler makes *)
Send(to, m) == [call |-> "send", to |-> to, msg |-> m]
StartTimer(m) == [call |-> "start_timer", msg |-> m]
Call(c) == [call |-> c]
\* state_ = s, once the calls before it have returned.
Become(s) == [call |-> "become", state |-> s]

InitTasks(initialState) ==
    /\ state = initialState
    /\ queue = [p \in Task |-> <<>>]
    /\ todo = [p \in Task |-> <<>>]
    /\ timer = [p \in Task |-> NoMessage]
    /\ net = [p \in Task |-> <<>>]
    /\ up = [p \in Task |-> TRUE]

-----------------------------------------------------------------------------
(* The receiver thread *)

\* pop() returns m and the dispatcher is called with it.
Pop(p, m) ==
    /\ up[p]
    /\ todo[p] = <<>>
    /\ queue[p] # <<>>
    /\ Head(queue[p]) = m
    /\ queue' = [queue EXCEPT ![p] = Tail(@)]

\* The calls are done up to the assignment of state_, which is made at once: no
\* other thread reads it.
Continue(p, calls) ==
    IF calls # <<>> /\ Head(calls).call = "become"
    THEN /\ state' = [state EXCEPT ![p] = Head(calls).state]
         /\ todo' = [todo EXCEPT ![p] = <<>>]
    ELSE /\ todo' = [todo EXCEPT ![p] = calls]
         /\ UNCHANGED state

\* The case of the dispatcher's switch for m in state s.
Dispatch(p, s, m, calls) ==
    /\ state[p] = s
    /\ Pop(p, m)
    /\ Continue(p, calls)
    /\ UNCHANGED <<timer, net, up>>

\* No case applies: the message is consumed without effect.
Ignore(p, handled) ==
    /\ \E m \in MessageType : <<state[p], m>> \notin handled /\ Pop(p, m)
    /\ UNCHANGED <<state, todo, timer, net, up>>

\* The next call of p's handler is c.
Calling(p, c) == todo[p] # <<>> /\ Head(todo[p]).call = c

\* The call returned; the handler goes on, or it returns.
Returned(p) == Continue(p, Tail(todo[p]))

\* sender_->send(endpoint, msg)
DoSend(p) ==
    /\ Calling(p, "send")
    /\ LET s == Head(todo[p]) IN net' = [net EXCEPT ![s.to] = Append(@, s.msg)]
    /\ Returned(p)
    /\ UNCHANGED <<queue, timer, up>>

\* timer_->start(...): Timer's Discard, then Arm.
DoStartTimer(p) ==
    /\ Calling(p, "start_timer")
    /\ timer' = [timer EXCEPT ![p] = Head(todo[p]).msg]
    /\ Returned(p)
    /\ UNCHANGED <<queue, net, up>>

\* timer_->stop(): Timer's Discard.
DoStopTimer(p) ==
    /\ Calling(p, "stop_timer")
    /\ timer' = [timer EXCEPT ![p] = NoMessage]
    /\ Returned(p)
    /\ UNCHANGED <<queue, net, up>>

\* A call throws: handler and dispatcher rethrow, the receiver's loop ends, and
\* the process idles on.  A timer call that throws has dropped the old timer.
HandlerThrows(p) ==
    /\ todo[p] # <<>>
    /\ Head(todo[p]).call \in FailingCalls
    /\ todo' = [todo EXCEPT ![p] = <<>>]
    /\ up' = [up EXCEPT ![p] = FALSE]
    /\ timer' = IF Head(todo[p]).call \in {"start_timer", "stop_timer"}
                THEN [timer EXCEPT ![p] = NoMessage] ELSE timer
    /\ UNCHANGED <<state, queue, net>>

Perform(p) == DoSend(p) \/ DoStartTimer(p) \/ DoStopTimer(p)

-----------------------------------------------------------------------------
(* Other threads *)

\* The timer's worker pushes its message to the task's own queue: Timer's Fire.
TimerFires(p) ==
    /\ timer[p] # NoMessage
    /\ queue' = [queue EXCEPT ![p] = Append(@, timer[p])]
    /\ timer' = [timer EXCEPT ![p] = NoMessage]
    /\ UNCHANGED <<state, todo, net, up>>

\* The transport hands the oldest message to MessageInbox, which pushes it.
Deliver(p) ==
    /\ net[p] # <<>>
    /\ queue' = [queue EXCEPT ![p] = Append(@, Head(net[p]))]
    /\ net' = [net EXCEPT ![p] = Tail(@)]
    /\ UNCHANGED <<state, todo, timer, up>>

-----------------------------------------------------------------------------
(* Shared vocabulary of the properties *)

\* p is between two dispatches.
Idle(p) == todo[p] = <<>>

\* m is on its way to p: in transit, or queued.
Coming(p, m) == m \in ToSet(net[p]) \cup ToSet(queue[p])

\* p's own timeout m is still ahead of it.
TimeoutAhead(p, m) == timer[p] = m \/ m \in ToSet(queue[p])

\* The main task is past a negative first answer.
Retrying == state["main"] \in {"BluetoothScanRequestCooldown",
                               "WaitingDevicePresenceRetryResponse"}

TasksTypeOK ==
    /\ queue \in [Task -> Seq(MessageType)]
    /\ DOMAIN todo = Task
    /\ timer \in [Task -> MessageType \cup {NoMessage}]
    /\ net \in [Task -> Seq(MessageType)]
    /\ up \in [Task -> BOOLEAN]
=============================================================================
