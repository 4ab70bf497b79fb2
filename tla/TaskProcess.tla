---------------------------- MODULE TaskProcess ----------------------------
(***************************************************************************)
(* The threads of one task process: Process::run on the process's main     *)
(* thread, Process::stop on another one, the receiver thread that          *)
(* MessageReceiver::run creates, and the threads that push to the          *)
(* MessageQueue (timer workers, the inbox).                                *)
(*                                                                         *)
(* MessageQueue's push and pop hold its mutex, so each is one step; pop    *)
(* waits on the condition variable until the queue has a message.          *)
(***************************************************************************)
EXTENDS Naturals, Sequences

CONSTANTS
    MaxPushes,      \* bound: messages pushed by the other threads
    Failures,       \* what may throw: "dispatch", "thread" (std::thread's constructor)
    EarlyStop       \* may stop() be called while run() has not reached its loop?

ASSUME MaxPushesAssumption == MaxPushes \in Nat
ASSUME FailuresAssumption == Failures \subseteq {"dispatch", "thread"}
ASSUME EarlyStopAssumption == EarlyStop \in BOOLEAN

\* Messages are numbered in the order they are pushed.  None is stop()'s.
None == 0

VARIABLES
    runner,         \* where Process::run is
    stopper,        \* where Process::stop is
    receiver,       \* where the receiver thread is
    processRunning, \* Process::running_
    receiverRunning,\* MessageReceiver::running_
    queue,          \* MessageQueue::queue_
    msg,            \* the receiver thread's local msg
    pushed,         \* how many messages other threads have pushed
    dispatched      \* what has been given to the dispatcher, in order

flags == <<processRunning, receiverRunning>>
messages == <<queue, msg, pushed, dispatched>>
vars == <<runner, stopper, receiver, flags, messages>>

TypeOK ==
    /\ runner \in {"idle", "mark", "run_receiver", "start_thread", "loop",
                   "returned", "threw"}
    /\ stopper \in {"idle", "unmark", "stop_receiver", "push_none", "join", "stopped"}
    /\ receiver \in {"none", "test", "pop", "recheck", "dispatch", "ended"}
    /\ processRunning \in BOOLEAN
    /\ receiverRunning \in BOOLEAN
    /\ queue \in Seq(0 .. MaxPushes)
    /\ msg \in 0 .. MaxPushes
    /\ pushed \in 0 .. MaxPushes
    /\ dispatched \in Seq(0 .. MaxPushes)

Init ==
    /\ runner = "idle"
    /\ stopper = "idle"
    /\ receiver = "none"
    /\ processRunning = FALSE
    /\ receiverRunning = FALSE
    /\ queue = <<>>
    /\ msg = None
    /\ pushed = 0
    /\ dispatched = <<>>

-----------------------------------------------------------------------------
(* Process::run *)

RunCall ==
    /\ runner = "idle"
    /\ runner' = "mark"
    /\ UNCHANGED <<stopper, receiver, flags, messages>>

RunMarks ==
    /\ runner = "mark"
    /\ processRunning' = TRUE
    /\ runner' = "run_receiver"
    /\ UNCHANGED <<stopper, receiver, receiverRunning, messages>>

\* MessageReceiver::run
RunReceiver ==
    /\ runner = "run_receiver"
    /\ receiverRunning' = TRUE
    /\ runner' = "start_thread"
    /\ UNCHANGED <<stopper, receiver, processRunning, messages>>

StartThread ==
    /\ runner = "start_thread"
    /\ receiver' = "test"
    /\ runner' = "loop"
    /\ UNCHANGED <<stopper, flags, messages>>

\* std::thread's constructor throws: run() rethrows, both flags stay true.
StartThreadFails ==
    /\ "thread" \in Failures
    /\ runner = "start_thread"
    /\ runner' = "threw"
    /\ UNCHANGED <<stopper, receiver, flags, messages>>

\* The polling loop ends once it sees running_ cleared.
RunReturns ==
    /\ runner = "loop"
    /\ ~processRunning
    /\ runner' = "returned"
    /\ UNCHANGED <<stopper, receiver, flags, messages>>

-----------------------------------------------------------------------------
(* Process::stop *)

StopCall ==
    /\ stopper = "idle"
    /\ runner \in {"loop", "threw"} \/ (EarlyStop /\ runner # "idle")
    /\ stopper' = "unmark"
    /\ UNCHANGED <<runner, receiver, flags, messages>>

\* Mutant: only the receiver is stopped.
StopKeepsRunning ==
    /\ stopper = "unmark"
    /\ stopper' = "stop_receiver"
    /\ UNCHANGED <<runner, receiver, flags, messages>>

StopUnmarks ==
    /\ stopper = "unmark"
    /\ processRunning' = FALSE
    /\ stopper' = "stop_receiver"
    /\ UNCHANGED <<runner, receiver, receiverRunning, messages>>

\* MessageReceiver::stop
StopReceiver ==
    /\ stopper = "stop_receiver"
    /\ receiverRunning' = FALSE
    /\ stopper' = "push_none"
    /\ UNCHANGED <<runner, receiver, processRunning, messages>>

\* Mutant: nothing wakes the receiver.
StopPushesNothing ==
    /\ stopper = "push_none"
    /\ stopper' = "join"
    /\ UNCHANGED <<runner, receiver, flags, messages>>

\* The pill that wakes a receiver waiting in pop().
StopPushesNone ==
    /\ stopper = "push_none"
    /\ queue' = Append(queue, None)
    /\ stopper' = "join"
    /\ UNCHANGED <<runner, receiver, flags, msg, pushed, dispatched>>

\* Mutant: the thread is detached instead of joined.
StopDetaches ==
    /\ stopper = "join"
    /\ stopper' = "stopped"
    /\ UNCHANGED <<runner, receiver, flags, messages>>

\* join() if joinable(): returns when the receiver thread has ended.
StopJoins ==
    /\ stopper = "join"
    /\ receiver \in {"none", "ended"}
    /\ stopper' = "stopped"
    /\ UNCHANGED <<runner, receiver, flags, messages>>

-----------------------------------------------------------------------------
(* The receiver thread *)

\* while (running_)
ReceiverTests ==
    /\ receiver = "test"
    /\ receiver' = IF receiverRunning THEN "pop" ELSE "ended"
    /\ UNCHANGED <<runner, stopper, flags, messages>>

\* Mutant: pop() trusts a spurious wakeup, and front() of an empty queue is garbage.
ReceiverPopsSpuriously ==
    /\ receiver = "pop"
    /\ msg' = IF queue = <<>> THEN MaxPushes + 1 ELSE Head(queue)
    /\ queue' = IF queue = <<>> THEN queue ELSE Tail(queue)
    /\ receiver' = "recheck"
    /\ UNCHANGED <<runner, stopper, flags, pushed, dispatched>>

\* Mutant: the message is read and left at the front.
ReceiverPeeks ==
    /\ receiver = "pop"
    /\ queue # <<>>
    /\ msg' = Head(queue)
    /\ receiver' = "recheck"
    /\ UNCHANGED <<runner, stopper, flags, queue, pushed, dispatched>>

ReceiverPops ==
    /\ receiver = "pop"
    /\ queue # <<>>
    /\ msg' = Head(queue)
    /\ queue' = Tail(queue)
    /\ receiver' = "recheck"
    /\ UNCHANGED <<runner, stopper, flags, pushed, dispatched>>

\* Mutant: running_ is not tested again after pop().
ReceiverDispatchesAnyway ==
    /\ receiver = "recheck"
    /\ receiver' = "dispatch"
    /\ dispatched' = Append(dispatched, msg)
    /\ UNCHANGED <<runner, stopper, flags, queue, msg, pushed>>

\* if (!running_) break: the popped message is dropped.
ReceiverRechecks ==
    /\ receiver = "recheck"
    /\ receiver' = IF receiverRunning THEN "dispatch" ELSE "ended"
    /\ dispatched' = IF receiverRunning THEN Append(dispatched, msg) ELSE dispatched
    /\ UNCHANGED <<runner, stopper, flags, queue, msg, pushed>>

DispatchReturns ==
    /\ receiver = "dispatch"
    /\ receiver' = "test"
    /\ UNCHANGED <<runner, stopper, flags, messages>>

\* The exception is logged and the thread ends; running_ stays true.
DispatchThrows ==
    /\ "dispatch" \in Failures
    /\ receiver = "dispatch"
    /\ receiver' = "ended"
    /\ UNCHANGED <<runner, stopper, flags, messages>>

-----------------------------------------------------------------------------
\* Mutant: the message never gets into the queue.
PushLost ==
    /\ pushed < MaxPushes
    /\ pushed' = pushed + 1
    /\ UNCHANGED <<runner, stopper, receiver, flags, queue, msg, dispatched>>

\* ThreadSender::send on some other thread.
Push ==
    /\ pushed < MaxPushes
    /\ pushed' = pushed + 1
    /\ queue' = Append(queue, pushed + 1)
    /\ UNCHANGED <<runner, stopper, receiver, flags, msg, dispatched>>

RunStep == RunMarks \/ RunReceiver \/ StartThread \/ StartThreadFails \/ RunReturns
StopStep == StopUnmarks \/ StopReceiver \/ StopPushesNone \/ StopJoins
ReceiverStep == \/ ReceiverTests \/ ReceiverPops \/ ReceiverRechecks
                \/ DispatchReturns \/ DispatchThrows

Next == RunCall \/ StopCall \/ Push \/ RunStep \/ StopStep \/ ReceiverStep

Spec == Init /\ [][Next]_vars

\* Threads are scheduled and a dispatch comes back; nobody has to call run() or
\* stop(), or to push.
Fairness == WF_vars(RunStep) /\ WF_vars(StopStep) /\ WF_vars(ReceiverStep)

FairSpec == Spec /\ Fairness

-----------------------------------------------------------------------------
(* Properties *)

\* When stop() has returned, no dispatch is running and none will ever start: the
\* receiver thread has been joined (message_receiver.cpp:42-54), wherever it was
\* between its two tests of running_ when the flag was cleared.
StoppedIsQuiet == stopper = "stopped" => receiver \in {"none", "ended"}

\* Messages reach the dispatcher in the order they were pushed, each once and none
\* skipped; stop()'s own None never does (message_receiver.cpp:27-33).
DispatchedInOrder == dispatched = [i \in 1 .. Len(dispatched) |-> i]

\* What the two rest on, when stop() does not come early.  The receiver thread starts
\* once, before any stop(); running_ is set only until stop() clears it, before its
\* None is queued; and up to then what has been pushed is what has been dispatched,
\* what the receiver holds and what is queued, in this order
\* (message_receiver.cpp:17-33, 42-49, message_queue.cpp:21-34).
StartedBeforeStopped ==
    /\ runner \in {"idle", "mark", "run_receiver", "start_thread"}
          => receiver = "none" /\ stopper = "idle"
    /\ receiverRunning => stopper \in {"idle", "unmark", "stop_receiver"}

Held == IF receiver = "recheck" THEN 1 ELSE 0

NothingLost ==
    stopper \in {"idle", "unmark", "stop_receiver"} /\ receiver # "ended" =>
        /\ pushed = Len(dispatched) + Held + Len(queue)
        /\ Held = 1 => msg = Len(dispatched) + 1
        /\ \A i \in 1 .. Len(queue) : queue[i] = Len(dispatched) + Held + i

PipelineInv == StartedBeforeStopped /\ NothingLost

\* The process as the Mailbox of its task: closed by its stop() or its receiver's end, and
\* open from the receiver thread's start.  A message that is popped and not yet past the
\* second test of running_ is still pending.
Phase == IF receiver = "ended" \/ stopper \in {"push_none", "join", "stopped"} THEN "closed"
         ELSE IF receiver = "none" THEN "new" ELSE "open"

HeldMessage == IF receiver = "recheck" THEN <<msg>> ELSE <<>>

Pending == IF Phase = "closed" THEN <<>> ELSE HeldMessage \o queue

Current == IF receiver = "dispatch" THEN msg ELSE None

Box == INSTANCE Mailbox WITH
           Message <- 1 .. MaxPushes, NoMessage <- None,
           DispatchMayFail <- "dispatch" \in Failures,
           phase <- Phase, pending <- Pending, current <- Current

\* Queue, receiver thread and stop() implement the mailbox: messages are dispatched in
\* order and one at a time, and none once running_ is cleared or a dispatch has thrown,
\* wherever the thread is then (message_receiver.cpp:25-54, message_queue.cpp:13-34).
ImplementsMailbox == Box!Spec

\* stop() returns: its None wakes a receiver that waits on an empty queue, and a
\* receiver that died of an exception is joined as well (message_receiver.cpp:42-54).
StopReturns == (stopper = "unmark") ~> (stopper = "stopped")

\* A stopped process leaves run() (process.cpp:53-61, 80).
StopEndsRun == (stopper = "unmark") ~> (runner \in {"returned", "threw"})

\* A pushed message is dispatched, unless the receiver is stopped or has died.
PushedIsDispatched ==
    \A i \in 1 .. MaxPushes :
        (pushed >= i /\ receiver # "none")
            ~> (Len(dispatched) >= i \/ ~receiverRunning \/ receiver = "ended")
=============================================================================
