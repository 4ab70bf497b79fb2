------------------------- MODULE TaskProcessProofs -------------------------
(***************************************************************************)
(* Proofs about TaskProcess for any number of pushed messages and any      *)
(* choice of failing calls.  TypeOK holds of every process; the others of  *)
(* processes whose stop() does not come before run() has reached its loop. *)
(***************************************************************************)
EXTENDS TaskProcess, TLAPS

USE MaxPushesAssumption, FailuresAssumption DEF None

\* No step takes a flag, a thread or a message out of its type.
LEMMA NextTypeOK == TypeOK /\ [Next]_vars => TypeOK'
<1> SUFFICES ASSUME TypeOK, [Next]_vars PROVE TypeOK'
  OBVIOUS
<1> USE DEF TypeOK, flags, messages
<1>1. CASE RunCall BY <1>1 DEF RunCall
<1>2. CASE StopCall BY <1>2 DEF StopCall
<1>3. CASE Push
  <2>1. pushed' \in 0 .. MaxPushes
    BY <1>3 DEF Push
  <2>2. queue' \in Seq(0 .. MaxPushes)
    BY <1>3 DEF Push
  <2> QED BY <1>3, <2>1, <2>2 DEF Push
<1>4. CASE RunStep
  BY <1>4 DEF RunStep, RunMarks, RunReceiver, StartThread, StartThreadFails, RunReturns
<1>5. CASE StopStep
  <2>1. CASE StopPushesNone
    <3>1. queue' \in Seq(0 .. MaxPushes)
      BY <2>1 DEF StopPushesNone
    <3> QED BY <2>1, <3>1 DEF StopPushesNone
  <2>2. CASE StopUnmarks \/ StopReceiver \/ StopJoins
    BY <2>2 DEF StopUnmarks, StopReceiver, StopJoins
  <2> QED BY <1>5, <2>1, <2>2 DEF StopStep
<1>6. CASE ReceiverStep
  <2>1. CASE ReceiverPops
    <3>1. msg' \in 0 .. MaxPushes /\ queue' \in Seq(0 .. MaxPushes)
      BY <2>1 DEF ReceiverPops
    <3> QED BY <2>1, <3>1 DEF ReceiverPops
  <2>2. CASE ReceiverRechecks
    <3>1. dispatched' = dispatched \/ dispatched' = Append(dispatched, msg)
      BY <2>2 DEF ReceiverRechecks
    <3>2. receiver' \in {"dispatch", "ended"}
      BY <2>2 DEF ReceiverRechecks
    <3>3. dispatched' \in Seq(0 .. MaxPushes)
      BY <3>1
    <3> QED BY <2>2, <3>2, <3>3 DEF ReceiverRechecks
  <2>3. CASE ReceiverTests
    <3>1. receiver' \in {"pop", "ended"}
      BY <2>3 DEF ReceiverTests
    <3> QED BY <2>3, <3>1 DEF ReceiverTests
  <2>4. CASE DispatchReturns \/ DispatchThrows
    BY <2>4 DEF DispatchReturns, DispatchThrows
  <2> QED BY <1>6, <2>1, <2>2, <2>3, <2>4 DEF ReceiverStep
<1>7. CASE UNCHANGED vars BY <1>7 DEF vars
<1> QED BY <1>1, <1>2, <1>3, <1>4, <1>5, <1>6, <1>7 DEF Next

\* Every member of Process, MessageReceiver and MessageQueue keeps its type, an
\* early stop() included.
THEOREM TypeCorrect == Spec => []TypeOK
<1>1. Init => TypeOK
  <2> SUFFICES ASSUME Init PROVE TypeOK
    OBVIOUS
  <2>1. queue \in Seq(0 .. MaxPushes) /\ dispatched \in Seq(0 .. MaxPushes)
    BY DEF Init
  <2>2. msg \in 0 .. MaxPushes /\ pushed \in 0 .. MaxPushes
    BY DEF Init
  <2> QED BY <2>1, <2>2 DEF Init, TypeOK
<1> QED BY <1>1, NextTypeOK, PTL DEF Spec

-----------------------------------------------------------------------------
\* The receiver thread is started once and before any stop(), and running_ is not set
\* again after stop() has cleared it.
LEMMA NextStarted ==
    ~EarlyStop /\ StartedBeforeStopped /\ [Next]_vars => StartedBeforeStopped'
<1> SUFFICES ASSUME ~EarlyStop, StartedBeforeStopped, [Next]_vars
             PROVE StartedBeforeStopped'
  OBVIOUS
<1> USE DEF StartedBeforeStopped, flags, messages
<1>1. CASE RunCall BY <1>1 DEF RunCall
<1>2. CASE StopCall BY <1>2 DEF StopCall
<1>3. CASE Push BY <1>3 DEF Push
<1>4. CASE RunStep
  BY <1>4 DEF RunStep, RunMarks, RunReceiver, StartThread, StartThreadFails, RunReturns
<1>5. CASE StopStep
  BY <1>5 DEF StopStep, StopUnmarks, StopReceiver, StopPushesNone, StopJoins
<1>6. CASE ReceiverStep
  BY <1>6 DEF ReceiverStep, ReceiverTests, ReceiverPops, ReceiverRechecks,
              DispatchReturns, DispatchThrows
<1>7. CASE UNCHANGED vars BY <1>7 DEF vars
<1> QED BY <1>1, <1>2, <1>3, <1>4, <1>5, <1>6, <1>7 DEF Next

\* A push goes to the end of the queue, a pop takes from its head, and the popped
\* message is dispatched before the next is popped.
LEMMA NextNothingLost ==
    TypeOK /\ PipelineInv /\ [Next]_vars => NothingLost'
<1> SUFFICES ASSUME TypeOK, StartedBeforeStopped, NothingLost, [Next]_vars,
                    stopper' \in {"idle", "unmark", "stop_receiver"},
                    receiver' # "ended"
             PROVE /\ pushed' = Len(dispatched') + Held' + Len(queue')
                   /\ Held' = 1 => msg' = Len(dispatched') + 1
                   /\ \A i \in 1 .. Len(queue') :
                          queue'[i] = Len(dispatched') + Held' + i
  BY DEF PipelineInv, NothingLost
<1> USE DEF TypeOK, NothingLost, Held, flags, messages
<1>1. CASE RunCall BY <1>1 DEF RunCall
<1>2. CASE StopCall BY <1>2 DEF StopCall
<1>3. CASE Push
  <2>1. /\ Len(queue') = Len(queue) + 1
        /\ \A i \in 1 .. Len(queue) : queue'[i] = queue[i]
        /\ queue'[Len(queue) + 1] = pushed + 1
    BY <1>3 DEF Push
  <2>2. /\ Held' = Held /\ pushed' = pushed + 1
        /\ UNCHANGED <<stopper, receiver, msg, dispatched>>
    BY <1>3 DEF Push
  <2>3. Held \in {0, 1}
    OBVIOUS
  <2> HIDE DEF Held
  <2>4. /\ pushed = Len(dispatched) + Held + Len(queue)
        /\ \A i \in 1 .. Len(queue) : queue[i] = Len(dispatched) + Held + i
        /\ Held = 1 => msg = Len(dispatched) + 1
    BY <2>2
  <2> HIDE DEF NothingLost
  <2>5. ASSUME NEW i \in 1 .. Len(queue')
        PROVE  queue'[i] = Len(dispatched) + Held + i
    <3>1. CASE i \in 1 .. Len(queue)
      BY <2>1, <2>4, <3>1
    <3>2. CASE i = Len(queue) + 1
      BY <2>1, <2>3, <2>4, <3>2
    <3> QED BY <2>1, <3>1, <3>2
  <2> QED BY <2>1, <2>2, <2>3, <2>4, <2>5
<1>4. CASE RunStep
  BY <1>4 DEF RunStep, RunMarks, RunReceiver, StartThread, StartThreadFails,
              RunReturns, StartedBeforeStopped
<1>5. CASE StopStep
  BY <1>5 DEF StopStep, StopUnmarks, StopReceiver, StopPushesNone, StopJoins
<1>6. CASE ReceiverStep
  <2>1. CASE ReceiverPops
    <3>1. /\ Len(queue') = Len(queue) - 1
          /\ \A i \in 1 .. Len(queue') : queue'[i] = queue[i + 1]
          /\ msg' = queue[1] /\ Len(queue) > 0
      BY <2>1 DEF ReceiverPops
    <3>2. Held = 0 /\ Held' = 1 /\ receiver = "pop" /\ UNCHANGED <<stopper, pushed, dispatched>>
      BY <2>1 DEF ReceiverPops
    <3>3. /\ pushed = Len(dispatched) + Len(queue)
          /\ \A i \in 1 .. Len(queue) : queue[i] = Len(dispatched) + i
      BY <3>2
    <3> HIDE DEF Held
    <3> QED BY <3>1, <3>2, <3>3
  <2>2. CASE ReceiverRechecks
    <3>1. /\ Len(dispatched') = Len(dispatched) + 1
          /\ UNCHANGED <<stopper, queue, pushed>>
      BY <2>2 DEF ReceiverRechecks
    <3>2. Held = 1 /\ Held' = 0 /\ receiver = "recheck"
      BY <2>2 DEF ReceiverRechecks
    <3>3. /\ pushed = Len(dispatched) + 1 + Len(queue)
          /\ \A i \in 1 .. Len(queue) : queue[i] = Len(dispatched) + 1 + i
      BY <3>1, <3>2
    <3> HIDE DEF Held
    <3> QED BY <3>1, <3>2, <3>3
  <2>3. CASE ReceiverTests \/ DispatchReturns \/ DispatchThrows
    BY <2>3 DEF ReceiverTests, DispatchReturns, DispatchThrows
  <2> QED BY <1>6, <2>1, <2>2, <2>3 DEF ReceiverStep
<1>7. CASE UNCHANGED vars BY <1>7 DEF vars
<1> QED BY <1>1, <1>2, <1>3, <1>4, <1>5, <1>6, <1>7 DEF Next

\* Between push() and dispatch() nothing is lost, doubled or overtaken.
THEOREM PipelineKept == ~EarlyStop /\ Spec => []PipelineInv
<1>1. Init => PipelineInv
  BY DEF Init, PipelineInv, StartedBeforeStopped, NothingLost, Held
<1>2. ~EarlyStop /\ TypeOK /\ PipelineInv /\ [Next]_vars => PipelineInv'
  BY NextStarted, NextNothingLost DEF PipelineInv
<1>3. SUFFICES ASSUME ~EarlyStop PROVE Spec => []PipelineInv
  OBVIOUS
<1>4. TypeOK /\ PipelineInv /\ [Next]_vars => PipelineInv'
  BY <1>2, <1>3
<1> QED BY <1>1, <1>4, TypeCorrect, PTL DEF Spec

\* The dispatcher is handed the messages in the order they were pushed, each once.
THEOREM DispatchInPushOrder == ~EarlyStop /\ Spec => []DispatchedInOrder
<1>1. Init => DispatchedInOrder
  BY DEF Init, DispatchedInOrder
<1>2. TypeOK /\ PipelineInv /\ DispatchedInOrder /\ [Next]_vars => DispatchedInOrder'
  <2> SUFFICES ASSUME TypeOK, PipelineInv, DispatchedInOrder, [Next]_vars
               PROVE DispatchedInOrder'
    OBVIOUS
  <2> USE DEF DispatchedInOrder, TypeOK, flags, messages
  <2>1. CASE ReceiverRechecks /\ receiverRunning
    <3>1. msg = Len(dispatched) + 1
      BY <2>1 DEF ReceiverRechecks, PipelineInv, StartedBeforeStopped, NothingLost, Held
    <3>2. dispatched' = Append(dispatched, Len(dispatched) + 1)
      BY <2>1, <3>1 DEF ReceiverRechecks
    <3>3. /\ Len(dispatched') = Len(dispatched) + 1
          /\ DOMAIN dispatched' = 1 .. Len(dispatched')
          /\ \A i \in 1 .. Len(dispatched) : dispatched'[i] = dispatched[i]
          /\ dispatched'[Len(dispatched) + 1] = Len(dispatched) + 1
      BY <3>2
    <3>4. \A i \in 1 .. Len(dispatched') : dispatched'[i] = i
      BY <3>3
    <3>5. dispatched' \in Seq(Nat)
      BY <3>2
    <3> QED BY <3>3, <3>4, <3>5
  <2>2. CASE UNCHANGED dispatched
    BY <2>2
  <2>3. (ReceiverRechecks /\ receiverRunning) \/ UNCHANGED dispatched
    BY DEF Next, RunCall, StopCall, Push, RunStep, RunMarks, RunReceiver, StartThread,
           StartThreadFails, RunReturns, StopStep, StopUnmarks, StopReceiver,
           StopPushesNone, StopJoins, ReceiverStep, ReceiverTests, ReceiverPops,
           ReceiverRechecks, DispatchReturns, DispatchThrows, vars
  <2> QED BY <2>1, <2>2, <2>3
<1>3. SUFFICES ASSUME ~EarlyStop PROVE Spec => []DispatchedInOrder
  OBVIOUS
<1>4. Spec => []PipelineInv
  BY <1>3, PipelineKept, PTL
<1> QED BY <1>1, <1>2, <1>4, TypeCorrect, PTL DEF Spec

\* After stop() no dispatch runs or begins: the joined thread has ended, and no other
\* is started.
THEOREM NothingAfterStop == ~EarlyStop /\ Spec => []StoppedIsQuiet
<1>1. Init => StoppedIsQuiet
  BY DEF Init, StoppedIsQuiet
<1>2. PipelineInv /\ StoppedIsQuiet /\ [Next]_vars => StoppedIsQuiet'
  BY DEF PipelineInv, StartedBeforeStopped, StoppedIsQuiet, Next, RunCall, StopCall,
         Push, RunStep, RunMarks, RunReceiver, StartThread, StartThreadFails, RunReturns,
         StopStep, StopUnmarks, StopReceiver, StopPushesNone, StopJoins, ReceiverStep,
         ReceiverTests, ReceiverPops, ReceiverRechecks, DispatchReturns, DispatchThrows,
         flags, messages, vars
<1>3. SUFFICES ASSUME ~EarlyStop PROVE Spec => []StoppedIsQuiet
  OBVIOUS
<1>4. Spec => []PipelineInv
  BY <1>3, PipelineKept, PTL
<1> QED BY <1>1, <1>2, <1>4, PTL DEF Spec

-----------------------------------------------------------------------------
(* The process implements the mailbox of its task *)

\* What is being dispatched is a message, never the pill.
RealMessage == receiver = "dispatch" => msg # None

LEMMA NextRealMessage ==
    TypeOK /\ PipelineInv /\ RealMessage /\ [Next]_vars => RealMessage'
<1> SUFFICES ASSUME TypeOK, PipelineInv, RealMessage, [Next]_vars PROVE RealMessage'
  OBVIOUS
<1> USE DEF RealMessage, flags, messages
<1>1. CASE ReceiverRechecks /\ receiverRunning
  <2>1. msg = Len(dispatched) + 1 /\ msg' = msg
    BY <1>1 DEF ReceiverRechecks, PipelineInv, StartedBeforeStopped, NothingLost, Held
  <2>2. Len(dispatched) \in Nat
    BY DEF TypeOK
  <2> QED BY <2>1, <2>2
<1>2. CASE ~(ReceiverRechecks /\ receiverRunning)
  BY <1>2 DEF Next, RunCall, StopCall, Push, RunStep, RunMarks, RunReceiver, StartThread,
     StartThreadFails, RunReturns, StopStep, StopUnmarks, StopReceiver, StopPushesNone,
     StopJoins, ReceiverStep, ReceiverTests, ReceiverPops, ReceiverRechecks,
     DispatchReturns, DispatchThrows, vars
<1> QED BY <1>1, <1>2

\* A message that is held stands before the queue.
LEMMA HeldFirst ==
  ASSUME NEW S, NEW q \in Seq(S), NEW m \in S
  PROVE  /\ <<>> \o q = q
         /\ <<m>> \o q # <<>> /\ Head(<<m>> \o q) = m /\ Tail(<<m>> \o q) = q
         /\ q # <<>> => <<Head(q)>> \o Tail(q) = q
         /\ \A n \in S : Append(<<n>> \o q, m) = <<n>> \o Append(q, m)
<1>1. <<>> \o q = q
  OBVIOUS
<1>2. <<m>> \o q # <<>> /\ Head(<<m>> \o q) = m /\ Tail(<<m>> \o q) = q
  OBVIOUS
<1>3. q # <<>> => <<Head(q)>> \o Tail(q) = q
  OBVIOUS
<1>4. \A n \in S : Append(<<n>> \o q, m) = <<n>> \o Append(q, m)
  OBVIOUS
<1> QED BY <1>1, <1>2, <1>3, <1>4

\* run() opens the mailbox with the receiver thread, and does nothing else to it.
LEMMA RunRefines ==
  ASSUME PipelineInv, RunCall \/ RunStep
  PROVE  [Box!Next]_(Box!vars)
<1> USE DEF flags, messages, Phase, HeldMessage, Pending, Current, Box!vars
<1>1. CASE StartThread
  <2>1. Phase = "new" /\ Phase' = "open" /\ Pending' = Pending /\ Current' = Current
    BY <1>1 DEF StartThread, PipelineInv, StartedBeforeStopped
  <2> QED BY <2>1 DEF Box!Next, Box!Open
<1>2. CASE RunCall \/ RunMarks \/ RunReceiver \/ StartThreadFails \/ RunReturns
  BY <1>2 DEF RunCall, RunMarks, RunReceiver, StartThreadFails, RunReturns
<1> QED BY <1>1, <1>2 DEF RunStep

\* stop() closes it as it clears running_: its pill comes later, and is not sent.
LEMMA StopRefines ==
  ASSUME StopCall \/ StopStep
  PROVE  [Box!Next]_(Box!vars)
<1> USE DEF flags, messages, Phase, HeldMessage, Pending, Current, Box!vars
<1>1. CASE StopReceiver
  <2>1. Phase' = "closed" /\ Pending' = <<>> /\ Current' = Current
    BY <1>1 DEF StopReceiver
  <2> QED BY <2>1 DEF Box!Next, Box!Close, Box!Drop
<1>2. CASE StopCall \/ StopUnmarks \/ StopPushesNone \/ StopJoins
  BY <1>2 DEF StopCall, StopUnmarks, StopPushesNone, StopJoins
<1> QED BY <1>1, <1>2 DEF StopStep

\* A push is accepted until then.
LEMMA PushRefines ==
  ASSUME TypeOK, Push
  PROVE  [Box!Next]_(Box!vars)
<1> USE DEF flags, Phase, HeldMessage, Pending, Current, Box!vars
<1>1. CASE Phase = "closed"
  BY <1>1 DEF Push
<1>2. CASE Phase # "closed"
  <2>1. pushed + 1 \in 1 .. MaxPushes /\ queue' = Append(queue, pushed + 1)
    BY DEF TypeOK, Push
  <2>2. Phase' = Phase /\ Current' = Current /\ HeldMessage' = HeldMessage
    BY DEF Push
  <2>3. /\ queue \in Seq(0 .. MaxPushes) /\ msg \in 0 .. MaxPushes
        /\ pushed + 1 \in 0 .. MaxPushes
    BY <2>1 DEF TypeOK
  <2>4. HeldMessage \in {<<>>, <<msg>>}
    OBVIOUS
  <2>5. HeldMessage \o Append(queue, pushed + 1) = Append(HeldMessage \o queue, pushed + 1)
    <3> HIDE DEF HeldMessage
    <3>1. CASE HeldMessage = <<>>
      <4>1. Append(queue, pushed + 1) \in Seq(0 .. MaxPushes)
        BY <2>3
      <4> QED BY <2>3, <3>1, <4>1, HeldFirst
    <3>2. CASE HeldMessage = <<msg>>
      BY <2>3, <3>2, HeldFirst
    <3> QED BY <2>4, <3>1, <3>2
  <2>6. Pending' = Append(Pending, pushed + 1)
    BY <1>2, <2>1, <2>2, <2>5
  <2> QED BY <1>2, <2>1, <2>2, <2>6 DEF Box!Next, Box!Accept
<1> QED BY <1>1, <1>2

\* The receiver thread dispatches what stands first in it, if it is still open then.
LEMMA ReceiverRefines ==
  ASSUME TypeOK, PipelineInv, RealMessage, ReceiverStep
  PROVE  [Box!Next]_(Box!vars)
<1> USE DEF flags, messages, Box!vars
<1>1. /\ receiverRunning => stopper \in {"idle", "unmark", "stop_receiver"}
      /\ queue \in Seq(0 .. MaxPushes) /\ msg \in 0 .. MaxPushes
  BY DEF PipelineInv, StartedBeforeStopped, TypeOK
<1>2. ASSUME receiver' = "ended", Current' = Current
      PROVE  [Box!Next]_(Box!vars)
  <2>1. Phase' = "closed" /\ Pending' = <<>>
    BY <1>2 DEF Phase, Pending
  <2>2. Phase = "closed" => Pending = <<>>
    BY DEF Pending
  <2> QED BY <1>2, <2>1, <2>2 DEF Box!Next, Box!Close, Box!Drop
<1>3. CASE ReceiverTests
  <2>1. CASE receiverRunning
    BY <1>1, <1>3, <2>1 DEF ReceiverTests, Phase, HeldMessage, Pending, Current
  <2>2. CASE ~receiverRunning
    BY <1>2, <1>3, <2>2 DEF ReceiverTests, Current
  <2> QED BY <2>1, <2>2
<1>4. CASE ReceiverPops
  <2>1. Phase' = Phase /\ Current' = Current
    BY <1>4 DEF ReceiverPops, Phase, Current
  <2>2. HeldMessage = <<>> /\ HeldMessage' = <<Head(queue)>> /\ queue' = Tail(queue)
    BY <1>4 DEF ReceiverPops, HeldMessage
  <2>3. <<>> \o queue = <<Head(queue)>> \o Tail(queue)
    BY <1>1, <1>4, HeldFirst DEF ReceiverPops
  <2>4. Pending' = Pending
    BY <2>1, <2>2, <2>3 DEF Pending
  <2> QED BY <2>1, <2>4
<1>5. CASE ReceiverRechecks /\ receiverRunning
  <2>1. /\ receiver = "recheck" /\ receiver' = "dispatch"
        /\ UNCHANGED <<stopper, queue, msg>>
    BY <1>5 DEF ReceiverRechecks
  <2>2. Phase = "open" /\ Phase' = "open"
    BY <1>1, <1>5, <2>1 DEF Phase
  <2>3. Pending = <<msg>> \o queue /\ Pending' = <<>> \o queue
    BY <2>1, <2>2 DEF Pending, HeldMessage
  <2>4. Pending # <<>> /\ Head(Pending) = msg /\ Tail(Pending) = Pending'
    BY <1>1, <2>3, HeldFirst
  <2>5. Current = None /\ Current' = msg
    BY <2>1 DEF Current
  <2> QED BY <2>2, <2>4, <2>5 DEF Box!Next, Box!Dispatch
<1>6. CASE ReceiverRechecks /\ ~receiverRunning
  BY <1>2, <1>6 DEF ReceiverRechecks, Current
<1>7. CASE DispatchReturns
  <2>1. /\ Phase' = Phase /\ Pending' = Pending /\ Current # None /\ Current' = None
    BY <1>7 DEF DispatchReturns, RealMessage, Phase, HeldMessage, Pending, Current
  <2> QED BY <2>1 DEF Box!Next, Box!Return
<1>8. CASE DispatchThrows
  <2>1. /\ Phase' = "closed" /\ Pending' = <<>> /\ Current # None /\ Current' = None
        /\ "dispatch" \in Failures
    BY <1>8 DEF DispatchThrows, RealMessage, Phase, Pending, Current
  <2> QED BY <2>1 DEF Box!Next, Box!Fail, Box!Drop
<1> QED BY <1>3, <1>4, <1>5, <1>6, <1>7, <1>8 DEF ReceiverStep

LEMMA InitRefines == Init => Box!Init
<1> SUFFICES ASSUME Init PROVE Box!Init
  OBVIOUS
<1>1. Phase = "new" /\ HeldMessage = <<>> /\ Current = None /\ queue = <<>>
  BY DEF Init, Phase, HeldMessage, Current
<1>2. <<>> \o <<>> = <<>>
  OBVIOUS
<1> QED BY <1>1, <1>2 DEF Pending, Box!Init

\* Every process that is not stopped before it runs is a mailbox to its task, for any
\* number of messages and any failures: order, one dispatch at a time, and silence
\* once it is closed (message_receiver.cpp:25-54).
THEOREM MailboxImplemented == ~EarlyStop /\ Spec => ImplementsMailbox
<1>1. SUFFICES ASSUME ~EarlyStop PROVE Spec => ImplementsMailbox
  OBVIOUS
<1>2. TypeOK /\ PipelineInv /\ RealMessage /\ [Next]_vars => [Box!Next]_(Box!vars)
  <2> SUFFICES ASSUME TypeOK, PipelineInv, RealMessage, [Next]_vars
               PROVE  [Box!Next]_(Box!vars)
    OBVIOUS
  <2>1. CASE UNCHANGED vars
    BY <2>1 DEF vars, messages, Phase, HeldMessage, Pending, Current, Box!vars
  <2> QED
    BY <2>1, RunRefines, StopRefines, PushRefines, ReceiverRefines DEF Next
<1>3. Init => RealMessage
  BY DEF Init, RealMessage
<1>4. Spec => []PipelineInv
  BY <1>1, PipelineKept, PTL
<1> QED
  BY <1>2, <1>3, <1>4, InitRefines, NextRealMessage, TypeCorrect, PTL
     DEF Spec, ImplementsMailbox, Box!Spec
=============================================================================
