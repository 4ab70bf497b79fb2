------------------------- MODULE TimerServiceProofs -------------------------
(***************************************************************************)
(* Proofs about TimerService, for any set of messages, any number of       *)
(* starts and any choice of failing calls.  TypeOK is inductive by itself; *)
(* OwnerWorkerInv is inductive with it; the safety invariants and the      *)
(* refinement of Timer follow.                                             *)
(***************************************************************************)
EXTENDS TimerService, TLAPS, FiniteSetTheorems

USE NoMessageAssumption, MaxStartsAssumption, FailuresAssumption

Inductive == TypeOK /\ OwnerWorkerInv

\* The object starts out with no timer and no worker.
LEMMA InitInductive == Init => Inductive
<1> SUFFICES ASSUME Init PROVE Inductive
  OBVIOUS
<1> USE DEF Init
<1>1. TypeOK
  <2>1. inbox \in Seq(Message)
    OBVIOUS
  <2>2. wpc \in [Worker -> {"unborn"} \cup Live \cup Ready]
    OBVIOUS
  <2>3. future \in 0 .. launched /\ launched \in 0 .. MaxStarts
    OBVIOUS
  <2> QED BY <2>1, <2>2, <2>3 DEF TypeOK, Resting
<1>2. OwnerWorkerInv
  BY DEF OwnerWorkerInv, LiveWorkerIsOwned, CancelledWorkerIsAwaited,
         MessageIsSet, LaunchIsPrepared, FailureIsHeld, FutureThrows, Live, Starting
<1> QED BY <1>1, <1>2 DEF Inductive

\* No step takes a member or a thread out of its type.
LEMMA NextTypeOK == Inductive /\ [Next]_vars => TypeOK'
<1> SUFFICES ASSUME TypeOK, OwnerWorkerInv, [Next]_vars PROVE TypeOK'
  BY DEF Inductive
<1> USE DEF TypeOK, Worker, Live, Ready, Resting, Starting, Stopping
<1>1. CASE StartCall BY <1>1 DEF StartCall
<1>2. CASE StopCall BY <1>2 DEF StopCall
<1>3. CASE Destroy BY <1>3 DEF Destroy
<1>4. CASE StartCheck BY <1>4 DEF StartCheck
<1>5. CASE StartCancel BY <1>5 DEF StartCancel
<1>6. CASE StartGet
  <2>1. running' \in BOOLEAN /\ pc' \in {"threw", "start_validate"}
    BY <1>6 DEF StartGet
  <2> QED BY <1>6, <2>1 DEF StartGet
<1>7. CASE StartValidate BY <1>7 DEF StartValidate
<1>8. CASE StartArm BY <1>8 DEF StartArm
<1>9. CASE StartLaunch
  <2>1. launched < MaxStarts
    BY <1>9 DEF StartLaunch, OwnerWorkerInv, LaunchIsPrepared
  <2> QED BY <1>9, <2>1 DEF StartLaunch
<1>10. CASE StartLaunchFails BY <1>10 DEF StartLaunchFails
<1>11. CASE StartPoll
  <2>1. pc' \in {"threw", "started"} /\ future' \in {0, future}
    BY <1>11 DEF StartPoll
  <2>2. running' \in BOOLEAN
    BY <1>11 DEF StartPoll
  <2> QED BY <1>11, <2>1, <2>2 DEF StartPoll
<1>12. CASE StopCheck BY <1>12 DEF StopCheck
<1>13. CASE StopCancel BY <1>13 DEF StopCancel
<1>14. CASE StopGet
  <2>1. pc' \in {"threw", "stopped"} /\ future' = 0 /\ message' = NoMessage
    BY <1>14 DEF StopGet
  <2>2. running' \in BOOLEAN
    BY <1>14 DEF StopGet
  <2>3. UNCHANGED <<arg, cancel, launched, wpc, inbox>>
    BY <1>14 DEF StopGet
  <2> QED BY <2>1, <2>2, <2>3
<1>15. ASSUME NEW w \in Worker, WorkerWake(w) PROVE TypeOK'
  <2>1. wpc' \in [Worker -> {"unborn"} \cup Live \cup Ready]
    BY <1>15 DEF WorkerWake
  <2> QED BY <1>15, <2>1 DEF WorkerWake, ownerVars
<1>16. ASSUME NEW w \in Worker, WorkerSend(w) PROVE TypeOK'
  <2>1. message \in Message
    BY <1>16 DEF WorkerSend, OwnerWorkerInv, MessageIsSet
  <2> QED BY <1>16, <2>1 DEF WorkerSend, ownerVars
<1>17. ASSUME NEW w \in Worker, WorkerSendFails(w) PROVE TypeOK'
  BY <1>17 DEF WorkerSendFails, ownerVars
<1>18. ASSUME NEW w \in Worker, WorkerClear(w) PROVE TypeOK'
  BY <1>18 DEF WorkerClear, ownerVars
<1>19. CASE UNCHANGED vars BY <1>19 DEF vars
<1> QED
  BY <1>1, <1>2, <1>3, <1>4, <1>5, <1>6, <1>7, <1>8, <1>9, <1>10, <1>11,
     <1>12, <1>13, <1>14, <1>15, <1>16, <1>17, <1>18, <1>19
     DEF Next, OwnerNext, StartStep, StopStep, WorkerNext

\* Each step of the owner or of a worker keeps the facts they share.
LEMMA NextOwnerWorkerInv == Inductive /\ [Next]_vars => OwnerWorkerInv'
<1> SUFFICES ASSUME TypeOK, OwnerWorkerInv, [Next]_vars PROVE OwnerWorkerInv'
  BY DEF Inductive
<1> USE DEF OwnerWorkerInv, LiveWorkerIsOwned, CancelledWorkerIsAwaited,
            MessageIsSet, LaunchIsPrepared, FailureIsHeld, FutureThrows
<1>0. wpc \in [Worker -> {"unborn"} \cup Live \cup Ready] /\ launched \in Nat
  BY DEF TypeOK
<1>1. CASE StartCall BY <1>1 DEF StartCall, Resting, Starting, Live
<1>2. CASE StopCall BY <1>2 DEF StopCall, Resting, Starting, Live
<1>3. CASE Destroy BY <1>3 DEF Destroy, Starting, Live
<1>4. CASE StartCheck BY <1>4 DEF StartCheck, Starting, Live
<1>5. CASE StartCancel BY <1>5 DEF StartCancel, Starting, Live
<1>6. CASE StartGet
  <2>1. \A w \in Worker : wpc[w] \notin Live
    BY <1>6 DEF StartGet, FutureReady, Live, Ready, Worker
  <2>2. wpc' = wpc /\ pc' \in {"threw", "start_validate"} /\ launched' = launched
    BY <1>6 DEF StartGet
  <2> QED BY <1>6, <2>1, <2>2 DEF StartGet, Starting, Live
<1>7. CASE StartValidate BY <1>7 DEF StartValidate, Starting, Live, TypeOK
<1>8. CASE StartArm BY <1>8 DEF StartArm, Starting, Live
<1>9. CASE StartLaunch
  <2>1. launched + 1 \in Worker
    BY <1>9, <1>0 DEF StartLaunch, Worker, Starting
  <2>2. \A w \in Worker : wpc[w] \notin Live
    BY <1>9 DEF StartLaunch
  <2>3. \A w \in Worker : wpc'[w] = IF w = launched + 1 THEN "sleep" ELSE wpc[w]
    BY <1>9, <1>0, <2>1 DEF StartLaunch
  <2>4. \A w \in Worker : wpc'[w] \in Live => w = launched + 1
    BY <2>2, <2>3
  <2>5. LiveWorkerIsOwned'
    BY <1>9, <2>4 DEF StartLaunch
  <2>6. CancelledWorkerIsAwaited'
    BY <1>9, <2>4 DEF StartLaunch
  <2>7. MessageIsSet'
    BY <1>9 DEF StartLaunch
  <2>8. LaunchIsPrepared'
    BY <1>9, <1>0, <2>3 DEF StartLaunch, Worker, Starting
  <2>9. FailureIsHeld'
    BY <1>9, <2>1, <2>3 DEF StartLaunch
  <2> QED BY <2>5, <2>6, <2>7, <2>8, <2>9
<1>10. CASE StartLaunchFails BY <1>10 DEF StartLaunchFails, Starting, Live
<1>11. CASE StartPoll
  <2>1. FutureReady => \A w \in Worker : wpc[w] \notin Live
    BY <1>11 DEF FutureReady, Live, Ready, Worker
  <2>2. wpc' = wpc /\ pc' \in {"threw", "started"} /\ launched' = launched
    BY <1>11 DEF StartPoll
  <2> QED BY <1>11, <2>1, <2>2 DEF StartPoll, Starting, Live
<1>12. CASE StopCheck BY <1>12 DEF StopCheck, Starting, Live
<1>13. CASE StopCancel BY <1>13 DEF StopCancel, Starting, Live
<1>14. CASE StopGet
  <2>1. \A w \in Worker : wpc[w] \notin Live
    BY <1>14 DEF StopGet, FutureReady, Live, Ready, Worker
  <2>2. /\ wpc' = wpc /\ pc' \in {"threw", "stopped"} /\ launched' = launched
        /\ future' = 0
    BY <1>14 DEF StopGet
  <2> QED BY <2>1, <2>2 DEF Starting, Live
<1>15. ASSUME NEW w \in Worker, WorkerWake(w) PROVE OwnerWorkerInv'
  BY <1>15, <1>0 DEF WorkerWake, ownerVars, Live
<1>16. ASSUME NEW w \in Worker, WorkerSend(w) PROVE OwnerWorkerInv'
  BY <1>16, <1>0 DEF WorkerSend, ownerVars, Live
<1>17. ASSUME NEW w \in Worker, WorkerSendFails(w) PROVE OwnerWorkerInv'
  BY <1>17, <1>0 DEF WorkerSendFails, ownerVars, Live
<1>18. ASSUME NEW w \in Worker, WorkerClear(w) PROVE OwnerWorkerInv'
  <2>1. \A v \in Worker : wpc'[v] \notin Live
    BY <1>18, <1>0 DEF WorkerClear, Live
  <2>2. wpc' = [wpc EXCEPT ![w] = "done"] /\ wpc[w] = "clear" /\ UNCHANGED ownerVars
    BY <1>18 DEF WorkerClear
  <2>3. pc # "start_launch"
    BY <2>2 DEF Live
  <2> QED BY <1>0, <2>1, <2>2, <2>3 DEF ownerVars, Starting, Live
<1>19. CASE UNCHANGED vars BY <1>19 DEF vars
<1> QED
  BY <1>1, <1>2, <1>3, <1>4, <1>5, <1>6, <1>7, <1>8, <1>9, <1>10, <1>11,
     <1>12, <1>13, <1>14, <1>15, <1>16, <1>17, <1>18, <1>19
     DEF Next, OwnerNext, StartStep, StopStep, WorkerNext

\* TimerService keeps every member and thread in its type (timer_service.hpp:36-45).
THEOREM TypeCorrect == Spec => []TypeOK
<1>1. Inductive /\ [Next]_vars => Inductive'
  BY NextTypeOK, NextOwnerWorkerInv DEF Inductive
<1>2. Inductive => TypeOK
  BY DEF Inductive
<1> QED BY InitInductive, <1>1, <1>2, PTL DEF Spec

\* A live worker is always the owner's current one, sees cancel_ only while it
\* is waited for, and has a message to send (timer_service.cpp:31-71, 82-119).
THEOREM OwnerAndWorkerAgree == Spec => []OwnerWorkerInv
<1>1. Inductive /\ [Next]_vars => Inductive'
  BY NextTypeOK, NextOwnerWorkerInv DEF Inductive
<1>2. Inductive => OwnerWorkerInv
  BY DEF Inductive
<1> QED BY InitInductive, <1>1, <1>2, PTL DEF Spec

\* start() never lets two workers run side by side (timer_service.cpp:31-38).
THEOREM OneWorkerAtATime == Spec => []AtMostOneWorker
<1>1. OwnerWorkerInv => AtMostOneWorker
  <2> SUFFICES ASSUME OwnerWorkerInv PROVE AtMostOneWorker
    OBVIOUS
  <2>1. LiveWorkers \subseteq {future}
    BY DEF OwnerWorkerInv, LiveWorkerIsOwned, LiveWorkers
  <2>2. IsFiniteSet({future}) /\ Cardinality({future}) = 1
    BY FS_Singleton
  <2>3. Cardinality(LiveWorkers) <= Cardinality({future})
    BY <2>1, <2>2, FS_Subset
  <2>4. Cardinality(LiveWorkers) \in Nat
    BY <2>1, <2>2, FS_Subset, FS_CardinalityType
  <2> QED BY <2>2, <2>3, <2>4 DEF AtMostOneWorker
<1> QED BY <1>1, OwnerAndWorkerAgree, PTL

\* Once stop() has returned, no worker can push or touch the object any more
\* (timer_service.cpp:79-97), however the two threads interleaved.
THEOREM NothingAfterStop == Spec => []QuietAfterStop
<1>1. OwnerWorkerInv => QuietAfterStop
  BY DEF OwnerWorkerInv, LiveWorkerIsOwned, QuietAfterStop, LiveWorkers
<1> QED BY <1>1, OwnerAndWorkerAgree, PTL

\* The future is given up by the collecting steps alone, and the collecting step that
\* finds an exception throws.
LEMMA StepSurfaces == Inductive /\ [Next]_vars => (FutureThrows /\ future' # future => pc' = "threw")
<1> SUFFICES ASSUME OwnerWorkerInv, Next, FutureThrows, future' # future
             PROVE  pc' = "threw"
  BY DEF Inductive, vars
<1>1. CASE StartGet BY <1>1 DEF StartGet
<1>2. CASE StartPoll BY <1>2 DEF StartPoll, FutureReady, FutureThrows, Ready
<1>3. CASE StopGet BY <1>3 DEF StopGet
<1>4. CASE StartLaunch
  BY <1>4 DEF StartLaunch, OwnerWorkerInv, FailureIsHeld
<1>5. ~(StartCall \/ StopCall \/ Destroy)
  BY DEF StartCall, StopCall, Destroy
<1>6. ~(StartCheck \/ StartCancel \/ StartValidate \/ StartArm \/ StartLaunchFails
        \/ StopCheck \/ StopCancel)
  BY DEF StartCheck, StartCancel, StartValidate, StartArm, StartLaunchFails,
         StopCheck, StopCancel
<1>7. \A w \in Worker : ~WorkerNext(w)
  BY DEF WorkerNext, WorkerWake, WorkerSend, WorkerSendFails, WorkerClear, ownerVars
<1> QED
  BY <1>1, <1>2, <1>3, <1>4, <1>5, <1>6, <1>7 DEF Next, OwnerNext, StartStep, StopStep

\* An exception of the worker reaches whoever calls start() or stop() next: no step
\* drops a future that holds one without throwing (timer_service.cpp:33-35, 64-66,
\* 87-105).
THEOREM ExceptionSurfaces == Spec => WorkerExceptionSurfaces
<1>1. Inductive /\ [Next]_vars => Inductive'
  BY NextTypeOK, NextOwnerWorkerInv DEF Inductive
<1> QED
  BY <1>1, InitInductive, StepSurfaces, PTL DEF Spec, WorkerExceptionSurfaces

-----------------------------------------------------------------------------
(* The service implements the one-shot timer of Timer.tla. *)

Armable == {"sleep", "send"}

\* How the mapped armed message follows the workers.
LEMMA ArmedMeaning ==
  ASSUME OwnerWorkerInv
  PROVE  /\ (\E w \in Worker : wpc[w] \in Armable) =>
               armedMessage = message /\ message \in Message
                 /\ armedMessage # NoMessage
         /\ (\A w \in Worker : wpc[w] \notin Armable) => armedMessage = NoMessage
  BY DEF OwnerWorkerInv, MessageIsSet, armedMessage, Armable

\* Two workers cannot both be live.
LEMMA LiveIsUnique ==
  ASSUME OwnerWorkerInv, NEW v \in Worker, NEW w \in Worker,
         wpc[v] \in Live, wpc[w] \in Live
  PROVE  v = w
  BY DEF OwnerWorkerInv, LiveWorkerIsOwned

\* A step of the owner that leaves the workers and the message they carry alone
\* leaves the armed message alone.
LEMMA ArmedUnchanged ==
  ASSUME OwnerWorkerInv, wpc' = wpc,
         message' = message \/ \A w \in Worker : wpc[w] \notin Live
  PROVE  armedMessage' = armedMessage
  BY DEF armedMessage, Live

\* Every step of the service is a step of the abstract timer, or none.
LEMMA StepRefines == Inductive /\ [Next]_vars => [T!Next]_(T!vars)
<1> SUFFICES ASSUME TypeOK, OwnerWorkerInv, [Next]_vars
             PROVE  T!Next \/ UNCHANGED T!vars
  BY DEF Inductive
<1> USE DEF T!vars, outstandingCall, Resting, Starting, Stopping
<1>0. wpc \in [Worker -> {"unborn"} \cup Live \cup Ready] /\ launched \in Nat
  BY DEF TypeOK
<1>1. CASE StartCall
  <2>1. armedMessage' = armedMessage
    BY <1>1, ArmedUnchanged DEF StartCall
  <2> QED BY <1>1, <2>1 DEF StartCall, T!Next, T!Call
<1>2. CASE StopCall
  <2>1. armedMessage' = armedMessage
    BY <1>2, ArmedUnchanged DEF StopCall
  <2> QED BY <1>2, <2>1 DEF StopCall, T!Next, T!Call
<1>3. CASE Destroy
  <2>1. armedMessage' = armedMessage
    BY <1>3, ArmedUnchanged DEF Destroy
  <2> QED BY <1>3, <2>1 DEF Destroy
<1>4. CASE StartCheck
  <2>1. armedMessage' = armedMessage
    BY <1>4, ArmedUnchanged DEF StartCheck
  <2> QED BY <1>4, <2>1 DEF StartCheck
<1>5. CASE StartCancel
  <2>1. armedMessage' = armedMessage
    BY <1>5, ArmedUnchanged DEF StartCancel
  <2> QED BY <1>5, <2>1 DEF StartCancel
<1>6. CASE StartGet
  <2>1. armedMessage' = armedMessage
    BY <1>6, ArmedUnchanged DEF StartGet
  <2>2. pc = "start_get" /\ pc' \in {"threw", "start_validate"} /\ inbox' = inbox
    BY <1>6 DEF StartGet
  <2> QED BY <2>1, <2>2 DEF T!Next, T!Return
<1>7. CASE StartValidate
  <2>1. armedMessage' = armedMessage
    BY <1>7, ArmedUnchanged DEF StartValidate, OwnerWorkerInv, LiveWorkerIsOwned
  <2>2. pc = "start_validate" /\ pc' \in {"threw", "start_arm"} /\ inbox' = inbox
    BY <1>7 DEF StartValidate
  <2> QED BY <2>1, <2>2 DEF T!Next, T!Return
<1>8. CASE StartArm
  <2>1. armedMessage' = armedMessage
    BY <1>8, ArmedUnchanged DEF StartArm
  <2> QED BY <1>8, <2>1 DEF StartArm
<1>9. CASE StartLaunch
  <2>1. launched + 1 \in Worker
    BY <1>9, <1>0 DEF StartLaunch, Worker, OwnerWorkerInv, LaunchIsPrepared
  <2>2. armedMessage = NoMessage
    BY <1>9, ArmedMeaning
       DEF StartLaunch, OwnerWorkerInv, LiveWorkerIsOwned, Live, Armable
  <2>3. wpc'[launched + 1] = "sleep"
    BY <1>9, <1>0, <2>1 DEF StartLaunch
  <2>4. message \in Message /\ message' = message
    BY <1>9 DEF StartLaunch, OwnerWorkerInv, MessageIsSet
  <2>5. armedMessage' = message
    BY <2>1, <2>3, <2>4 DEF armedMessage
  <2> QED BY <1>9, <2>2, <2>4, <2>5 DEF StartLaunch, T!Next, T!Arm
<1>10. CASE StartLaunchFails
  <2>1. armedMessage' = armedMessage
    BY <1>10, ArmedUnchanged DEF StartLaunchFails
  <2> QED BY <1>10, <2>1 DEF StartLaunchFails, T!Next, T!Return
<1>11. CASE StartPoll
  <2>1. armedMessage' = armedMessage
    BY <1>11, ArmedUnchanged DEF StartPoll
  <2>2. pc = "start_poll" /\ pc' \in {"threw", "started"} /\ inbox' = inbox
    BY <1>11 DEF StartPoll
  <2> QED BY <2>1, <2>2 DEF T!Next, T!Return
<1>12. CASE StopCheck
  <2>1. armedMessage' = armedMessage
    BY <1>12, ArmedUnchanged DEF StopCheck
  <2>2. CASE running
    BY <1>12, <2>1, <2>2 DEF StopCheck
  <2>3. CASE ~running
    <3>1. armedMessage = NoMessage
      BY <2>3, ArmedMeaning DEF OwnerWorkerInv, LiveWorkerIsOwned, Live, Armable
    <3> QED BY <1>12, <2>1, <2>3, <3>1 DEF StopCheck, T!Next, T!Return
  <2> QED BY <2>2, <2>3
<1>13. CASE StopCancel
  <2>1. armedMessage' = armedMessage
    BY <1>13, ArmedUnchanged DEF StopCancel
  <2> QED BY <1>13, <2>1 DEF StopCancel
<1>14. CASE StopGet
  <2>1. \A w \in Worker : wpc[w] \notin Live
    BY <1>14 DEF StopGet, FutureReady, Live, Ready, Worker,
                 OwnerWorkerInv, LiveWorkerIsOwned
  <2>2. wpc' = wpc
    BY <1>14 DEF StopGet
  <2>3. armedMessage' = armedMessage
    BY <2>1, <2>2, ArmedUnchanged
  <2>4. armedMessage = NoMessage
    BY <2>1, ArmedMeaning DEF Live, Armable
  <2>5. pc = "stop_get" /\ pc' \in {"threw", "stopped"} /\ inbox' = inbox
    BY <1>14 DEF StopGet
  <2> QED BY <2>3, <2>4, <2>5 DEF T!Next, T!Return
<1>15. ASSUME NEW w \in Worker, WorkerWake(w)
       PROVE  T!Next \/ UNCHANGED T!vars
  <2>1. armedMessage = message /\ message \in Message /\ armedMessage # NoMessage
    BY <1>15, ArmedMeaning DEF WorkerWake, Armable
  <2>2. CASE cancel
    <3>1. pc \in {"start_get", "stop_get"}
      BY <1>15, <2>2 DEF WorkerWake, OwnerWorkerInv, CancelledWorkerIsAwaited, Live
    <3>2. \A v \in Worker : wpc'[v] \notin Armable
      BY <1>15, <1>0, <2>2, LiveIsUnique DEF WorkerWake, Live, Armable
    <3>3. armedMessage' = NoMessage
      BY <3>2 DEF armedMessage, Armable
    <3> QED BY <1>15, <2>1, <3>1, <3>3 DEF WorkerWake, ownerVars, T!Next, T!Discard
  <2>3. CASE ~cancel
    <3>1. wpc'[w] = "send" /\ message' = message
      BY <1>15, <1>0, <2>3 DEF WorkerWake, ownerVars
    <3>2. armedMessage' = message
      BY <3>1 DEF armedMessage
    <3> QED BY <1>15, <2>1, <3>2 DEF WorkerWake, ownerVars
  <2> QED BY <2>2, <2>3
<1>16. ASSUME NEW w \in Worker, WorkerSend(w)
       PROVE  T!Next \/ UNCHANGED T!vars
  <2>1. armedMessage = message /\ message \in Message /\ armedMessage # NoMessage
    BY <1>16, ArmedMeaning DEF WorkerSend, Armable
  <2>2. \A v \in Worker : wpc'[v] \notin Armable
    BY <1>16, <1>0, LiveIsUnique DEF WorkerSend, Live, Armable
  <2>3. armedMessage' = NoMessage
    BY <2>2 DEF armedMessage, Armable
  <2> QED BY <1>16, <2>1, <2>3 DEF WorkerSend, ownerVars, T!Next, T!Fire
<1>17. ASSUME NEW w \in Worker, WorkerSendFails(w)
       PROVE  T!Next \/ UNCHANGED T!vars
  <2>1. armedMessage = message /\ message \in Message /\ armedMessage # NoMessage
    BY <1>17, ArmedMeaning DEF WorkerSendFails, Armable
  <2>2. \A v \in Worker : wpc'[v] \notin Armable
    BY <1>17, <1>0, LiveIsUnique DEF WorkerSendFails, Live, Ready, Armable
  <2>3. armedMessage' = NoMessage
    BY <2>2 DEF armedMessage, Armable
  <2> QED BY <1>17, <2>1, <2>3 DEF WorkerSendFails, ownerVars, T!Next, T!Lose
<1>18. ASSUME NEW w \in Worker, WorkerClear(w)
       PROVE  T!Next \/ UNCHANGED T!vars
  <2>1. \A v \in Worker : (wpc'[v] \in Armable <=> wpc[v] \in Armable)
    BY <1>18, <1>0 DEF WorkerClear, Armable
  <2>2. armedMessage' = armedMessage
    BY <1>18, <2>1 DEF WorkerClear, ownerVars, armedMessage, Armable
  <2> QED BY <1>18, <2>2 DEF WorkerClear, ownerVars
<1>19. CASE UNCHANGED vars
  <2>1. armedMessage' = armedMessage
    BY <1>19 DEF vars, armedMessage
  <2> QED BY <1>19, <2>1 DEF vars
<1> QED
  BY <1>1, <1>2, <1>3, <1>4, <1>5, <1>6, <1>7, <1>8, <1>9, <1>10, <1>11,
     <1>12, <1>13, <1>14, <1>15, <1>16, <1>17, <1>18, <1>19
     DEF Next, OwnerNext, StartStep, StopStep, WorkerNext

\* The members, the future and the worker threads of timer_service.cpp together
\* behave as the one-shot timer the tasks are composed with.
THEOREM ServiceImplementsTimer == Spec => ImplementsTimer
<1>1. Init => T!Init
  BY DEF Init, T!Init, armedMessage, outstandingCall, Starting, Stopping
<1>2. Inductive /\ [Next]_vars => Inductive'
  BY NextTypeOK, NextOwnerWorkerInv DEF Inductive
<1> QED
  BY <1>1, <1>2, InitInductive, StepRefines, PTL
     DEF Spec, ImplementsTimer, T!Spec
=============================================================================
