------------------------------ MODULE HumanTask ------------------------------
(***************************************************************************)
(* core/human_task: HumanDispatcher::dispatch and HumanHandler.            *)
(*                                                                         *)
(* PIRDriver::run(), which start_detect calls on the receiver thread, is   *)
(* one call that returns when the sensor sees a person, that is, perhaps   *)
(* never: nothing calls PIRDriver::stop().                                 *)
(*                                                                         *)
(* External: whoever pushes HumanDetected to the task's queue when the     *)
(* sensor fires (no code under src/ does).                                 *)
(***************************************************************************)
EXTENDS TaskRuntime

CONSTANT MaxReports     \* bound: how often the sensor reports a person

ASSUME MaxReportsAssumption == MaxReports \in Nat

VARIABLE reports        \* how often it has

HumanState == {"Detecting", "Stopped"}

(* HumanHandler *)
\* The timer pushes to the queue the handler was built with: the human process's own,
\* the one where HumanDispatcher looks for CooldownTimeout.
get_detect == <<Send("main", "HumanDetected"), StartTimer("CooldownTimeout")>>

\* pir_->run()
start_detect == <<Call("sense")>>

(* HumanDispatcher *)
PersonDetected ==
    Dispatch("human", "Detecting", "HumanDetected",
             Append(get_detect, Become("Stopped")))

DetectionStops ==
    Dispatch("human", "Detecting", "StopHumanDetection", <<Become("Stopped")>>)

DetectionRestarts ==
    \E m \in {"CooldownTimeout", "StartHumanDetection"} :
        Dispatch("human", "Stopped", m, Append(start_detect, Become("Detecting")))

HumanHandles == {<<"Detecting", "HumanDetected">>, <<"Detecting", "StopHumanDetection">>,
                 <<"Stopped", "CooldownTimeout">>, <<"Stopped", "StartHumanDetection">>}

HumanIgnores == Ignore("human", HumanHandles)

HumanReceives == PersonDetected \/ DetectionStops \/ DetectionRestarts \/ HumanIgnores

HumanNext == HumanReceives \/ Perform("human")

\* pir_->run() returns: the sensor has seen a person.
Sensed ==
    /\ Calling("human", "sense")
    /\ Returned("human")
    /\ UNCHANGED <<queue, timer, net, up>>

\* The sensor reports a person, at any time.
SensorFires ==
    /\ reports < MaxReports
    /\ reports' = reports + 1
    /\ queue' = [queue EXCEPT !["human"] = Append(@, "HumanDetected")]
    /\ UNCHANGED <<state, todo, timer, net, up>>

-----------------------------------------------------------------------------
(* Properties *)

\* Main and human never wait for each other: if main waits for a person and the
\* human task is stopped, something on its way will wake one of them
\* (main_handler.cpp:57-84, human_handler.cpp:25-36, human_dispatcher.cpp:55-71).
NoMutualWait ==
    /\ up["main"] /\ Idle("main") /\ state["main"] = "WaitingHumanDetection"
    /\ up["human"] /\ Idle("human") /\ state["human"] = "Stopped"
    => \/ Coming("main", "HumanDetected")
       \/ Coming("human", "StartHumanDetection")
       \/ TimeoutAhead("human", "CooldownTimeout")

\* A stopped human task goes back to its sensor, unless the main task is in its
\* retry states, which it may never leave, or one of the two has died
\* (main_dispatcher.cpp:63-80).
HumanResumes ==
    (state["human"] = "Stopped")
        ~> (Calling("human", "sense") \/ Retrying \/ ~up["human"] \/ ~up["main"])
=============================================================================
