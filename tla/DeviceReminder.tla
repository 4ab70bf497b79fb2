--------------------------- MODULE DeviceReminder ---------------------------
(***************************************************************************)
(* The four task processes App::run spawns, composed: main, human,         *)
(* bluetooth and buzzer, their timers, and the endpoints between them.     *)
(***************************************************************************)
EXTENDS MainTask, HumanTask, BluetoothTask, BuzzerTask

vars == <<taskVars, buzzing, reports>>

TypeOK ==
    /\ TasksTypeOK
    /\ state \in [Task -> MainState \cup HumanState \cup BluetoothState \cup {"None"}]
    /\ state["main"] \in MainState
    /\ state["human"] \in HumanState
    /\ state["bluetooth"] \in BluetoothState
    /\ state["buzzer"] = "None"
    /\ buzzing \in BOOLEAN
    /\ reports \in 0 .. MaxReports

\* The dispatchers' initial states (main_dispatcher.hpp:31, human_dispatcher.hpp:36,
\* bluetooth_dispatcher.hpp:37); the buzzer is off (gpio_setter.cpp requests it low).
Init ==
    /\ InitTasks([main |-> "WaitingHumanDetection", human |-> "Detecting",
                  bluetooth |-> "Ready", buzzer |-> "None"])
    /\ buzzing = FALSE
    /\ reports = 0

Throws == \E p \in Task : HandlerThrows(p)
Fires == \E p \in Task : TimerFires(p)
Delivers == \E p \in Task : Deliver(p)

Environment == Sensed \/ Throws \/ Fires \/ Delivers

Next ==
    \/ (MainNext \/ HumanNext \/ BluetoothNext \/ Environment)
         /\ UNCHANGED <<buzzing, reports>>
    \/ BuzzerNext /\ UNCHANGED reports
    \/ SensorFires /\ UNCHANGED buzzing

Spec == Init /\ [][Next]_vars

\* While a receiver thread, a timer worker or the transport has something to do, one
\* of them does it.  The sensor does not have to see anybody, and no call has to throw.
Fairness ==
    WF_vars(\/ /\ MainNext \/ HumanNext \/ BluetoothNext \/ Fires \/ Delivers
               /\ UNCHANGED <<buzzing, reports>>
            \/ BuzzerNext /\ UNCHANGED reports)

FairSpec == Spec /\ Fairness

-----------------------------------------------------------------------------
(* Properties *)

\* Once the main task has stopped retrying and what it told the buzzer has arrived, the
\* buzzer is silent, and no start, timeout or late answer makes it sound again until the
\* main task retries (main_handler.cpp:70-101, buzzer_handler.cpp:24-62).
SilentUnlessRetrying ==
    /\ up["main"] /\ Idle("main") /\ ~Retrying
    /\ up["buzzer"] /\ Idle("buzzer")
    /\ ~Coming("buzzer", "StartBuzzing") /\ ~Coming("buzzer", "StopBuzzing")
    => ~buzzing
=============================================================================
