------------------------------ MODULE MainTask ------------------------------
(***************************************************************************)
(* core/main_task: MainDispatcher::dispatch, one action per case of its    *)
(* switch, and the handler methods as the calls they make.                 *)
(***************************************************************************)
EXTENDS TaskRuntime

MainState == {"WaitingHumanDetection", "WaitingDevicePresenceResponse",
              "WaitingDevicePresenceRetryResponse", "BluetoothScanRequestCooldown"}

(* MainHandler *)
\* Mutant: the wait for the answer is not timed.
start_device_detect_untimed ==
    <<Send("bluetooth", "RequestBluetoothScan"), Send("human", "StopHumanDetection")>>

start_device_detect ==
    <<Send("bluetooth", "RequestBluetoothScan"),
      Send("human", "StopHumanDetection"),
      StartTimer("ProcessingTimeout")>>

\* Mutant: the human task is not told to resume.
end_device_first_detect_silent == <<>>

end_device_first_detect == <<Send("human", "StartHumanDetection")>>

\* Mutant: the buzzer is not told to stop.
end_device_retry_detect_buzzing == <<Send("human", "StartHumanDetection")>>

end_device_retry_detect == <<Send("human", "StartHumanDetection"),
                             Send("buzzer", "StopBuzzing")>>

\* The cooldown is timed by the timer that timed the detection: starting it
\* cancels the detection's timeout.
retry_device_detect == <<Send("buzzer", "StartBuzzing"),
                         StartTimer("CooldownTimeout")>>

send_bt_request == <<Send("bluetooth", "RequestBluetoothScan")>>

(* MainDispatcher *)
MainDispatch(s, m, calls, next) == Dispatch("main", s, m, Append(calls, Become(next)))

DetectionBegins ==
    MainDispatch("WaitingHumanDetection", "HumanDetected",
                 start_device_detect, "WaitingDevicePresenceResponse")

FirstResponseFound ==
    MainDispatch("WaitingDevicePresenceResponse", "RespondDeviceFound",
                 end_device_first_detect, "WaitingHumanDetection")

RetryResponseFound ==
    MainDispatch("WaitingDevicePresenceRetryResponse", "RespondDeviceFound",
                 end_device_retry_detect, "WaitingHumanDetection")

FirstResponseNotFound ==
    MainDispatch("WaitingDevicePresenceResponse", "RespondDeviceNotFound",
                 retry_device_detect, "BluetoothScanRequestCooldown")

RetryResponseNotFound ==
    MainDispatch("WaitingDevicePresenceRetryResponse", "RespondDeviceNotFound",
                 send_bt_request, "BluetoothScanRequestCooldown")

\* Mutant: the end of a cooldown starts the next one.
CooldownRestarts ==
    MainDispatch("BluetoothScanRequestCooldown", "CooldownTimeout",
                 <<StartTimer("CooldownTimeout")>>, "BluetoothScanRequestCooldown")

CooldownEnds ==
    MainDispatch("BluetoothScanRequestCooldown", "CooldownTimeout",
                 send_bt_request, "WaitingDevicePresenceRetryResponse")

\* Mutant: the wrong timeout is looked for.
FirstDetectIgnoresTimeout ==
    MainDispatch("WaitingDevicePresenceResponse", "CooldownTimeout",
                 end_device_first_detect, "WaitingHumanDetection")

FirstDetectTimesOut ==
    MainDispatch("WaitingDevicePresenceResponse", "ProcessingTimeout",
                 end_device_first_detect, "WaitingHumanDetection")

RetryDetectTimesOut ==
    \E s \in {"BluetoothScanRequestCooldown", "WaitingDevicePresenceRetryResponse"} :
        MainDispatch(s, "ProcessingTimeout",
                     end_device_retry_detect, "WaitingHumanDetection")

MainHandles ==
    {<<"WaitingHumanDetection", "HumanDetected">>,
     <<"BluetoothScanRequestCooldown", "CooldownTimeout">>,
     <<"BluetoothScanRequestCooldown", "ProcessingTimeout">>}
    \cup {"WaitingDevicePresenceResponse", "WaitingDevicePresenceRetryResponse"}
           \X {"RespondDeviceFound", "RespondDeviceNotFound", "ProcessingTimeout"}

MainIgnores == Ignore("main", MainHandles)

MainReceives ==
    \/ DetectionBegins
    \/ FirstResponseFound \/ FirstResponseNotFound \/ FirstDetectTimesOut
    \/ RetryResponseFound \/ RetryResponseNotFound \/ RetryDetectTimesOut
    \/ CooldownEnds
    \/ MainIgnores

MainNext == MainReceives \/ Perform("main")

-----------------------------------------------------------------------------
(* Properties *)

\* While the main task waits for the first scan's answer, the timeout that ends the
\* wait is still to come: every path into the state arms it (main_handler.cpp:48)
\* and no path cancels it without leaving (main_dispatcher.cpp:54-57).
DetectionIsTimed ==
    up["main"] /\ Idle("main") /\ state["main"] = "WaitingDevicePresenceResponse"
        => TimeoutAhead("main", "ProcessingTimeout")

\* What the buzzer is going to get, and where the main task's orders are among it.
BuzzerGets == queue["buzzer"] \o net["buzzer"]
BuzzOrders == {i \in DOMAIN BuzzerGets : BuzzerGets[i] \in {"StartBuzzing", "StopBuzzing"}}

\* Between two orders that are the same there is another.
OrdersTakeTurns ==
    \A i, j \in BuzzOrders : i < j /\ BuzzerGets[i] = BuzzerGets[j] =>
        \E k \in BuzzOrders : i < k /\ k < j

\* As the code sends them, from three handlers and over any number of detections, the
\* orders to start and to stop reach the buzzer in turns: a start only on the way into
\* the retry states, a stop only on the way out (main_dispatcher.cpp:48-80,
\* main_handler.cpp:70-101).  And the last order is to sound exactly while the main task
\* retries.  The turns are this code's: the tests of an earlier main task expect another
\* start on a second negative answer and on a cooldown's end, and a stop on a positive
\* first answer (test_main_handler.cpp:288-292, 123-125, 77-81).
BuzzOrdersAlternate ==
    /\ OrdersTakeTurns
    /\ up["main"] /\ Idle("main") =>
           \A last \in BuzzOrders : (\A i \in BuzzOrders : i <= last) =>
               (BuzzerGets[last] = "StartBuzzing" <=> Retrying)

\* The wait for the first answer ends, with an answer or with the timeout, whatever
\* becomes of the other tasks (main_dispatcher.cpp:45-62, 69-72).
FirstWaitEnds ==
    (state["main"] = "WaitingDevicePresenceResponse")
        ~> (state["main"] # "WaitingDevicePresenceResponse" \/ ~up["main"])

-----------------------------------------------------------------------------
(* What the tests say and the code does not do *)

\* test_main_handler.cpp:101-104 expects the first negative answer to start the cooldown's
\* timer as it enters the cooldown, and 288-292 the second one to enter the same state.
\* Read together: in that state the end of the cooldown is always still to come.
CooldownIsTimed ==
    Idle("main") /\ state["main"] = "BluetoothScanRequestCooldown"
        => TimeoutAhead("main", "CooldownTimeout")
=============================================================================
