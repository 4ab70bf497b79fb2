--------------------------- MODULE DetectionCycle ---------------------------
(***************************************************************************)
(* DeviceReminder with the bluetooth task replaced by a peer that answers  *)
(* any scan request, as the main task's retry states presuppose.           *)
(* BluetoothTask answers one request only, so that DeviceReminder never    *)
(* sees a second answer; here every case of MainDispatcher is reached.     *)
(*                                                                         *)
(* External: ScanIsAnswered stands for the peer at bt_endpoint_, seen      *)
(* through the messages main_handler.cpp exchanges with it.                *)
(***************************************************************************)
EXTENDS DeviceReminder

deviceVars == <<buzzing, reports>>

\* The peer takes the oldest request and answers it, or fails and does not.
ScanIsAnswered ==
    /\ net["bluetooth"] # <<>>
    /\ \E answer \in {<<"RespondDeviceFound">>, <<"RespondDeviceNotFound">>, <<>>} :
         net' = [net EXCEPT !["bluetooth"] = Tail(@), !["main"] = @ \o answer]
    /\ UNCHANGED <<state, queue, todo, timer, up>>

\* The tasks beside the peer.
Partners == {"main", "human", "buzzer"}

PartnerFires == \E p \in Partners : TimerFires(p)
PartnerDelivers == \E p \in Partners : Deliver(p)

CycleNext ==
    \/ /\ MainNext \/ HumanNext \/ ScanIsAnswered \/ Sensed \/ PartnerFires \/ PartnerDelivers
       /\ UNCHANGED deviceVars
    \/ BuzzerNext /\ UNCHANGED reports
    \/ SensorFires /\ UNCHANGED buzzing

CycleSpec == Init /\ [][CycleNext]_vars

\* As in DeviceReminder; the peer takes every request, and need not answer it.
CycleFairness ==
    WF_vars(\/ /\ MainNext \/ HumanNext \/ ScanIsAnswered \/ PartnerFires \/ PartnerDelivers
               /\ UNCHANGED deviceVars
            \/ BuzzerNext /\ UNCHANGED reports)

FairCycleSpec == CycleSpec /\ CycleFairness

-----------------------------------------------------------------------------
(* Properties *)

\* Nothing that could take the main task out of a retry state is on its way.
Stranded ==
    /\ Idle("main")
    /\ ~TimeoutAhead("main", "ProcessingTimeout")
    /\ \/ /\ state["main"] = "BluetoothScanRequestCooldown"
          /\ ~TimeoutAhead("main", "CooldownTimeout")
       \/ /\ state["main"] = "WaitingDevicePresenceRetryResponse"
          /\ net["bluetooth"] = <<>>
          /\ ~Coming("main", "RespondDeviceFound")
          /\ ~Coming("main", "RespondDeviceNotFound")

\* The retry states are left for the sensor again, or stranded for want of a timer
\* or an answer; the main task does not go round in them for ever
\* (main_dispatcher.cpp:54-80).
RetryEnds == Retrying ~> (state["main"] = "WaitingHumanDetection" \/ Stranded)
=============================================================================
