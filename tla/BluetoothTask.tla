---------------------------- MODULE BluetoothTask ----------------------------
(***************************************************************************)
(* core/bluetooth_task: BluetoothDispatcher::dispatch and                  *)
(* BluetoothHandler::scan.  What the radio finds is an input.              *)
(***************************************************************************)
EXTENDS TaskRuntime

BluetoothState == {"Ready", "Cooldown"}

(* BluetoothHandler *)
\* The device list is loaded and not used; loading it can only fail.
scan == <<Call("scan")>>

(* BluetoothDispatcher: nothing assigns Ready once a scan has been made *)
ScanRequested ==
    Dispatch("bluetooth", "Ready", "RequestBluetoothScan",
             Append(scan, Become("Cooldown")))

BluetoothIgnores == Ignore("bluetooth", {<<"Ready", "RequestBluetoothScan">>})

\* Mutant: the answer has no message type of its own.
ScanReturnsUnknown ==
    /\ Calling("bluetooth", "scan")
    /\ todo' = [todo EXCEPT !["bluetooth"] = <<Send("main", "Unknown")>> \o Tail(@)]
    /\ UNCHANGED <<state, queue, timer, net, up>>

\* driver_->scan() returns some devices or none; the answer is sent next.
ScanReturns ==
    /\ Calling("bluetooth", "scan")
    /\ \E answer \in {"RespondDeviceFound", "RespondDeviceNotFound"} :
         todo' = [todo EXCEPT !["bluetooth"] = <<Send("main", answer)>> \o Tail(@)]
    /\ UNCHANGED <<state, queue, timer, net, up>>

BluetoothReceives == ScanRequested \/ BluetoothIgnores

BluetoothNext == \/ BluetoothReceives
                 \/ ScanReturns
                 \/ Perform("bluetooth")
=============================================================================
