--------------------------- MODULE BluetoothDriver ---------------------------
(***************************************************************************)
(* infra/bluetooth_driver/bluetooth_driver.cpp: run() on one thread and    *)
(* stop() on another.  run() reads scanner_ and pairer_ twice each, to     *)
(* test and to call them, and stop() resets them without waiting for       *)
(* run(): a call of a reset pointer is a crash, as is undefined behaviour. *)
(*                                                                         *)
(* External: the scanner and the pairer.  A scan may go on for ever unless *)
(* the scanner is stopped; wait_for_stop() returns when no scan is going   *)
(* on.                                                                     *)
(*                                                                         *)
(* The names say Search where PirDriver has its own: RunStopProofs is      *)
(* about both drivers.                                                     *)
(***************************************************************************)
EXTENDS Integers, Sequences

CONSTANTS
    Scans,          \* what scan() may return: sequences of the devices' rssi
    SearchFailures  \* the calls that may throw: "scan", "pair", "stop"

ASSUME ScansAssumption == Scans \subseteq Seq(Int)

ASSUME SearchFailuresAssumption == SearchFailures \subseteq {"scan", "pair", "stop"}

VARIABLES
    searcher,       \* where run() is, or how the last one ended
    searchStopper,  \* where stop() is, or how it ended
    running,        \* running_
    scanner,        \* is scanner_ set?
    pairer,         \* is pairer_ set?
    asked,          \* has the scanner been stopped?
    devices,        \* run()'s local: the devices the loop has not looked at yet
    paired,         \* history: has this run() paired a device?
    searchStopped   \* history: has a stop() overlapped this run()?

Near(rssi) == rssi >= -50

pointers == <<scanner, pairer>>
searchHistory == <<paired, searchStopped>>
searchVars == <<searcher, searchStopper, running, pointers, asked, devices, searchHistory>>

SearchAtRest == {"new", "returned", "threw", "crashed"}
StopAtRest == {"idle", "stopped", "threw"}

SearchTypeOK ==
    /\ searcher \in SearchAtRest \cup {"mark", "test", "choose", "begin", "scan",
                                       "look", "call_pair", "pairing"}
    /\ searchStopper \in StopAtRest \cup {"unmark", "stop_scan", "wait", "reset_scanner",
                                        "reset_pairer"}
    /\ running \in BOOLEAN /\ scanner \in BOOLEAN /\ pairer \in BOOLEAN
    /\ asked \in BOOLEAN /\ paired \in BOOLEAN /\ searchStopped \in BOOLEAN
    /\ devices \in Seq(Int)
    /\ searcher \in {"call_pair", "pairing"} => devices # <<>> /\ Near(Head(devices))

SearchInit ==
    /\ searcher = "new" /\ searchStopper = "idle"
    /\ running = FALSE
    /\ scanner = TRUE /\ pairer = TRUE
    /\ asked = FALSE
    /\ devices = <<>>
    /\ paired = FALSE /\ searchStopped = FALSE

Search(here, there) ==
    /\ searcher = here /\ searcher' = there
    /\ UNCHANGED <<searchStopper, pointers, asked>>

-----------------------------------------------------------------------------
(* run() *)

SearchCall ==
    /\ searcher \in SearchAtRest \ {"crashed"}
    /\ searcher' = "mark"
    /\ paired' = FALSE
    /\ searchStopped' = (searchStopper \notin StopAtRest)
    /\ UNCHANGED <<searchStopper, running, pointers, asked, devices>>

SearchMarks ==
    /\ Search("mark", "test")
    /\ running' = TRUE
    /\ UNCHANGED <<devices, searchHistory>>

\* Mutant: the loop has no way out but a device.
LoopForever == Search("test", "choose") /\ UNCHANGED <<running, devices, searchHistory>>

\* while (running_)
LoopTest ==
    /\ Search("test", IF running THEN "choose" ELSE "returned")
    /\ UNCHANGED <<running, devices, searchHistory>>

\* scanner_ ? ... : no devices
Choose ==
    /\ Search("choose", IF scanner THEN "begin" ELSE "look")
    /\ devices' = <<>>
    /\ UNCHANGED <<running, searchHistory>>

ScanBegins ==
    /\ Search("begin", IF scanner THEN "scan" ELSE "crashed")
    /\ UNCHANGED <<running, devices, searchHistory>>

ScanReturns ==
    /\ Search("scan", "look")
    /\ devices' \in Scans
    /\ UNCHANGED <<running, searchHistory>>

\* Mutant: run() gives up when the scan brought nothing.
LookGivesUp ==
    /\ Search("look", IF devices = <<>> THEN "returned"
                      ELSE IF Near(Head(devices)) /\ pairer THEN "call_pair" ELSE "look")
    /\ devices' = IF searcher' = "look" THEN Tail(devices) ELSE devices
    /\ UNCHANGED <<running, searchHistory>>

\* The for loop: the next device, if any, is skipped or paired with.
Look ==
    /\ Search("look", IF devices = <<>> THEN "test"
                      ELSE IF Near(Head(devices)) /\ pairer THEN "call_pair" ELSE "look")
    /\ devices' = IF searcher' = "look" THEN Tail(devices) ELSE devices
    /\ UNCHANGED <<running, searchHistory>>

PairBegins ==
    /\ Search("call_pair", IF pairer THEN "pairing" ELSE "crashed")
    /\ UNCHANGED <<running, devices, searchHistory>>

PairSucceeds ==
    /\ Search("pairing", "returned")
    /\ running' = FALSE
    /\ paired' = TRUE
    /\ UNCHANGED <<devices, searchStopped>>

PairRefused ==
    /\ Search("pairing", "look")
    /\ devices' = Tail(devices)
    /\ UNCHANGED <<running, searchHistory>>

\* catch (...): running_ is cleared and the exception goes on.
SearchThrows ==
    /\ \/ "scan" \in SearchFailures /\ Search("scan", "threw")
       \/ "pair" \in SearchFailures /\ Search("pairing", "threw")
    /\ running' = FALSE
    /\ UNCHANGED <<devices, searchHistory>>

-----------------------------------------------------------------------------
(* stop() *)

StopSearch(here, there) ==
    /\ searchStopper = here /\ searchStopper' = there
    /\ UNCHANGED <<searcher, devices, searchHistory>>

SearchStopCall ==
    /\ searchStopper \in StopAtRest
    /\ searchStopper' = "unmark"
    /\ searchStopped' = TRUE
    /\ UNCHANGED <<searcher, running, pointers, asked, devices, paired>>

StopUnmarks ==
    /\ StopSearch("unmark", IF scanner THEN "stop_scan" ELSE "reset_pairer")
    /\ running' = FALSE
    /\ UNCHANGED <<pointers, asked>>

\* Mutant: stop() waits for the scan to end by itself.
StopScanNot == StopSearch("stop_scan", "wait") /\ UNCHANGED <<running, pointers, asked>>

\* scanner_->stop()
StopScan ==
    /\ StopSearch("stop_scan", "wait")
    /\ asked' = TRUE
    /\ UNCHANGED <<running, pointers>>

StopThrows ==
    /\ "stop" \in SearchFailures
    /\ StopSearch("stop_scan", "threw")
    /\ UNCHANGED <<running, pointers, asked>>

\* scanner_->wait_for_stop()
StopWaits ==
    /\ searcher # "scan"
    /\ StopSearch("wait", "reset_scanner")
    /\ UNCHANGED <<running, pointers, asked>>

ResetScanner ==
    /\ StopSearch("reset_scanner", "reset_pairer")
    /\ scanner' = FALSE
    /\ UNCHANGED <<running, pairer, asked>>

ResetPairer ==
    /\ StopSearch("reset_pairer", "stopped")
    /\ pairer' = FALSE
    /\ UNCHANGED <<running, scanner, asked>>

-----------------------------------------------------------------------------
SearchStep == \/ SearchMarks \/ LoopTest \/ Choose \/ ScanBegins \/ Look
              \/ PairBegins \/ PairSucceeds \/ PairRefused
SearchStopStep == \/ StopUnmarks \/ StopScan \/ StopThrows \/ StopWaits
                  \/ ResetScanner \/ ResetPairer

SearchNext == \/ SearchCall \/ SearchStep \/ ScanReturns \/ SearchThrows
              \/ SearchStopCall \/ SearchStopStep

SearchSpec == SearchInit /\ [][SearchNext]_searchVars

\* Threads are scheduled, a pairing comes to an end, and so does a scan once the
\* scanner has been stopped.
SearchFairness ==
    /\ WF_searchVars(SearchStep)
    /\ WF_searchVars(asked /\ ScanReturns)
    /\ WF_searchVars(SearchStopStep)

FairSearchSpec == SearchSpec /\ SearchFairness

-----------------------------------------------------------------------------
(* Properties *)

\* run() comes back without an exception only with a paired device, unless a stop()
\* overlapped it; and only beside a stop() can it meet a pointer that has been reset
\* (bluetooth_driver.cpp:25-43, 65-71).
UnpairedOnlyIfStopped == searcher \in {"returned", "crashed"} => paired \/ searchStopped

\* A stop() that comes while run() is in its loop ends it, though a scan is going on
\* or devices are left to try, unless the scanner throws instead of stopping
\* (bluetooth_driver.cpp:26, 65-68).
StopEndsSearch ==
    (searcher \notin SearchAtRest \cup {"mark"} /\ ~running)
        ~> (searcher \in SearchAtRest \/ searchStopper = "threw")

\* stop() comes back, unless another run() sets running_ meanwhile and scans on: it has
\* told the scanner to stop before it waits for the scan, and the run() it stops begins
\* no scan after the one it had decided on (bluetooth_driver.cpp:26-27, 65-71).
StopComesBack ==
    (searchStopper = "stop_scan" /\ ~running) ~> (searchStopper \in StopAtRest \/ running)
=============================================================================
