---------------------------- MODULE RunStopProofs ----------------------------
(***************************************************************************)
(* Proofs about the two drivers whose run() one thread is in while another *)
(* calls stop(): PirDriver, for any choice of failing libgpiod calls and,  *)
(* but for LineHeld, any number of threads that call run(); and            *)
(* BluetoothDriver, for any scans and failing calls.                       *)
(***************************************************************************)
EXTENDS PirDriver, BluetoothDriver, TLAPS

USE FailuresAssumption DEF AtRest, InRun

\* No step takes a flag, a thread or the line out of its type.
LEMMA NextTypeOK == TypeOK /\ [Next]_vars => TypeOK'
<1> SUFFICES ASSUME TypeOK, [Next]_vars PROVE TypeOK'
  OBVIOUS
<1> USE DEF TypeOK, At, Goto, flags, sensor, history
<1>1. ASSUME NEW r \in Runner, RunCall(r) PROVE TypeOK'
  <2>1. /\ runner' \in [Runner -> AtRest \cup InRun]
        /\ detected' \in [Runner -> BOOLEAN] /\ stopped' \in [Runner -> BOOLEAN]
    BY <1>1 DEF RunCall
  <2> QED BY <1>1, <2>1 DEF RunCall
<1>2. ASSUME NEW r \in Runner, Read(r) \/ Recheck(r) PROVE TypeOK'
  <2>1. runner' \in [Runner -> AtRest \cup InRun] /\ detected' \in [Runner -> BOOLEAN]
    BY <1>2 DEF Read, Recheck
  <2> QED BY <1>2, <2>1 DEF Read, Recheck
<1>3. ASSUME NEW r \in Runner, RunMarks(r) \/ RunClears(r) \/ TestInterrupt(r) \/ Leave(r)
      PROVE  TypeOK'
  <2>1. runner' \in [Runner -> AtRest \cup InRun]
    BY <1>3 DEF RunMarks, RunClears, TestInterrupt, Leave
  <2> QED BY <1>3, <2>1 DEF RunMarks, RunClears, TestInterrupt, Leave
<1>4. ASSUME NEW r \in Runner, PollStep(r) PROVE TypeOK'
  <2>1. runner' \in [Runner -> AtRest \cup InRun]
    BY <1>4 DEF PollStep, RequestEdges, Wait, RequestInput, Rerequest
  <2>2. line' \in {"input", "edges", "released"} /\ edge' \in BOOLEAN
    BY <1>4 DEF PollStep, RequestEdges, Wait, RequestInput, Rerequest
  <2>3. UNCHANGED <<stopper, monitoring, interrupt, level, detected, stopped>>
    BY <1>4 DEF PollStep, RequestEdges, Wait, RequestInput, Rerequest
  <2> QED BY <2>1, <2>2, <2>3
<1>5. CASE StopCall BY <1>5 DEF StopCall
<1>6. CASE StopStep BY <1>6 DEF StopStep, StopInterrupts, StopUnmonitors
<1>7. CASE SensorChanges
  <2>1. level' \in {0, 1}
    BY <1>7 DEF SensorChanges
  <2>2. edge' \in BOOLEAN
    BY <1>7 DEF SensorChanges
  <2> QED BY <1>7, <2>1, <2>2 DEF SensorChanges
<1>8. CASE UNCHANGED vars BY <1>8 DEF vars
<1> QED BY <1>1, <1>2, <1>3, <1>4, <1>5, <1>6, <1>7, <1>8 DEF Next, RunStep

\* Every member of PIRDriver, and the line, keeps its type.
THEOREM TypeCorrect == Spec => []TypeOK
<1>1. Init => TypeOK
  BY DEF Init, TypeOK
<1> QED BY <1>1, NextTypeOK, PTL DEF Spec

-----------------------------------------------------------------------------
\* r is in run() and has set monitoring_.
Marked(r) == runner[r] \in InRun \ {"mark"}

\* Some run() that has set monitoring_ has not come back yet, as long as it is set.
MarkedByARun == monitoring => \E r \in Runner : Marked(r)

\* Only RunMarks sets monitoring_, and every way out of run() clears it.
LEMMA NextMarked == TypeOK /\ MarkedByARun /\ [Next]_vars => MarkedByARun'
<1> SUFFICES ASSUME TypeOK, MarkedByARun, [Next]_vars, monitoring'
             PROVE  \E r \in Runner : Marked(r)'
  BY DEF MarkedByARun
<1> USE DEF TypeOK, MarkedByARun, Marked, At, Goto, flags, sensor, history
<1>1. ASSUME NEW r \in Runner, RunCall(r) PROVE \E s \in Runner : Marked(s)'
  BY <1>1 DEF RunCall
<1>2. ASSUME NEW r \in Runner, RunMarks(r) \/ RunClears(r) \/ Read(r) \/ TestInterrupt(r)
                                \/ Recheck(r)
      PROVE  \E s \in Runner : Marked(s)'
  <2>1. runner'[r] \in InRun \ {"mark"}
    BY <1>2 DEF RunMarks, RunClears, Read, TestInterrupt, Recheck
  <2> QED BY <2>1
<1>3. ASSUME NEW r \in Runner, PollStep(r) PROVE \E s \in Runner : Marked(s)'
  <2>1. runner'[r] \in InRun \ {"mark"}
    BY <1>3 DEF PollStep, RequestEdges, Wait, RequestInput, Rerequest
  <2> QED BY <2>1
<1>4. ASSUME NEW r \in Runner, Leave(r) PROVE FALSE
  BY <1>4 DEF Leave
<1>5. CASE StopCall \/ StopStep \/ SensorChanges \/ UNCHANGED vars
  BY <1>5 DEF StopCall, StopStep, StopInterrupts, StopUnmonitors, SensorChanges, vars
<1> QED BY <1>1, <1>2, <1>3, <1>4, <1>5 DEF Next, RunStep

\* Whatever threw and wherever stop() came, monitoring_ is clear when no run() is under
\* way: the next one is let in.
THEOREM NextRunIsLetIn == Spec => []NeverLockedOut
<1>1. Init => MarkedByARun
  BY DEF Init, MarkedByARun
<1>2. MarkedByARun => NeverLockedOut
  BY DEF MarkedByARun, NeverLockedOut, Marked
<1> QED BY <1>1, <1>2, NextMarked, TypeCorrect, PTL DEF Spec

-----------------------------------------------------------------------------
\* Past l.25 of run(): interrupt_ has been cleared for it.
Cleared(r) == runner[r] \in InRun \ {"mark", "clear"}

\* A stop() under way, and an interrupt_ that a run() may see, overlap the run().
StopIsSeen ==
    /\ stopper # "idle" => \A r \in Runner : stopped[r]
    /\ interrupt => \A r \in Runner : Cleared(r) => stopped[r]
    /\ \A r \in Runner : runner[r] \in {"leave", "returned"} => detected[r] \/ stopped[r]

\* interrupt_ is set by a stop() only, and a run() clears it before it looks at it.
LEMMA NextStopIsSeen == TypeOK /\ StopIsSeen /\ [Next]_vars => StopIsSeen'
<1> SUFFICES ASSUME TypeOK, StopIsSeen, [Next]_vars PROVE StopIsSeen'
  OBVIOUS
<1> USE DEF TypeOK, StopIsSeen, Cleared, At, Goto, flags, sensor, history
<1>1. ASSUME NEW r \in Runner, RunCall(r) PROVE StopIsSeen'
  <2>1. /\ runner'[r] \in {"refused", "mark"}
        /\ stopped'[r] = (stopper # "idle")
        /\ \A s \in Runner \ {r} : /\ runner'[s] = runner[s]
                                   /\ stopped'[s] = stopped[s] /\ detected'[s] = detected[s]
        /\ UNCHANGED <<stopper, interrupt>>
    BY <1>1 DEF RunCall
  <2> QED BY <2>1
<1>2. ASSUME NEW r \in Runner, RunMarks(r) \/ RunClears(r) PROVE StopIsSeen'
  BY <1>2 DEF RunMarks, RunClears
<1>3. ASSUME NEW r \in Runner, Read(r) PROVE StopIsSeen'
  <2>1. /\ runner'[r] \in {"leave", "test", "fail"} /\ Cleared(r)
        /\ runner'[r] = "leave" => detected'[r]
        /\ \A s \in Runner \ {r} : runner'[s] = runner[s] /\ detected'[s] = detected[s]
        /\ UNCHANGED <<stopper, interrupt, stopped>>
    BY <1>3 DEF Read
  <2> QED BY <2>1
<1>4. ASSUME NEW r \in Runner, Recheck(r) PROVE StopIsSeen'
  <2>1. /\ runner'[r] = "leave" /\ Cleared(r)
        /\ detected'[r] = ~interrupt
        /\ \A s \in Runner \ {r} : runner'[s] = runner[s] /\ detected'[s] = detected[s]
        /\ UNCHANGED <<stopper, interrupt, stopped>>
    BY <1>4 DEF Recheck
  <2> QED BY <2>1
<1>5. ASSUME NEW r \in Runner, TestInterrupt(r) \/ Leave(r) PROVE StopIsSeen'
  <2>1. /\ runner'[r] \in {"leave", "edges", "returned", "threw"} /\ Cleared(r)
        /\ runner'[r] = "leave" => interrupt
        /\ runner'[r] = "returned" => runner[r] = "leave"
        /\ \A s \in Runner \ {r} : runner'[s] = runner[s]
        /\ UNCHANGED <<stopper, interrupt, stopped, detected>>
    BY <1>5 DEF TestInterrupt, Leave
  <2> QED BY <2>1
<1>6. ASSUME NEW r \in Runner, PollStep(r) PROVE StopIsSeen'
  <2>1. /\ runner'[r] \in {"wait", "input", "recheck", "fail"} /\ Cleared(r)
        /\ \A s \in Runner \ {r} : runner'[s] = runner[s]
        /\ UNCHANGED <<stopper, interrupt, stopped, detected>>
    BY <1>6 DEF PollStep, RequestEdges, Wait, RequestInput, Rerequest
  <2> QED BY <2>1
<1>7. CASE StopCall \/ StopStep \/ SensorChanges \/ UNCHANGED vars
  BY <1>7 DEF StopCall, StopStep, StopInterrupts, StopUnmonitors, SensorChanges, vars
<1> QED BY <1>1, <1>2, <1>3, <1>4, <1>5, <1>6, <1>7 DEF Next, RunStep

\* A run() that returns has seen a person, or a stop() overlapped it: it is never ended
\* by an interrupt_ left over from before.
THEOREM ReturnsForAReason == Spec => []UnseenOnlyIfStopped
<1>1. Init => StopIsSeen
  BY DEF Init, StopIsSeen, Cleared
<1>2. StopIsSeen => UnseenOnlyIfStopped
  BY DEF StopIsSeen, UnseenOnlyIfStopped
<1> QED BY <1>1, <1>2, NextStopIsSeen, TypeCorrect, PTL DEF Spec

-----------------------------------------------------------------------------
\* A run() that has read the line and not failed since holds it.
LineHeldInRun ==
    \A r \in Runner :
        runner[r] \in {"test", "edges", "wait", "input", "recheck", "leave", "returned"}
            => line # "released"

\* poll_edge that does not throw has requested the line again each time it released it.
LEMMA NextLineHeld ==
    ASSUME NEW only, Runner = {only}
    PROVE  TypeOK /\ LineHeldInRun /\ [Next]_vars => LineHeldInRun'
<1> SUFFICES ASSUME TypeOK, LineHeldInRun, [Next]_vars PROVE LineHeldInRun'
  OBVIOUS
<1> USE DEF TypeOK, LineHeldInRun, At, Goto, flags, sensor, history
<1>1. CASE RunCall(only) BY <1>1 DEF RunCall
<1>2. CASE RunMarks(only) \/ RunClears(only) BY <1>2 DEF RunMarks, RunClears
<1>3. CASE Read(only) BY <1>3 DEF Read
<1>4. CASE TestInterrupt(only) \/ Recheck(only) \/ Leave(only)
  BY <1>4 DEF TestInterrupt, Recheck, Leave
<1>5. CASE PollStep(only)
  BY <1>5 DEF PollStep, RequestEdges, Wait, RequestInput, Rerequest
<1>6. CASE StopCall \/ StopStep \/ SensorChanges \/ UNCHANGED vars
  BY <1>6 DEF StopCall, StopStep, StopInterrupts, StopUnmonitors, SensorChanges, vars
<1> QED BY <1>1, <1>2, <1>3, <1>4, <1>5, <1>6 DEF Next, RunStep

\* With one thread that calls run(), as in the program, a run() that returns leaves the
\* line requested for the next one.
THEOREM LineHeld ==
    ASSUME NEW only, Runner = {only}
    PROVE  Spec => []LineHeldAfterRun
<1>1. Init => LineHeldInRun
  BY DEF Init, LineHeldInRun
<1>2. LineHeldInRun => LineHeldAfterRun
  BY DEF LineHeldInRun, LineHeldAfterRun
<1>3. TypeOK /\ LineHeldInRun /\ [Next]_vars => LineHeldInRun'
  BY NextLineHeld
<1> QED BY <1>1, <1>2, <1>3, TypeCorrect, PTL DEF Spec

-----------------------------------------------------------------------------
(* BluetoothDriver *)

\* No step takes a member, a thread or the list of devices out of its type.
LEMMA SearchNextTypeOK ==
  ASSUME ScansAssumption, SearchTypeOK, [SearchNext]_searchVars
  PROVE  SearchTypeOK'
<1> USE ScansAssumption
    DEF ScansAssumption, SearchTypeOK, SearchAtRest, StopAtRest,
        pointers, searchHistory
<1>1. CASE SearchCall BY <1>1 DEF SearchCall
<1>2. CASE SearchMarks BY <1>2 DEF SearchMarks, Search
<1>3. CASE LoopTest BY <1>3 DEF LoopTest, Search
<1>4. CASE Choose BY <1>4 DEF Choose, Search
<1>5. CASE ScanBegins BY <1>5 DEF ScanBegins, Search
<1>6. CASE Look BY <1>6 DEF Look, Search
<1>7. CASE PairBegins BY <1>7 DEF PairBegins, Search
<1>8. CASE PairSucceeds BY <1>8 DEF PairSucceeds, Search
<1>9. CASE PairRefused BY <1>9 DEF PairRefused, Search
<1>10. CASE ScanReturns BY <1>10 DEF ScanReturns, Search
<1>11. CASE SearchThrows BY <1>11 DEF SearchThrows, Search
<1>12. CASE SearchStopCall BY <1>12 DEF SearchStopCall
<1>13. CASE StopUnmarks BY <1>13 DEF StopUnmarks, StopSearch
<1>14. CASE StopScan BY <1>14 DEF StopScan, StopSearch
<1>15. CASE StopThrows BY <1>15 DEF StopThrows, StopSearch
<1>16. CASE StopWaits BY <1>16 DEF StopWaits, StopSearch
<1>17. CASE ResetScanner BY <1>17 DEF ResetScanner, StopSearch
<1>18. CASE ResetPairer BY <1>18 DEF ResetPairer, StopSearch
<1>19. CASE UNCHANGED searchVars BY <1>19 DEF searchVars
<1> QED
  BY <1>1, <1>2, <1>3, <1>4, <1>5, <1>6, <1>7, <1>8, <1>9, <1>10,
     <1>11, <1>12, <1>13, <1>14, <1>15, <1>16, <1>17, <1>18, <1>19
     DEF SearchNext, SearchStep, SearchStopStep

\* Every member of BluetoothDriver keeps its type, and run() pairs with nothing but a
\* device that is near (bluetooth_driver.cpp:29-43).
THEOREM SearchTypeCorrect ==
  ASSUME ScansAssumption
  PROVE  SearchSpec => []SearchTypeOK
<1>1. SearchInit => SearchTypeOK
  <2> SUFFICES ASSUME SearchInit PROVE SearchTypeOK
    OBVIOUS
  <2>1. devices \in Seq(Int)
    BY DEF SearchInit
  <2>2. searcher \notin {"call_pair", "pairing"}
    BY DEF SearchInit
  <2> QED BY <2>1, <2>2 DEF SearchInit, SearchTypeOK, SearchAtRest, StopAtRest
<1>2. SearchTypeOK /\ [SearchNext]_searchVars => SearchTypeOK'
  BY SearchNextTypeOK
<1> QED BY <1>1, <1>2, PTL DEF SearchSpec

\* The loop of run().
Looping == {"test", "choose", "begin", "scan", "look", "call_pair", "pairing"}

\* Whatever takes running_ or a pointer from a run() under way is a stop() that overlaps
\* it (bluetooth_driver.cpp:25-43, 65-71).
TakenByStop ==
    /\ searchStopper \notin StopAtRest => searchStopped
    /\ searcher \in Looping /\ ~running => searchStopped
    /\ searcher = "begin" /\ ~scanner => searchStopped
    /\ searcher = "call_pair" /\ ~pairer => searchStopped
    /\ UnpairedOnlyIfStopped

LEMMA TakenByStopNext ==
  ASSUME TakenByStop, [SearchNext]_searchVars
  PROVE  TakenByStop'
<1> USE DEF TakenByStop, Looping, UnpairedOnlyIfStopped, SearchAtRest,
        StopAtRest, pointers, searchHistory
<1>1. CASE SearchCall BY <1>1 DEF SearchCall
<1>2. CASE SearchMarks BY <1>2 DEF SearchMarks, Search
<1>3. CASE LoopTest BY <1>3 DEF LoopTest, Search
<1>4. CASE Choose BY <1>4 DEF Choose, Search
<1>5. CASE ScanBegins BY <1>5 DEF ScanBegins, Search
<1>6. CASE Look BY <1>6 DEF Look, Search
<1>7. CASE PairBegins BY <1>7 DEF PairBegins, Search
<1>8. CASE PairSucceeds BY <1>8 DEF PairSucceeds, Search
<1>9. CASE PairRefused BY <1>9 DEF PairRefused, Search
<1>10. CASE ScanReturns BY <1>10 DEF ScanReturns, Search
<1>11. CASE SearchThrows BY <1>11 DEF SearchThrows, Search
<1>12. CASE SearchStopCall BY <1>12 DEF SearchStopCall
<1>13. CASE StopUnmarks BY <1>13 DEF StopUnmarks, StopSearch
<1>14. CASE StopScan BY <1>14 DEF StopScan, StopSearch
<1>15. CASE StopThrows BY <1>15 DEF StopThrows, StopSearch
<1>16. CASE StopWaits BY <1>16 DEF StopWaits, StopSearch
<1>17. CASE ResetScanner BY <1>17 DEF ResetScanner, StopSearch
<1>18. CASE ResetPairer BY <1>18 DEF ResetPairer, StopSearch
<1>19. CASE UNCHANGED searchVars BY <1>19 DEF searchVars
<1> QED
  BY <1>1, <1>2, <1>3, <1>4, <1>5, <1>6, <1>7, <1>8, <1>9, <1>10,
     <1>11, <1>12, <1>13, <1>14, <1>15, <1>16, <1>17, <1>18, <1>19
     DEF SearchNext, SearchStep, SearchStopStep

\* A search ends without a device, or runs into a pointer that has been reset, only if a
\* stop() came while it was under way, whatever the scans bring, whichever calls throw and
\* however often either function is called (bluetooth_driver.cpp:25-43, 65-71).
THEOREM SearchEndsForAReason == SearchSpec => []UnpairedOnlyIfStopped
<1>1. SearchInit => TakenByStop
  BY DEF SearchInit, TakenByStop, Looping, UnpairedOnlyIfStopped, StopAtRest
<1>2. TakenByStop /\ [SearchNext]_searchVars => TakenByStop'
  BY TakenByStopNext
<1>3. TakenByStop => UnpairedOnlyIfStopped
  BY DEF TakenByStop
<1> QED BY <1>1, <1>2, <1>3, PTL DEF SearchSpec
=============================================================================
