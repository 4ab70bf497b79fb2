------------------------ MODULE DeviceReminderProofs ------------------------
(***************************************************************************)
(* Proofs about DeviceReminder and DetectionCycle for any number of sensor *)
(* reports and any handler calls that throw: the detection and the buzz    *)
(* are timed, main and human never wait for each other, and the buzzer is  *)
(* told to start and to stop in turns.  What the steps of both keep is     *)
(* proved once, of AnyNext.                                                *)
(***************************************************************************)
EXTENDS DetectionCycle, TLAPS

\* A step of the four tasks, or of the peer that stands for the bluetooth task.
AnyNext == Next \/ (ScanIsAnswered /\ UNCHANGED deviceVars)

-----------------------------------------------------------------------------
(* Where a dispatch can be: the calls it has left, for each task           *)

Request == Send("bluetooth", "RequestBluetoothScan")
HumanStops == Send("human", "StopHumanDetection")
HumanStarts == Send("human", "StartHumanDetection")
BuzzerStarts == Send("buzzer", "StartBuzzing")
BuzzerStops == Send("buzzer", "StopBuzzing")

Home == Become("WaitingHumanDetection")
Waiting == Become("WaitingDevicePresenceResponse")
Cooling == Become("BluetoothScanRequestCooldown")
WaitingAgain == Become("WaitingDevicePresenceRetryResponse")

Begins1 == <<Request, HumanStops, StartTimer("ProcessingTimeout"), Waiting>>
Begins2 == <<HumanStops, StartTimer("ProcessingTimeout"), Waiting>>
Begins3 == <<StartTimer("ProcessingTimeout"), Waiting>>
Ends1 == <<HumanStarts, Home>>
RetryEnds1 == <<HumanStarts, BuzzerStops, Home>>
RetryEnds2 == <<BuzzerStops, Home>>
Retries1 == <<BuzzerStarts, StartTimer("CooldownTimeout"), Cooling>>
Retries2 == <<StartTimer("CooldownTimeout"), Cooling>>
Refused1 == <<Request, Cooling>>
Cooled1 == <<Request, WaitingAgain>>

MainPoints == {Begins1, Begins2, Begins3, Ends1, RetryEnds1, RetryEnds2,
               Retries1, Retries2, Refused1, Cooled1}

Detected1 == <<Send("main", "HumanDetected"), StartTimer("CooldownTimeout"), Become("Stopped")>>
Detected2 == <<StartTimer("CooldownTimeout"), Become("Stopped")>>
Senses1 == <<Call("sense"), Become("Detecting")>>

HumanPoints == {Detected1, Detected2, Senses1}

Scans1 == <<Call("scan"), Become("Cooldown")>>
Answers(m) == <<Send("main", m), Become("Cooldown")>>

BluetoothPoints == {Scans1, Answers("RespondDeviceFound"), Answers("RespondDeviceNotFound")}

Buzzes1 == <<Call("on"), Call("load"), StartTimer("BuzzTimeout")>>
Buzzes2 == <<Call("load"), StartTimer("BuzzTimeout")>>
Buzzes3 == <<StartTimer("BuzzTimeout")>>
Silences1 == <<Call("off"), Call("stop_timer")>>
Silences2 == <<Call("stop_timer")>>

BuzzerPoints == {Buzzes1, Buzzes2, Buzzes3, Silences1, Silences2}

PointsOf(p) == CASE p = "main" -> MainPoints
                 [] p = "human" -> HumanPoints
                 [] p = "bluetooth" -> BluetoothPoints
                 [] p = "buzzer" -> BuzzerPoints

StatesOf(p) == CASE p = "main" -> MainState
                 [] p = "human" -> HumanState
                 [] p = "bluetooth" -> BluetoothState
                 [] p = "buzzer" -> {"None"}

PointsInv == \A p \in Task : todo[p] \in PointsOf(p) \cup {<<>>}

-----------------------------------------------------------------------------
(* The rest of the inductive invariant *)

\* A buzzer that was told to be silent, and is only stopping its timer, is silent.
BuzzInv == BuzzIsTimed /\ (todo["buzzer"] = Silences2 => ~buzzing)

\* The main task waits for a person, or has only the buzzer left to tell before it does.
Homeward == up["main"] /\ \/ Idle("main") /\ state["main"] = "WaitingHumanDetection"
                          \/ todo["main"] = RetryEnds2

\* Then no StopHumanDetection is on its way without a StartHumanDetection behind it,
StopsAreUndone ==
    /\ \A i \in DOMAIN net["human"] : net["human"][i] = "StopHumanDetection" =>
           \E j \in DOMAIN net["human"] : j > i /\ net["human"][j] = "StartHumanDetection"
    /\ \A i \in DOMAIN queue["human"] : queue["human"][i] = "StopHumanDetection" =>
           \/ \E j \in DOMAIN queue["human"] :
                j > i /\ queue["human"][j] = "StartHumanDetection"
           \/ \E j \in DOMAIN net["human"] : net["human"][j] = "StartHumanDetection"

\* and a human task that is stopped is going to be woken.
IsWoken ==
    up["human"] /\ Idle("human") /\ state["human"] = "Stopped"
    => \/ Coming("main", "HumanDetected")
       \/ Coming("human", "StartHumanDetection")
       \/ TimeoutAhead("human", "CooldownTimeout")

\* The human task's timer times nothing but its cooldown.
HumanTimer == timer["human"] \in {"CooldownTimeout", NoMessage}

WakeInv == HumanTimer /\ (Homeward => StopsAreUndone /\ IsWoken)

-----------------------------------------------------------------------------
(* The calls, taken apart *)

LEMMA MainTails ==
  /\ Head(Begins1) = Request /\ Tail(Begins1) = Begins2
  /\ Head(Begins2) = HumanStops /\ Tail(Begins2) = Begins3
  /\ Head(Begins3) = StartTimer("ProcessingTimeout") /\ Tail(Begins3) = <<Waiting>>
  /\ Head(Ends1) = HumanStarts /\ Tail(Ends1) = <<Home>>
  /\ Head(RetryEnds1) = HumanStarts /\ Tail(RetryEnds1) = RetryEnds2
  /\ Head(RetryEnds2) = BuzzerStops /\ Tail(RetryEnds2) = <<Home>>
  /\ Head(Retries1) = BuzzerStarts /\ Tail(Retries1) = Retries2
  /\ Head(Retries2) = StartTimer("CooldownTimeout") /\ Tail(Retries2) = <<Cooling>>
  /\ Head(Refused1) = Request /\ Tail(Refused1) = <<Cooling>>
  /\ Head(Cooled1) = Request /\ Tail(Cooled1) = <<WaitingAgain>>
BY DEF Begins1, Begins2, Begins3, Ends1, RetryEnds1, RetryEnds2, Retries1, Retries2,
     Refused1, Cooled1

LEMMA OtherTails ==
  /\ Head(Detected1) = Send("main", "HumanDetected") /\ Tail(Detected1) = Detected2
  /\ Head(Detected2) = StartTimer("CooldownTimeout")
  /\ Tail(Detected2) = <<Become("Stopped")>>
  /\ Head(Senses1) = Call("sense") /\ Tail(Senses1) = <<Become("Detecting")>>
  /\ Head(Scans1) = Call("scan") /\ Tail(Scans1) = <<Become("Cooldown")>>
  /\ \A m : /\ Head(Answers(m)) = Send("main", m)
            /\ Tail(Answers(m)) = <<Become("Cooldown")>>
  /\ Head(Buzzes1) = Call("on") /\ Tail(Buzzes1) = Buzzes2
  /\ Head(Buzzes2) = Call("load") /\ Tail(Buzzes2) = Buzzes3
  /\ Head(Buzzes3) = StartTimer("BuzzTimeout") /\ Tail(Buzzes3) = <<>>
  /\ Head(Silences1) = Call("off") /\ Tail(Silences1) = Silences2
  /\ Head(Silences2) = Call("stop_timer") /\ Tail(Silences2) = <<>>
BY DEF Detected1, Detected2, Senses1, Scans1, Answers, Buzzes1, Buzzes2, Buzzes3,
     Silences1, Silences2

LEMMA Fields ==
  /\ \A to, m : /\ Send(to, m).call = "send" /\ Send(to, m).to = to
                /\ Send(to, m).msg = m
  /\ \A m : StartTimer(m).call = "start_timer" /\ StartTimer(m).msg = m
  /\ \A c : Call(c).call = c
  /\ \A s : Become(s).call = "become" /\ Become(s).state = s
BY DEF Send, StartTimer, Call, Become

LEMMA PointsDiffer ==
  /\ \A calls \in MainPoints \cup HumanPoints \cup BluetoothPoints \cup BuzzerPoints :
         calls # <<>>
BY DEF MainPoints, HumanPoints, BluetoothPoints, BuzzerPoints, Begins1, Begins2, Begins3,
     Ends1, RetryEnds1, RetryEnds2, Retries1, Retries2, Refused1, Cooled1, Detected1,
     Detected2, Senses1, Scans1, Answers, Buzzes1, Buzzes2, Buzzes3, Silences1, Silences2

LEMMA MainSteps ==
  ASSUME NEW calls \in MainPoints
  PROVE  /\ Head(calls).call \in {"send", "start_timer"}
         /\ Head(calls).call = "send" => Head(calls).to \in Task
         /\ Head(calls).msg \in MessageType
         /\ Tail(calls) \in MainPoints \cup {<<Become(s)>> : s \in MainState}
<1> USE MainTails, Fields DEF Request, HumanStops, HumanStarts, BuzzerStarts, BuzzerStops,
        Home, Waiting, Cooling, WaitingAgain, Task, MessageType, MainState
<1>1. Head(calls).call \in {"send", "start_timer"} /\ Head(calls).msg \in MessageType
  BY DEF MainPoints
<1>2. Head(calls).call = "send" => Head(calls).to \in Task
  BY DEF MainPoints
<1>3. Tail(calls) \in MainPoints \cup {<<Become(s)>> : s \in MainState}
  BY DEF MainPoints
<1> QED BY <1>1, <1>2, <1>3

LEMMA HumanSteps ==
  ASSUME NEW calls \in HumanPoints
  PROVE  /\ Head(calls).call \in {"send", "start_timer", "sense"}
         /\ Head(calls).call = "send" =>
              Head(calls).to \in Task /\ Head(calls).msg \in MessageType
         /\ Head(calls).call = "start_timer" => Head(calls).msg \in MessageType
         /\ Tail(calls) \in HumanPoints \cup {<<Become(s)>> : s \in HumanState}
<1> USE OtherTails, Fields DEF HumanPoints
<1>1. Head(calls).call \in {"send", "start_timer", "sense"}
  OBVIOUS
<1>2. Head(calls).call = "send" =>
        Head(calls).to \in Task /\ Head(calls).msg \in MessageType
  BY DEF Task, MessageType
<1>3. Head(calls).call = "start_timer" => Head(calls).msg \in MessageType
  BY DEF MessageType
<1>4. Tail(calls) \in HumanPoints \cup {<<Become(s)>> : s \in HumanState}
  BY DEF HumanState
<1> QED BY <1>1, <1>2, <1>3, <1>4

LEMMA BluetoothSteps ==
  ASSUME NEW calls \in BluetoothPoints
  PROVE  /\ Head(calls).call \in {"send", "scan"}
         /\ Head(calls).call = "send" =>
              Head(calls).to \in Task /\ Head(calls).msg \in MessageType
         /\ Tail(calls) \in {<<Become(s)>> : s \in BluetoothState}
BY OtherTails, Fields DEF BluetoothPoints, Task, MessageType, BluetoothState

LEMMA BuzzerSteps ==
  ASSUME NEW calls \in BuzzerPoints
  PROVE  /\ Head(calls).call \in {"on", "load", "off", "start_timer", "stop_timer"}
         /\ Head(calls).call = "start_timer" => Head(calls).msg \in MessageType
         /\ Tail(calls) \in BuzzerPoints \cup {<<>>}
<1> USE OtherTails, Fields
<1>1. Head(calls).call \in {"on", "load", "off", "start_timer", "stop_timer"}
  BY DEF BuzzerPoints
<1>2. Head(calls).call = "start_timer" => Head(calls).msg \in MessageType
  <2>1. Head(calls).call = "start_timer" => calls = Buzzes3
    BY DEF BuzzerPoints
  <2> QED BY <2>1 DEF MessageType
<1>3. Tail(calls) \in BuzzerPoints \cup {<<>>}
  BY DEF BuzzerPoints
<1> QED BY <1>1, <1>2, <1>3

\* What is left of p's dispatch after a call: more calls, nothing, or state_'s new value.
Rest(p) == PointsOf(p) \cup {<<>>} \cup {<<Become(s)>> : s \in StatesOf(p)}

LEMMA Steps ==
  ASSUME NEW p \in Task, NEW calls \in PointsOf(p)
  PROVE  /\ calls # <<>> /\ Head(calls).call # "become" /\ Tail(calls) \in Rest(p)
         /\ Head(calls).call = "send" =>
              Head(calls).to \in Task /\ Head(calls).msg \in MessageType
         /\ Head(calls).call = "start_timer" => Head(calls).msg \in MessageType
<1> USE DEF PointsOf, StatesOf, Rest
<1>1. CASE p = "main"
  BY <1>1, MainSteps, PointsDiffer
<1>2. CASE p = "human"
  BY <1>2, HumanSteps, PointsDiffer
<1>3. CASE p = "bluetooth"
  BY <1>3, BluetoothSteps, PointsDiffer
<1>4. CASE p = "buzzer"
  BY <1>4, BuzzerSteps, PointsDiffer
<1> QED BY <1>1, <1>2, <1>3, <1>4 DEF Task

-----------------------------------------------------------------------------
(* Sequences *)

LEMMA Same ==
  ASSUME NEW S, NEW s \in Seq(S), NEW t \in Seq(S), Len(s) = Len(t),
         \A i \in 1 .. Len(s) : s[i] = t[i]
  PROVE  s = t
OBVIOUS

LEMMA Appends ==
  /\ \A a, b : Append(<<a>>, b) = <<a, b>>
  /\ \A a, b, c : Append(<<a, b>>, c) = <<a, b, c>>
  /\ \A a, b, c, d : Append(<<a, b, c>>, d) = <<a, b, c, d>>
<1>1. ASSUME NEW a, NEW b
      PROVE  Append(<<a>>, b) = <<a, b>>
  <2> DEFINE S == {a, b}
             s == Append(<<a>>, b)
             t == <<a, b>>
  <2>1. s \in Seq(S) /\ t \in Seq(S) /\ Len(s) = 2 /\ Len(t) = 2
    OBVIOUS
  <2>2. s[1] = t[1] /\ s[2] = t[2]
    OBVIOUS
  <2> HIDE DEF s, t, S
  <2>3. s = t
    BY <2>1, <2>2, Same
  <2> QED BY <2>3 DEF s, t
<1>2. ASSUME NEW a, NEW b, NEW c
      PROVE  Append(<<a, b>>, c) = <<a, b, c>>
  <2> DEFINE S == {a, b, c}
             s == Append(<<a, b>>, c)
             t == <<a, b, c>>
  <2>1. s \in Seq(S) /\ t \in Seq(S) /\ Len(s) = 3 /\ Len(t) = 3
    OBVIOUS
  <2>2. s[1] = t[1] /\ s[2] = t[2] /\ s[3] = t[3]
    OBVIOUS
  <2> HIDE DEF s, t, S
  <2>3. s = t
    BY <2>1, <2>2, Same
  <2> QED BY <2>3 DEF s, t
<1>3. ASSUME NEW a, NEW b, NEW c, NEW d
      PROVE  Append(<<a, b, c>>, d) = <<a, b, c, d>>
  <2> DEFINE S == {a, b, c, d}
             s == Append(<<a, b, c>>, d)
             t == <<a, b, c, d>>
  <2>1. s \in Seq(S) /\ t \in Seq(S) /\ Len(s) = 4 /\ Len(t) = 4
    OBVIOUS
  <2>2. s[1] = t[1] /\ s[2] = t[2] /\ s[3] = t[3] /\ s[4] = t[4]
    OBVIOUS
  <2> HIDE DEF s, t, S
  <2>3. s = t
    BY <2>1, <2>2, Same
  <2> QED BY <2>3 DEF s, t
<1> QED BY <1>1, <1>2, <1>3

LEMMA Appended ==
  ASSUME NEW S, NEW q \in Seq(S), NEW m \in S
  PROVE  /\ Append(q, m) \in Seq(S)
         /\ DOMAIN Append(q, m) = 1 .. Len(q) + 1
         /\ \A i \in DOMAIN q : Append(q, m)[i] = q[i]
         /\ Append(q, m)[Len(q) + 1] = m
         /\ ToSet(Append(q, m)) = ToSet(q) \cup {m}
<1>1. /\ Append(q, m) \in Seq(S) /\ Len(Append(q, m)) = Len(q) + 1
      /\ \A i \in 1 .. Len(q) : Append(q, m)[i] = q[i]
      /\ Append(q, m)[Len(q) + 1] = m
  OBVIOUS
<1>2. Len(q) \in Nat /\ DOMAIN q = 1 .. Len(q)
  OBVIOUS
<1>3. DOMAIN Append(q, m) = 1 .. Len(q) + 1
  BY <1>1
<1>4. ToSet(Append(q, m)) = ToSet(q) \cup {m}
  BY <1>1, <1>2, <1>3 DEF ToSet
<1> QED BY <1>1, <1>2, <1>3, <1>4

LEMMA Popped ==
  ASSUME NEW S, NEW q \in Seq(S), q # <<>>
  PROVE  /\ Tail(q) \in Seq(S) /\ Head(q) \in S /\ Head(q) = q[1]
         /\ Len(q) \in Nat /\ Len(q) >= 1 /\ DOMAIN Tail(q) = 1 .. Len(q) - 1
         /\ \A i \in DOMAIN Tail(q) : Tail(q)[i] = q[i + 1]
         /\ ToSet(q) = ToSet(Tail(q)) \cup {Head(q)}
<1>1. /\ Tail(q) \in Seq(S) /\ Head(q) \in S /\ Head(q) = q[1]
      /\ Len(q) \in Nat /\ Len(q) >= 1 /\ Len(Tail(q)) = Len(q) - 1
      /\ DOMAIN q = 1 .. Len(q)
  OBVIOUS
<1>2. DOMAIN Tail(q) = 1 .. Len(q) - 1
  BY <1>1
<1>3. \A i \in 1 .. Len(q) - 1 : Tail(q)[i] = q[i + 1]
  OBVIOUS
<1>4. ToSet(q) = ToSet(Tail(q)) \cup {Head(q)}
  <2>1. ASSUME NEW m \in ToSet(q) PROVE m \in ToSet(Tail(q)) \cup {Head(q)}
    <3>1. PICK i \in 1 .. Len(q) : m = q[i]
      BY <1>1, <2>1 DEF ToSet
    <3>2. CASE i = 1
      BY <1>1, <3>1, <3>2
    <3>3. CASE i # 1
      <4>1. i - 1 \in 1 .. Len(q) - 1 /\ Tail(q)[i - 1] = m
        BY <1>1, <1>3, <3>1, <3>3
      <4> QED BY <1>2, <4>1 DEF ToSet
    <3> QED BY <3>2, <3>3
  <2>2. ToSet(Tail(q)) \cup {Head(q)} \subseteq ToSet(q)
    BY <1>1, <1>2, <1>3 DEF ToSet
  <2> QED BY <2>1, <2>2
<1> QED BY <1>1, <1>2, <1>3, <1>4

-----------------------------------------------------------------------------
(* Type correctness *)

AllStates == MainState \cup HumanState \cup BluetoothState \cup {"None"}

\* state_ and the calls that are left keep their sets.
ControlOK ==
    /\ state \in [Task -> AllStates] /\ \A p \in Task : state[p] \in StatesOf(p)
    /\ DOMAIN todo = Task /\ PointsInv

LEMMA ControlTyped ==
  ASSUME state \in [Task -> AllStates], \A p \in Task : state[p] \in StatesOf(p)
  PROVE  /\ state["main"] \in MainState /\ state["human"] \in HumanState
         /\ state["bluetooth"] \in BluetoothState /\ state["buzzer"] = "None"
BY DEF Task, StatesOf

LEMMA ContinueOK ==
  ASSUME ControlOK, NEW p \in Task, NEW calls \in Rest(p), Continue(p, calls)
  PROVE  /\ ControlOK'
         /\ \A q \in Task \ {p} : state'[q] = state[q] /\ todo'[q] = todo[q]
         /\ calls \in PointsOf(p) \cup {<<>>} => todo'[p] = calls /\ state' = state
         /\ \A s : calls = <<Become(s)>> => todo'[p] = <<>> /\ state'[p] = s
<1>1. CASE calls \in PointsOf(p) \cup {<<>>}
  <2>1. todo' = [todo EXCEPT ![p] = calls] /\ state' = state
    BY <1>1, Steps DEF Continue
  <2>2. DOMAIN todo' = Task /\ todo'[p] = calls /\ \A q \in Task \ {p} : todo'[q] = todo[q]
    BY <2>1 DEF ControlOK
  <2>3. \A s : calls # <<Become(s)>>
    BY <1>1, Steps, Fields
  <2>4. ControlOK'
    BY <1>1, <2>1, <2>2 DEF ControlOK, PointsInv
  <2> QED BY <2>1, <2>2, <2>3, <2>4
<1>2. CASE calls \in {<<Become(s)>> : s \in StatesOf(p)}
  <2>1. PICK s \in StatesOf(p) : calls = <<Become(s)>>
    BY <1>2
  <2>2. calls # <<>> /\ Head(calls) = Become(s)
    BY <2>1
  <2>3. state' = [state EXCEPT ![p] = s] /\ todo' = [todo EXCEPT ![p] = <<>>]
    BY <2>2, Fields DEF Continue
  <2>4. s \in AllStates
    BY DEF StatesOf, AllStates, Task
  <2>5. /\ DOMAIN todo' = Task /\ todo'[p] = <<>>
        /\ \A q \in Task \ {p} : todo'[q] = todo[q]
    BY <2>3 DEF ControlOK
  <2>6. /\ state' \in [Task -> AllStates] /\ state'[p] = s
        /\ \A q \in Task \ {p} : state'[q] = state[q]
    BY <2>3, <2>4 DEF ControlOK
  <2>7. ControlOK'
    BY <2>5, <2>6 DEF ControlOK, PointsInv
  <2>8. calls \notin PointsOf(p)
    BY <2>2, Steps, Fields
  <2>9. \A t : calls = <<Become(t)>> => t = s
    <3>1. \A t : calls = <<Become(t)>> => Head(calls) = Become(t)
      OBVIOUS
    <3> QED BY <2>2, <3>1, Fields
  <2> QED BY <2>2, <2>5, <2>6, <2>7, <2>8, <2>9
<1> QED BY <1>1, <1>2 DEF Rest

\* The calls a dispatch begins with.
LEMMA Begun ==
  /\ Append(start_device_detect, Waiting) = Begins1
  /\ Append(end_device_first_detect, Home) = Ends1
  /\ Append(end_device_retry_detect, Home) = RetryEnds1
  /\ Append(retry_device_detect, Cooling) = Retries1
  /\ Append(send_bt_request, Cooling) = Refused1
  /\ Append(send_bt_request, WaitingAgain) = Cooled1
  /\ Append(get_detect, Become("Stopped")) = Detected1
  /\ Append(start_detect, Become("Detecting")) = Senses1
  /\ Append(scan, Become("Cooldown")) = Scans1
  /\ start_buzzing_and_start_timer = Buzzes1
  /\ stop_buzzing_and_stop_timer = Silences1
<1>1. \A a, b : Append(<<a>>, b) = <<a, b>>
  BY Appends
<1>2. \A a, b, c : Append(<<a, b>>, c) = <<a, b, c>>
  BY Appends
<1>3. \A a, b, c, d : Append(<<a, b, c>>, d) = <<a, b, c, d>>
  BY Appends
<1> QED
  BY <1>1, <1>2, <1>3, Zenon DEF start_device_detect, end_device_first_detect, end_device_retry_detect,
     retry_device_detect, send_bt_request, get_detect, start_detect, scan,
     start_buzzing_and_start_timer, stop_buzzing_and_stop_timer, Begins1, Ends1,
     RetryEnds1, Retries1, Refused1, Cooled1, Detected1, Senses1, Scans1, Buzzes1,
     Silences1, Request, HumanStops, HumanStarts, BuzzerStarts, BuzzerStops

\* A receiver thread has taken m and left calls to make.
Takes(p, m, calls) ==
    /\ Pop(p, m) /\ Continue(p, calls)
    /\ UNCHANGED <<timer, net, up>>

\* What each task does with what it takes.
LEMMA MainTakes ==
  ASSUME MainReceives
  PROVE  \/ state["main"] = "WaitingHumanDetection" /\ Takes("main", "HumanDetected", Begins1)
         \/ /\ state["main"] = "WaitingDevicePresenceResponse"
            /\ \/ Takes("main", "RespondDeviceFound", Ends1)
               \/ Takes("main", "ProcessingTimeout", Ends1)
               \/ Takes("main", "RespondDeviceNotFound", Retries1)
         \/ /\ state["main"] # "WaitingHumanDetection"
            /\ state["main"] # "WaitingDevicePresenceResponse"
            /\ \E m \in MessageType \ {"HumanDetected"} :
                 \E calls \in {RetryEnds1, Refused1, Cooled1} : Takes("main", m, calls)
         \/ MainIgnores
BY Begun DEF MainReceives, DetectionBegins, FirstResponseFound, FirstResponseNotFound,
     FirstDetectTimesOut, RetryResponseFound, RetryResponseNotFound, RetryDetectTimesOut,
     CooldownEnds, MainDispatch, Dispatch, Takes, MessageType, Home, Waiting, Cooling,
     WaitingAgain

LEMMA HumanTakes ==
  ASSUME HumanReceives
  PROVE  \/ /\ state["human"] = "Detecting"
            /\ \/ Takes("human", "HumanDetected", Detected1)
               \/ Takes("human", "StopHumanDetection", <<Become("Stopped")>>)
         \/ /\ state["human"] = "Stopped"
            /\ \/ Takes("human", "CooldownTimeout", Senses1)
               \/ Takes("human", "StartHumanDetection", Senses1)
         \/ HumanIgnores
BY Begun DEF HumanReceives, PersonDetected, DetectionStops, DetectionRestarts, Dispatch, Takes

LEMMA BuzzerTakes ==
  ASSUME BuzzerReceives
  PROVE  \/ Takes("buzzer", "StartBuzzing", Buzzes1)
         \/ \E m \in {"StopBuzzing", "BuzzTimeout"} : Takes("buzzer", m, Silences1)
         \/ BuzzerIgnores
BY Begun DEF BuzzerReceives, BuzzingStarts, BuzzingStops, Dispatch, Takes

\* p has taken a message, and handles or ignores it.
TakesSome(p) ==
    /\ UNCHANGED <<timer, net, up>>
    /\ \E m \in MessageType :
         /\ Pop(p, m)
         /\ \/ UNCHANGED <<state, todo>>
            \/ \E calls \in Rest(p) : Continue(p, calls)

LEMMA TaskTakes ==
  /\ MainReceives => TakesSome("main")
  /\ HumanReceives => TakesSome("human")
  /\ BluetoothReceives => TakesSome("bluetooth")
  /\ BuzzerReceives => TakesSome("buzzer")
<1>1. ASSUME NEW p \in Task, NEW handled, Ignore(p, handled) PROVE TakesSome(p)
  BY <1>1 DEF Ignore, TakesSome
<1>2. ASSUME NEW p \in Task, NEW m \in MessageType, NEW calls \in Rest(p), Takes(p, m, calls)
      PROVE  TakesSome(p)
  BY <1>2 DEF Takes, TakesSome
<1>3. {"HumanDetected", "RespondDeviceFound", "ProcessingTimeout", "RespondDeviceNotFound",
       "StopHumanDetection", "CooldownTimeout", "StartHumanDetection", "StartBuzzing",
       "StopBuzzing", "BuzzTimeout", "RequestBluetoothScan"} \subseteq MessageType
      /\ {"main", "human", "bluetooth", "buzzer"} \subseteq Task
  BY DEF MessageType, Task
<1>4. /\ {Begins1, Ends1, Retries1, RetryEnds1, Refused1, Cooled1} \subseteq Rest("main")
      /\ {Detected1, <<Become("Stopped")>>, Senses1} \subseteq Rest("human")
      /\ Scans1 \in Rest("bluetooth") /\ {Buzzes1, Silences1} \subseteq Rest("buzzer")
  BY DEF Rest, PointsOf, StatesOf, MainPoints, HumanPoints, BluetoothPoints, BuzzerPoints,
       HumanState
<1>5. MainReceives => TakesSome("main")
  BY <1>1, <1>2, <1>3, <1>4, MainTakes DEF MainIgnores
<1>6. HumanReceives => TakesSome("human")
  BY <1>1, <1>2, <1>3, <1>4, HumanTakes DEF HumanIgnores
<1>7. ASSUME BluetoothReceives PROVE TakesSome("bluetooth")
  <2>1. Takes("bluetooth", "RequestBluetoothScan", Scans1) \/ BluetoothIgnores
    BY <1>7, Begun DEF BluetoothReceives, ScanRequested, Dispatch, Takes
  <2> QED BY <1>1, <1>2, <1>3, <1>4, <2>1 DEF BluetoothIgnores
<1>8. BuzzerReceives => TakesSome("buzzer")
  BY <1>1, <1>2, <1>3, <1>4, BuzzerTakes DEF BuzzerIgnores
<1> QED BY <1>5, <1>6, <1>7, <1>8

LEMMA Receives ==
  ASSUME \/ MainReceives \/ HumanReceives \/ BluetoothReceives \/ BuzzerReceives
  PROVE  /\ UNCHANGED <<timer, net, up>>
         /\ \E p \in Task, m \in MessageType :
              /\ Pop(p, m)
              /\ \/ UNCHANGED <<state, todo>>
                 \/ \E calls \in Rest(p) : Continue(p, calls)
BY TaskTakes DEF TakesSome, Task

\* The kinds of steps.
LEMMA NextKinds ==
  ASSUME AnyNext
  PROVE  \/ /\ MainReceives \/ HumanReceives \/ BluetoothReceives \/ BuzzerReceives
            /\ UNCHANGED <<buzzing, reports>>
         \/ /\ \E p \in Task : Perform(p) \/ TimerFires(p) \/ Deliver(p)
            /\ UNCHANGED <<buzzing, reports>>
         \/ (ScanReturns \/ Sensed) /\ UNCHANGED <<buzzing, reports>>
         \/ /\ \E p \in Task : HandlerThrows(p) /\ (buzzing' = FALSE \/ UNCHANGED buzzing)
            /\ UNCHANGED reports
         \/ (DriverSwitches \/ DurationLoaded) /\ UNCHANGED reports
         \/ SensorFires /\ UNCHANGED buzzing
         \/ ScanIsAnswered /\ UNCHANGED <<buzzing, reports>>
<1> USE DEF AnyNext, Next, deviceVars
<1>1. \A p \in {"main", "human", "bluetooth", "buzzer"} : p \in Task
  BY DEF Task
<1>2. CASE MainNext /\ UNCHANGED <<buzzing, reports>>
  BY <1>1, <1>2 DEF MainNext
<1>3. CASE HumanNext /\ UNCHANGED <<buzzing, reports>>
  BY <1>1, <1>3 DEF HumanNext
<1>4. CASE BluetoothNext /\ UNCHANGED <<buzzing, reports>>
  BY <1>1, <1>4 DEF BluetoothNext
<1>5. CASE Environment /\ UNCHANGED <<buzzing, reports>>
  BY <1>5 DEF Environment, Throws, Fires, Delivers
<1>6. CASE BuzzerNext /\ UNCHANGED reports
  BY <1>1, <1>6 DEF BuzzerNext, ReadBackFails
<1> QED BY <1>2, <1>3, <1>4, <1>5, <1>6

\* What every step keeps holds of both specifications.
LEMMA AnyOfBoth ==
  /\ [Next]_vars => [AnyNext]_vars
  /\ [CycleNext]_vars => [AnyNext]_vars
<1>1. PartnerFires => Fires
  BY DEF PartnerFires, Fires, Partners, Task
<1>2. PartnerDelivers => Delivers
  BY DEF PartnerDelivers, Delivers, Partners, Task
<1> QED BY <1>1, <1>2 DEF AnyNext, Next, CycleNext, Environment, deviceVars

\* A call of p's handler has returned, and p goes on.
LEMMA ReturnedOK ==
  ASSUME ControlOK, NEW p \in Task, todo[p] # <<>>, Returned(p)
  PROVE  /\ ControlOK' /\ todo[p] \in PointsOf(p) /\ Tail(todo[p]) \in Rest(p)
         /\ \A q \in Task \ {p} : state'[q] = state[q] /\ todo'[q] = todo[q]
         /\ Tail(todo[p]) \in PointsOf(p) \cup {<<>>} =>
              todo'[p] = Tail(todo[p]) /\ state' = state
         /\ \A s : Tail(todo[p]) = <<Become(s)>> => todo'[p] = <<>> /\ state'[p] = s
<1>1. todo[p] \in PointsOf(p)
  BY DEF ControlOK, PointsInv
<1>2. Tail(todo[p]) \in Rest(p) /\ Continue(p, Tail(todo[p]))
  BY <1>1, Steps DEF Returned
<1> QED BY <1>1, <1>2, ContinueOK

LEMMA AnswersMade ==
  \A m, c : <<Send("main", m)>> \o <<c>> = <<Send("main", m), c>>
<1> SUFFICES ASSUME NEW a, NEW c PROVE <<a>> \o <<c>> = <<a, c>>
  OBVIOUS
<1> DEFINE S == {a, c}
           s == <<a>> \o <<c>>
           t == <<a, c>>
<1>1. s \in Seq(S) /\ t \in Seq(S) /\ Len(s) = 2 /\ Len(t) = 2
  OBVIOUS
<1>2. s[1] = t[1] /\ s[2] = t[2]
  OBVIOUS
<1> HIDE DEF s, t, S
<1>3. s = t
  BY <1>1, <1>2, Same
<1> QED BY <1>3 DEF s, t

LEMMA ScanReturnsOK ==
  ASSUME ControlOK, ScanReturns
  PROVE  ControlOK' /\ state' = state /\ \A q \in Task \ {"bluetooth"} : todo'[q] = todo[q]
<1>1. PICK answer \in {"RespondDeviceFound", "RespondDeviceNotFound"} :
          todo' = [todo EXCEPT !["bluetooth"] = <<Send("main", answer)>> \o Tail(@)]
  BY DEF ScanReturns
<1>2. todo["bluetooth"] # <<>> /\ Head(todo["bluetooth"]).call = "scan" /\ state' = state
  BY DEF ScanReturns, Calling
<1>3. todo["bluetooth"] \in BluetoothPoints
  BY <1>2 DEF ControlOK, PointsInv, PointsOf, Task
<1>4. todo["bluetooth"] = Scans1
  BY <1>2, <1>3, OtherTails, Fields DEF BluetoothPoints
<1>5. <<Send("main", answer)>> \o Tail(todo["bluetooth"]) = Answers(answer)
  BY <1>4, OtherTails, AnswersMade DEF Answers
<1>6. "bluetooth" \in Task /\ DOMAIN todo = Task
  BY DEF Task, ControlOK
<1>7. /\ DOMAIN todo' = Task /\ todo'["bluetooth"] = Answers(answer)
      /\ \A q \in Task \ {"bluetooth"} : todo'[q] = todo[q]
  BY <1>1, <1>5, <1>6
<1>8. Answers(answer) \in PointsOf("bluetooth")
  BY DEF PointsOf, BluetoothPoints
<1> QED BY <1>2, <1>7, <1>8 DEF ControlOK, PointsInv

LEMMA ControlNext ==
  ASSUME ControlOK, [AnyNext]_vars
  PROVE  ControlOK'
<1>0. ASSUME UNCHANGED <<state, todo>> PROVE ControlOK'
  BY <1>0 DEF ControlOK, PointsInv
<1>1. CASE MainReceives \/ HumanReceives \/ BluetoothReceives \/ BuzzerReceives
  BY <1>0, <1>1, Receives, ContinueOK
<1>2. ASSUME NEW p \in Task, Perform(p) \/ TimerFires(p) \/ Deliver(p) PROVE ControlOK'
  <2>1. CASE Perform(p)
    BY <2>1, ReturnedOK DEF Perform, DoSend, DoStartTimer, DoStopTimer, Calling
  <2>2. CASE TimerFires(p) \/ Deliver(p)
    BY <2>2, <1>0 DEF TimerFires, Deliver
  <2> QED BY <1>2, <2>1, <2>2
<1>3. CASE Sensed
  BY <1>3, ReturnedOK DEF Sensed, Calling, Task
<1>4. CASE ScanReturns
  BY <1>4, ScanReturnsOK
<1>5. ASSUME NEW p \in Task, HandlerThrows(p) PROVE ControlOK'
  <2>1. state' = state /\ todo' = [todo EXCEPT ![p] = <<>>]
    BY <1>5 DEF HandlerThrows
  <2>2. /\ DOMAIN todo' = Task /\ todo'[p] = <<>>
        /\ \A q \in Task \ {p} : todo'[q] = todo[q]
    BY <2>1 DEF ControlOK
  <2> QED BY <2>1, <2>2 DEF ControlOK, PointsInv
<1>6. CASE DriverSwitches \/ DurationLoaded
  BY <1>6, ReturnedOK DEF DriverSwitches, DurationLoaded, Calling, Task
<1>7. CASE SensorFires
  BY <1>0, <1>7 DEF SensorFires
<1>8. CASE ScanIsAnswered \/ UNCHANGED vars
  BY <1>0, <1>8 DEF ScanIsAnswered, vars, taskVars
<1> QED BY <1>1, <1>2, <1>3, <1>4, <1>5, <1>6, <1>7, <1>8, NextKinds

\* Queues, timers, transport and receivers keep their types.
DataOK ==
    /\ queue \in [Task -> Seq(MessageType)]
    /\ timer \in [Task -> MessageType \cup {NoMessage}]
    /\ net \in [Task -> Seq(MessageType)]
    /\ up \in [Task -> BOOLEAN]

\* The peer's answer, or none, is put behind what is on its way to the main task.
LEMMA PeerAnswers ==
  ASSUME DataOK, ScanIsAnswered
  PROVE  /\ net' \in [Task -> Seq(MessageType)]
         /\ \A p \in Task \ {"main", "bluetooth"} : net'[p] = net[p]
         /\ \/ net'["main"] = net["main"]
            \/ \E m \in MessageType : net'["main"] = Append(net["main"], m)
<1> USE DEF DataOK
<1>1. PICK answer \in {<<"RespondDeviceFound">>, <<"RespondDeviceNotFound">>, <<>>} :
          net' = [net EXCEPT !["bluetooth"] = Tail(@), !["main"] = @ \o answer]
  BY DEF ScanIsAnswered
<1>2. /\ "main" \in Task /\ "bluetooth" \in Task
      /\ net["main"] \in Seq(MessageType) /\ Tail(net["bluetooth"]) \in Seq(MessageType)
  BY Popped DEF ScanIsAnswered, Task
<1>3. \/ net["main"] \o answer = net["main"]
      \/ \E m \in MessageType : net["main"] \o answer = Append(net["main"], m)
  <2>1. CASE answer = <<>>
    BY <1>2, <2>1
  <2>2. ASSUME NEW m \in MessageType, answer = <<m>>
        PROVE  net["main"] \o answer = Append(net["main"], m)
    BY <1>2, <2>2
  <2> QED BY <2>1, <2>2 DEF MessageType
<1>4. net["main"] \o answer \in Seq(MessageType)
  <2>1. ASSUME NEW m \in MessageType PROVE Append(net["main"], m) \in Seq(MessageType)
    BY <1>2
  <2> QED BY <1>2, <1>3, <2>1
<1> QED BY <1>1, <1>2, <1>3, <1>4

LEMMA DataNext ==
  ASSUME ControlOK, DataOK, [AnyNext]_vars
  PROVE  DataOK'
<1> USE DEF DataOK
<1>0. ASSUME NEW p \in Task, NEW c, Calling(p, c) PROVE todo[p] \in PointsOf(p)
  BY <1>0 DEF Calling, ControlOK, PointsInv
<1>1. CASE MainReceives \/ HumanReceives \/ BluetoothReceives \/ BuzzerReceives
  <2>1. PICK p \in Task : queue[p] # <<>> /\ queue' = [queue EXCEPT ![p] = Tail(@)]
    BY <1>1, Receives DEF Pop
  <2>2. Tail(queue[p]) \in Seq(MessageType)
    BY <2>1, Popped
  <2> QED BY <1>1, <2>1, <2>2, Receives
<1>2. ASSUME NEW p \in Task, Perform(p) \/ TimerFires(p) \/ Deliver(p) PROVE DataOK'
  <2>1. CASE DoSend(p)
    <3>1. Head(todo[p]).to \in Task /\ Head(todo[p]).msg \in MessageType
      BY <1>0, <2>1, Steps DEF DoSend, Calling
    <3>2. Append(net[Head(todo[p]).to], Head(todo[p]).msg) \in Seq(MessageType)
      BY <3>1, Appended
    <3> QED BY <2>1, <3>1, <3>2 DEF DoSend
  <2>2. CASE DoStartTimer(p)
    <3>1. Head(todo[p]).msg \in MessageType
      BY <1>0, <2>2, Steps DEF DoStartTimer, Calling
    <3> QED BY <2>2, <3>1 DEF DoStartTimer
  <2>3. CASE DoStopTimer(p)
    BY <2>3 DEF DoStopTimer
  <2>4. CASE TimerFires(p)
    <3>1. Append(queue[p], timer[p]) \in Seq(MessageType)
      BY <2>4, Appended DEF TimerFires
    <3> QED BY <2>4, <3>1 DEF TimerFires
  <2>5. CASE Deliver(p)
    <3>1. Head(net[p]) \in MessageType /\ Tail(net[p]) \in Seq(MessageType)
      BY <2>5, Popped DEF Deliver
    <3>2. Append(queue[p], Head(net[p])) \in Seq(MessageType)
      BY <3>1, Appended
    <3> QED BY <2>5, <3>1, <3>2 DEF Deliver
  <2> QED BY <1>2, <2>1, <2>2, <2>3, <2>4, <2>5 DEF Perform
<1>3. CASE ScanReturns \/ Sensed \/ DriverSwitches \/ DurationLoaded
  BY <1>3 DEF ScanReturns, Sensed, DriverSwitches, DurationLoaded
<1>4. ASSUME NEW p \in Task, HandlerThrows(p) PROVE DataOK'
  <2>1. UNCHANGED <<queue, net>> /\ up' \in [Task -> BOOLEAN]
    BY <1>4 DEF HandlerThrows
  <2>2. timer' \in {timer, [timer EXCEPT ![p] = NoMessage]}
    BY <1>4 DEF HandlerThrows
  <2> QED BY <2>1, <2>2
<1>5. CASE SensorFires
  <2>1. "human" \in Task /\ "HumanDetected" \in MessageType
    BY DEF Task, MessageType
  <2>2. Append(queue["human"], "HumanDetected") \in Seq(MessageType)
    BY <2>1, Appended
  <2> QED BY <1>5, <2>1, <2>2 DEF SensorFires
<1>6. CASE ScanIsAnswered
  BY <1>6, PeerAnswers DEF ScanIsAnswered
<1>7. CASE UNCHANGED vars
  BY <1>7 DEF vars, taskVars
<1> QED BY <1>1, <1>2, <1>3, <1>4, <1>5, <1>6, <1>7, NextKinds

\* The buzzer's driver and the sensor's reports.
EdgesOK == buzzing \in BOOLEAN /\ reports \in 0 .. MaxReports

LEMMA EdgesNext ==
  ASSUME EdgesOK, [AnyNext]_vars
  PROVE  EdgesOK'
<1>1. CASE DriverSwitches /\ UNCHANGED reports
  BY <1>1 DEF DriverSwitches, EdgesOK
<1>2. CASE SensorFires /\ UNCHANGED buzzing
  BY <1>2, MaxReportsAssumption DEF SensorFires, EdgesOK
<1>3. CASE (buzzing' = FALSE \/ UNCHANGED buzzing) /\ UNCHANGED reports
  BY <1>3 DEF EdgesOK
<1> QED BY <1>1, <1>2, <1>3, NextKinds DEF DurationLoaded, vars

Typed == ControlOK /\ DataOK /\ EdgesOK

LEMMA InitTyped == Init => Typed
<1> SUFFICES ASSUME Init PROVE Typed
  OBVIOUS
<1>1. state \in [Task -> AllStates] /\ \A p \in Task : state[p] \in StatesOf(p)
  BY DEF Init, InitTasks, Task, AllStates, StatesOf, MainState, HumanState, BluetoothState
<1>2. todo = [p \in Task |-> <<>>]
  BY DEF Init, InitTasks
<1>3. ControlOK
  BY <1>1, <1>2 DEF ControlOK, PointsInv
<1>4. DataOK
  BY DEF Init, InitTasks, DataOK
<1>5. EdgesOK
  <2>1. reports \in 0 .. MaxReports
    BY MaxReportsAssumption DEF Init
  <2> QED BY <2>1 DEF Init, EdgesOK
<1> QED BY <1>3, <1>4, <1>5 DEF Typed

LEMMA NextTyped == Typed /\ [AnyNext]_vars => Typed'
BY ControlNext, DataNext, EdgesNext DEF Typed

LEMMA TypedIsTypeOK == Typed => TypeOK
BY ControlTyped DEF Typed, ControlOK, DataOK, EdgesOK, TypeOK, TasksTypeOK, AllStates

\* Type correctness: no message, state or call is ever one that its task does not know.
THEOREM TypeCorrect == Spec => []TypeOK
BY InitTyped, NextTyped, TypedIsTypeOK, AnyOfBoth, PTL DEF Spec

\* So it is when any scan request may be answered.
THEOREM TypeCorrectInCycle == CycleSpec => []TypeOK
BY InitTyped, NextTyped, TypedIsTypeOK, AnyOfBoth, PTL DEF CycleSpec

-----------------------------------------------------------------------------
(* What a step does to a queue, and to a timeout *)

\* A step that changes what is queued for p, or on its way to it.
LEMMA ChannelSteps ==
  ASSUME Typed, [AnyNext]_vars, NEW p \in Task
  PROVE  \/ \E m \in MessageType : Pop(p, m) /\ UNCHANGED <<timer, net, up>>
         \/ queue'[p] = queue[p] /\ net'[p] = net[p]
         \/ Deliver(p)
         \/ TimerFires(p)
         \/ p = "human" /\ SensorFires
         \/ \E q \in Task : DoSend(q) /\ Head(todo[q]).to = p
         \/ p \in {"main", "bluetooth"} /\ ScanIsAnswered
<1> USE DEF Typed, DataOK
<1>1. CASE MainReceives \/ HumanReceives \/ BluetoothReceives \/ BuzzerReceives
  <2>1. PICK q \in Task, m \in MessageType : Pop(q, m) /\ UNCHANGED <<timer, net, up>>
    BY <1>1, Receives
  <2>2. CASE q # p
    BY <2>1, <2>2 DEF Pop
  <2> QED BY <2>1, <2>2
<1>2. ASSUME NEW q \in Task, Perform(q) \/ TimerFires(q) \/ Deliver(q)
      PROVE  \/ queue'[p] = queue[p] /\ net'[p] = net[p]
             \/ Deliver(p) \/ TimerFires(p)
             \/ DoSend(q) /\ Head(todo[q]).to = p
  <2>1. CASE DoSend(q)
    BY <2>1 DEF DoSend
  <2>2. CASE DoStartTimer(q) \/ DoStopTimer(q)
    BY <2>2 DEF DoStartTimer, DoStopTimer
  <2>3. CASE TimerFires(q) /\ q # p
    BY <2>3 DEF TimerFires
  <2>4. CASE Deliver(q) /\ q # p
    BY <2>4 DEF Deliver
  <2> QED BY <1>2, <2>1, <2>2, <2>3, <2>4 DEF Perform
<1>3. CASE ScanReturns \/ Sensed \/ DriverSwitches \/ DurationLoaded
  BY <1>3 DEF ScanReturns, Sensed, DriverSwitches, DurationLoaded
<1>4. ASSUME NEW q \in Task, HandlerThrows(q)
      PROVE  queue'[p] = queue[p] /\ net'[p] = net[p]
  BY <1>4 DEF HandlerThrows
<1>5. CASE SensorFires
  BY <1>5 DEF SensorFires
<1>6. CASE ScanIsAnswered
  BY <1>6, PeerAnswers DEF ScanIsAnswered
<1>7. CASE UNCHANGED vars
  BY <1>7 DEF vars, taskVars
<1> QED BY <1>1, <1>2, <1>3, <1>4, <1>5, <1>6, <1>7, NextKinds

\* What is queued stays so until it is taken; what is coming stays so until then, but
\* for the requests the peer takes.
LEMMA QueuedStays ==
  ASSUME Typed, [AnyNext]_vars, NEW p \in Task, NEW m
  PROVE  /\ m \in ToSet(queue[p]) => m \in ToSet(queue'[p]) \/ Pop(p, m)
         /\ Coming(p, m) /\ p # "bluetooth" => Coming(p, m)' \/ Pop(p, m)
<1> USE DEF Typed, DataOK, Coming
<1>1. CASE \E n \in MessageType : Pop(p, n) /\ UNCHANGED <<timer, net, up>>
  <2>1. PICK n \in MessageType : Pop(p, n)
    BY <1>1
  <2>2. queue[p] # <<>> /\ Head(queue[p]) = n /\ queue'[p] = Tail(queue[p])
    BY <2>1 DEF Pop
  <2>3. ToSet(queue[p]) = ToSet(queue'[p]) \cup {n}
    BY <2>2, Popped
  <2> QED BY <1>1, <2>1, <2>3
<1>2. CASE queue'[p] = queue[p] /\ net'[p] = net[p]
  BY <1>2
<1>3. CASE Deliver(p)
  <2>1. /\ net[p] # <<>> /\ net'[p] = Tail(net[p])
        /\ queue'[p] = Append(queue[p], Head(net[p]))
    BY <1>3 DEF Deliver
  <2>2. ToSet(net[p]) = ToSet(net'[p]) \cup {Head(net[p])} /\ Head(net[p]) \in MessageType
    BY <2>1, Popped
  <2>3. ToSet(queue'[p]) = ToSet(queue[p]) \cup {Head(net[p])}
    BY <2>1, <2>2, Appended
  <2> QED BY <2>2, <2>3
<1>4. CASE TimerFires(p)
  <2>1. timer[p] \in MessageType /\ queue'[p] = Append(queue[p], timer[p]) /\ net' = net
    BY <1>4 DEF TimerFires
  <2>2. ToSet(queue'[p]) = ToSet(queue[p]) \cup {timer[p]}
    BY <2>1, Appended
  <2> QED BY <2>1, <2>2
<1>5. CASE p = "human" /\ SensorFires
  <2>1. queue'[p] = Append(queue[p], "HumanDetected") /\ net' = net
    BY <1>5 DEF SensorFires
  <2>2. ToSet(queue'[p]) = ToSet(queue[p]) \cup {"HumanDetected"}
    BY <2>1, Appended DEF MessageType
  <2> QED BY <2>1, <2>2
<1>6. CASE \E q \in Task : DoSend(q) /\ Head(todo[q]).to = p
  <2>1. PICK q \in Task : DoSend(q) /\ Head(todo[q]).to = p
    BY <1>6
  <2>2. net'[p] = Append(net[p], Head(todo[q]).msg) /\ queue' = queue
    BY <2>1 DEF DoSend
  <2>3. Head(todo[q]).msg \in MessageType
    BY <2>1, Steps DEF DoSend, Calling, ControlOK, PointsInv
  <2>4. ToSet(net'[p]) = ToSet(net[p]) \cup {Head(todo[q]).msg}
    BY <2>2, <2>3, Appended
  <2> QED BY <2>2, <2>4
<1>7. CASE p \in {"main", "bluetooth"} /\ ScanIsAnswered
  <2>1. queue' = queue
    BY <1>7 DEF ScanIsAnswered
  <2>2. \A n \in MessageType : ToSet(Append(net["main"], n)) = ToSet(net["main"]) \cup {n}
    BY Appended DEF Task
  <2>3. ToSet(net["main"]) \subseteq ToSet(net'["main"])
    BY <1>7, <2>2, PeerAnswers
  <2> QED BY <1>7, <2>1, <2>3
<1> QED BY <1>1, <1>2, <1>3, <1>4, <1>5, <1>6, <1>7, ChannelSteps

\* A timer changes when it fires or its own task calls it.
LEMMA TimerStays ==
  ASSUME Typed, [AnyNext]_vars, NEW p \in Task
  PROVE  \/ timer'[p] = timer[p] \/ TimerFires(p)
         \/ DoStartTimer(p) \/ DoStopTimer(p) \/ HandlerThrows(p)
<1> USE DEF Typed, DataOK
<1>1. CASE MainReceives \/ HumanReceives \/ BluetoothReceives \/ BuzzerReceives
  BY <1>1, Receives
<1>2. ASSUME NEW q \in Task, Perform(q) \/ TimerFires(q) \/ Deliver(q) \/ HandlerThrows(q)
      PROVE  timer'[p] = timer[p] \/ (q = p /\ ~DoSend(q) /\ ~Deliver(q))
  BY <1>2 DEF Perform, DoSend, DoStartTimer, DoStopTimer, TimerFires, Deliver, HandlerThrows
<1>3. CASE ScanReturns \/ Sensed \/ DriverSwitches \/ DurationLoaded \/ SensorFires
           \/ ScanIsAnswered \/ UNCHANGED vars
  BY <1>3 DEF ScanReturns, Sensed, DriverSwitches, DurationLoaded, SensorFires,
       ScanIsAnswered, vars, taskVars
<1> QED BY <1>1, <1>2, <1>3, NextKinds DEF Perform

\* A timeout stays ahead until it is taken or its task calls the timer.
LEMMA AheadStays ==
  ASSUME Typed, [AnyNext]_vars, NEW p \in Task, NEW m \in MessageType, TimeoutAhead(p, m)
  PROVE  \/ TimeoutAhead(p, m)' \/ Pop(p, m)
         \/ DoStartTimer(p) \/ DoStopTimer(p) \/ HandlerThrows(p)
<1>1. CASE m \in ToSet(queue[p])
  BY <1>1, QueuedStays DEF TimeoutAhead
<1>2. CASE timer[p] = m /\ TimerFires(p)
  <2>1. queue'[p] = Append(queue[p], m)
    BY <1>2 DEF TimerFires, Typed, DataOK
  <2>2. m \in ToSet(queue'[p])
    BY <2>1, Appended DEF Typed, DataOK
  <2> QED BY <2>2 DEF TimeoutAhead
<1>3. CASE timer[p] = m /\ ~TimerFires(p)
  BY <1>3, TimerStays DEF TimeoutAhead
<1> QED BY <1>1, <1>2, <1>3 DEF TimeoutAhead

\* Where a task is changes by its own steps only, and a receiver that ended stays so.
LEMMA ControlStays ==
  ASSUME Typed, [AnyNext]_vars, NEW p \in Task
  PROVE  /\ up'[p] => up[p]
         /\ up'[p] = up[p] \/ HandlerThrows(p)
         /\ \/ state'[p] = state[p] /\ todo'[p] = todo[p]
            \/ HandlerThrows(p) \/ Perform(p)
            \/ p = "main" /\ MainReceives
            \/ p = "human" /\ (HumanReceives \/ Sensed)
            \/ p = "bluetooth" /\ (BluetoothReceives \/ ScanReturns)
            \/ p = "buzzer" /\ (BuzzerReceives \/ DriverSwitches \/ DurationLoaded)
<1> USE DEF Typed
<1>1. ASSUME NEW q \in Task, TakesSome(q), q # p
      PROVE  up'[p] = up[p] /\ state'[p] = state[p] /\ todo'[p] = todo[p]
  BY <1>1, ContinueOK DEF TakesSome
<1>2. ASSUME NEW q \in Task, TakesSome(q) PROVE up'[p] = up[p]
  BY <1>2 DEF TakesSome
<1>3. ASSUME NEW q \in Task, todo[q] # <<>>, Returned(q), q # p
      PROVE  state'[p] = state[p] /\ todo'[p] = todo[p]
  BY <1>3, ReturnedOK
<1>4. CASE MainReceives \/ HumanReceives \/ BluetoothReceives \/ BuzzerReceives
  BY <1>1, <1>2, <1>4, TaskTakes DEF Task
<1>5. ASSUME NEW q \in Task, Perform(q)
      PROVE  up'[p] = up[p] /\ (q # p => state'[p] = state[p] /\ todo'[p] = todo[p])
  BY <1>3, <1>5 DEF Perform, DoSend, DoStartTimer, DoStopTimer, Calling
<1>6. ASSUME NEW q \in Task, TimerFires(q) \/ Deliver(q)
      PROVE  up'[p] = up[p] /\ state'[p] = state[p] /\ todo'[p] = todo[p]
  BY <1>6 DEF TimerFires, Deliver
<1>7. CASE ScanReturns
  BY <1>7, ScanReturnsOK DEF ScanReturns
<1>8. CASE Sensed
  BY <1>3, <1>8 DEF Sensed, Calling, Task
<1>9. CASE DriverSwitches \/ DurationLoaded
  BY <1>3, <1>9 DEF DriverSwitches, DurationLoaded, Calling, Task
<1>10. ASSUME NEW q \in Task, HandlerThrows(q)
       PROVE  /\ up'[p] => up[p]
              /\ q # p => up'[p] = up[p] /\ state'[p] = state[p] /\ todo'[p] = todo[p]
  <2>1. /\ state' = state /\ todo' = [todo EXCEPT ![q] = <<>>]
        /\ up' = [up EXCEPT ![q] = FALSE]
    BY <1>10 DEF HandlerThrows
  <2>2. q # p => todo'[p] = todo[p]
    BY <2>1 DEF ControlOK
  <2>3. (up'[p] => up[p]) /\ (q # p => up'[p] = up[p])
    BY <2>1 DEF DataOK
  <2> QED BY <2>1, <2>2, <2>3
<1>11. CASE SensorFires \/ ScanIsAnswered
  BY <1>11 DEF SensorFires, ScanIsAnswered
<1>12. CASE UNCHANGED vars
  BY <1>12 DEF vars, taskVars
<1> QED BY <1>4, <1>5, <1>6, <1>7, <1>8, <1>9, <1>10, <1>11, <1>12, NextKinds

\* Only p's own receiver thread takes from p's queue.
LEMMA PopsOnly ==
  ASSUME Typed, [AnyNext]_vars, NEW p \in Task, NEW m, Pop(p, m)
  PROVE  \/ p = "main" /\ MainReceives
         \/ p = "human" /\ HumanReceives
         \/ p = "bluetooth" /\ BluetoothReceives
         \/ p = "buzzer" /\ BuzzerReceives
<1> USE DEF Typed, DataOK
<1>1. queue[p] # <<>> /\ queue'[p] = Tail(queue[p]) /\ queue[p] \in Seq(MessageType)
  BY DEF Pop
<1>2. queue'[p] # queue[p] /\ \A n \in MessageType : queue'[p] # Append(queue[p], n)
  BY <1>1
<1>3. ASSUME NEW q \in Task, TakesSome(q) PROVE q = p
  BY <1>2, <1>3 DEF TakesSome, Pop
<1>4. ASSUME NEW q \in Task, Perform(q) \/ HandlerThrows(q) PROVE FALSE
  BY <1>2, <1>4 DEF Perform, DoSend, DoStartTimer, DoStopTimer, HandlerThrows
<1>5. ASSUME NEW q \in Task, TimerFires(q) PROVE FALSE
  BY <1>2, <1>5 DEF TimerFires
<1>6. ASSUME NEW q \in Task, Deliver(q) PROVE FALSE
  <2>1. Head(net[q]) \in MessageType
    BY <1>6, Popped DEF Deliver
  <2> QED BY <1>2, <1>6, <2>1 DEF Deliver
<1>7. CASE ScanReturns \/ Sensed \/ DriverSwitches \/ DurationLoaded \/ ScanIsAnswered
           \/ UNCHANGED vars
  BY <1>2, <1>7 DEF ScanReturns, Sensed, DriverSwitches, DurationLoaded, ScanIsAnswered,
       vars, taskVars
<1>8. CASE SensorFires
  BY <1>2, <1>8 DEF SensorFires, MessageType
<1>9. CASE MainReceives \/ HumanReceives \/ BluetoothReceives \/ BuzzerReceives
  BY <1>3, <1>9, TaskTakes DEF Task
<1> QED BY <1>4, <1>5, <1>6, <1>7, <1>8, <1>9, NextKinds

-----------------------------------------------------------------------------
(* The detection is timed *)

\* What the main task takes leaves it with calls to make, unless it is ignored.
LEMMA MainLeaves ==
  ASSUME Typed, MainReceives
  PROVE  todo'["main"] # <<>> \/ MainIgnores
<1>1. /\ {Begins1, Ends1, Retries1, RetryEnds1, Refused1, Cooled1} \subseteq PointsOf("main")
      /\ "main" \in Task
  BY DEF PointsOf, MainPoints, Task
<1>2. ASSUME NEW m, NEW calls \in PointsOf("main"), Takes("main", m, calls)
      PROVE  todo'["main"] # <<>>
  BY <1>1, <1>2, ContinueOK, Steps DEF Takes, Typed, Rest
<1> QED BY <1>1, <1>2, MainTakes

\* Main comes to wait for an answer with its timer armed.
LEMMA MainComesToWait ==
  ASSUME Typed, Perform("main"), state'["main"] = "WaitingDevicePresenceResponse",
         todo'["main"] = <<>>
  PROVE  timer'["main"] = "ProcessingTimeout"
<1>1. "main" \in Task /\ todo["main"] # <<>> /\ Returned("main")
  BY DEF Perform, DoSend, DoStartTimer, DoStopTimer, Calling, Task
<1>2. todo["main"] \in MainPoints
  BY <1>1, ReturnedOK DEF Typed, PointsOf
<1>3. Tail(todo["main"]) \notin MainPoints
  BY <1>1, ReturnedOK, PointsDiffer DEF Typed, PointsOf
<1>4. \A s : Tail(todo["main"]) = <<Become(s)>> => s = "WaitingDevicePresenceResponse"
  BY <1>1, ReturnedOK DEF Typed
<1>5. todo["main"] = Begins3
  BY <1>2, <1>3, <1>4, MainTails DEF MainPoints, Home, Cooling, WaitingAgain
<1>6. DoStartTimer("main")
  BY <1>5, MainTails, Fields DEF Perform, DoSend, DoStopTimer, Calling
<1> QED BY <1>1, <1>5, <1>6, MainTails, Fields DEF DoStartTimer, Typed, DataOK

LEMMA TimedNext ==
  ASSUME Typed, DetectionIsTimed, [AnyNext]_vars
  PROVE  DetectionIsTimed'
<1> SUFFICES ASSUME up'["main"], todo'["main"] = <<>>,
                    state'["main"] = "WaitingDevicePresenceResponse"
             PROVE  TimeoutAhead("main", "ProcessingTimeout")'
  BY DEF DetectionIsTimed, Idle
<1>1. "main" \in Task /\ "ProcessingTimeout" \in MessageType
  BY DEF Task, MessageType
<1>2. ~HandlerThrows("main")
  BY <1>1 DEF HandlerThrows, Typed, DataOK
<1>3. CASE Perform("main")
  BY <1>3, MainComesToWait DEF TimeoutAhead
<1>4. CASE ~Perform("main") /\ ~MainReceives
  <2>1. /\ up["main"] /\ state["main"] = "WaitingDevicePresenceResponse"
        /\ todo["main"] = <<>>
    BY <1>1, <1>2, <1>4, ControlStays
  <2>2. TimeoutAhead("main", "ProcessingTimeout")
    BY <2>1 DEF DetectionIsTimed, Idle
  <2>3. ~DoStartTimer("main") /\ ~DoStopTimer("main")
    BY <1>4 DEF Perform
  <2> QED BY <1>1, <1>2, <1>4, <2>2, <2>3, AheadStays, PopsOnly
<1>5. CASE MainReceives
  <2>1. MainIgnores
    BY <1>5, MainLeaves
  <2>2. PICK m \in MessageType : /\ <<state["main"], m>> \notin MainHandles
                                 /\ Pop("main", m)
    BY <2>1 DEF MainIgnores, Ignore
  <2>3. /\ UNCHANGED <<state, todo, timer, up>>
        /\ state["main"] = "WaitingDevicePresenceResponse" /\ todo["main"] = <<>>
    BY <2>1 DEF MainIgnores, Ignore
  <2>4. m # "ProcessingTimeout" /\ ~Pop("main", "ProcessingTimeout")
    BY <2>2, <2>3 DEF MainHandles, Pop
  <2>5. TimeoutAhead("main", "ProcessingTimeout")
    BY <2>3 DEF DetectionIsTimed, Idle
  <2>6. timer["main"] = "ProcessingTimeout" => timer'["main"] = "ProcessingTimeout"
    BY <2>3
  <2> QED BY <1>1, <2>4, <2>5, <2>6, QueuedStays DEF TimeoutAhead
<1> QED BY <1>3, <1>4, <1>5

LEMMA InitTimed == Init => DetectionIsTimed
BY DEF Init, InitTasks, DetectionIsTimed

\* While the main task waits for the first answer, the timeout that ends the wait is
\* still to come, whatever calls fail (main_handler.cpp:48, main_dispatcher.cpp:36-62).
THEOREM DetectionStaysTimed == Spec => []DetectionIsTimed
<1>1. Typed /\ DetectionIsTimed /\ [AnyNext]_vars => (Typed /\ DetectionIsTimed)'
  BY NextTyped, TimedNext
<1> QED BY <1>1, InitTyped, InitTimed, AnyOfBoth, PTL DEF Spec

\* The same while any scan request may be answered, late answers of earlier detections
\* included (main_dispatcher.cpp:45-62).
THEOREM DetectionStaysTimedInCycle == CycleSpec => []DetectionIsTimed
<1>1. Typed /\ DetectionIsTimed /\ [AnyNext]_vars => (Typed /\ DetectionIsTimed)'
  BY NextTyped, TimedNext
<1> QED BY <1>1, InitTyped, InitTimed, AnyOfBoth, PTL DEF CycleSpec

-----------------------------------------------------------------------------
(* The buzz is timed *)

\* The driver switches, and its line is low when it fails to be read back.
LEMMA BuzzingStays ==
  ASSUME Typed, [AnyNext]_vars
  PROVE  \/ buzzing' = buzzing
         \/ DriverSwitches
         \/ HandlerThrows("buzzer")
<1>1. CASE BuzzerNext
  BY <1>1 DEF BuzzerNext, ReadBackFails, DurationLoaded
<1>2. CASE ~BuzzerNext
  BY <1>2 DEF AnyNext, Next, deviceVars, vars
<1> QED BY <1>1, <1>2

LEMMA BuzzerPointsDiffer ==
  /\ Buzzes1 # <<>> /\ Buzzes2 # <<>> /\ Buzzes3 # <<>> /\ Silences1 # <<>>
  /\ Silences2 # <<>> /\ Buzzes1 # Silences2 /\ Buzzes2 # Silences2 /\ Buzzes3 # Silences2
  /\ {Buzzes1, Buzzes2, Buzzes3, Silences1, Silences2} = PointsOf("buzzer")
<1>1. \A calls \in BuzzerPoints : calls # <<>>
  BY PointsDiffer
<1>2. Head(Buzzes1).call # "stop_timer" /\ Head(Buzzes2).call # "stop_timer"
      /\ Head(Buzzes3).call # "stop_timer" /\ Head(Silences2).call = "stop_timer"
  BY OtherTails, Fields
<1> QED BY <1>1, <1>2 DEF BuzzerPoints, PointsOf

\* A call of the buzzer's handler returns.
LEMMA BuzzerGoesOn ==
  ASSUME Typed, BuzzInv, todo["buzzer"] # <<>>, Returned("buzzer"),
         (Perform("buzzer") /\ UNCHANGED buzzing) \/ DriverSwitches \/ DurationLoaded
  PROVE  BuzzInv'
<1> USE DEF Typed, DataOK
<1>1. "buzzer" \in Task
  BY DEF Task
<1>2. todo["buzzer"] \in BuzzerPoints
  BY <1>1, ReturnedOK, BuzzerPointsDiffer DEF BuzzerPoints
<1>3. \A calls \in BuzzerPoints \cup {<<>>} :
          Tail(todo["buzzer"]) = calls => todo'["buzzer"] = calls
  BY <1>1, ReturnedOK, BuzzerPointsDiffer DEF BuzzerPoints
<1> USE BuzzerPointsDiffer, Fields DEF BuzzInv, BuzzIsTimed, Idle
<1>4. CASE todo["buzzer"] \in {Buzzes1, Buzzes2}
  BY <1>3, <1>4, OtherTails DEF BuzzerPoints
<1>5. CASE todo["buzzer"] = Buzzes3
  <2>1. DoStartTimer("buzzer") /\ todo'["buzzer"] = <<>>
    BY <1>3, <1>5, OtherTails
       DEF Perform, DoSend, DoStopTimer, DriverSwitches, DurationLoaded, Calling
  <2>2. timer'["buzzer"] = "BuzzTimeout"
    BY <1>1, <1>5, <2>1, OtherTails DEF DoStartTimer
  <2> QED BY <2>1, <2>2 DEF TimeoutAhead
<1>6. CASE todo["buzzer"] = Silences1
  <2>1. Head(todo["buzzer"]).call = "off"
    BY <1>6, OtherTails
  <2>2. ~Perform("buzzer") /\ ~DurationLoaded /\ ~Calling("buzzer", "on")
    BY <2>1 DEF Perform, DoSend, DoStartTimer, DoStopTimer, DurationLoaded, Calling
  <2>3. buzzing' = FALSE
    BY <2>2 DEF DriverSwitches
  <2> QED BY <2>3
<1>7. CASE todo["buzzer"] = Silences2
  <2>1. todo'["buzzer"] = <<>>
    BY <1>3, <1>7, OtherTails
  <2>2. ~DriverSwitches
    <3>1. Head(todo["buzzer"]).call = "stop_timer"
      BY <1>7, OtherTails
    <3> QED BY <3>1 DEF DriverSwitches, Calling
  <2>3. buzzing' = buzzing
    BY <2>2 DEF DurationLoaded
  <2> QED BY <1>7, <2>1, <2>3
<1> QED BY <1>2, <1>4, <1>5, <1>6, <1>7 DEF BuzzerPoints

LEMMA BuzzInvNext ==
  ASSUME Typed, BuzzInv, [AnyNext]_vars
  PROVE  BuzzInv'
<1>1. "buzzer" \in Task /\ "BuzzTimeout" \in MessageType
  BY DEF Task, MessageType
<1> USE DEF BuzzInv, BuzzIsTimed, Idle
<1>2. CASE HandlerThrows("buzzer")
  <2>1. ~up'["buzzer"] /\ todo'["buzzer"] = <<>>
    BY <1>1, <1>2 DEF HandlerThrows, Typed, DataOK, ControlOK
  <2> QED BY <2>1, BuzzerPointsDiffer
<1>3. CASE /\ Perform("buzzer") \/ DriverSwitches \/ DurationLoaded
           /\ ~HandlerThrows("buzzer")
  <2>1. todo["buzzer"] # <<>> /\ Returned("buzzer")
    BY <1>3 DEF Perform, DoSend, DoStartTimer, DoStopTimer, DriverSwitches, DurationLoaded,
         Calling
  <2>2. CASE DriverSwitches \/ DurationLoaded
    BY <2>1, <2>2, BuzzerGoesOn
  <2>3. CASE Perform("buzzer") /\ ~DriverSwitches
    <3>1. buzzing' = buzzing
      BY <1>3, <2>3, BuzzingStays
    <3> QED BY <2>1, <2>3, <3>1, BuzzerGoesOn
  <2> QED BY <1>3, <2>2, <2>3
<1>4. CASE BuzzerReceives
  <2>1. CASE BuzzerIgnores
    <3>1. PICK m \in MessageType :
              /\ <<state["buzzer"], m>> \notin
                   {<<"None", n>> : n \in {"StartBuzzing", "StopBuzzing", "BuzzTimeout"}}
              /\ Pop("buzzer", m)
      BY <2>1 DEF BuzzerIgnores, Ignore
    <3>2. state["buzzer"] = "None"
      BY <1>1, ControlTyped DEF Typed, ControlOK
    <3>3. ~Pop("buzzer", "BuzzTimeout")
      BY <3>1, <3>2 DEF Pop
    <3>4. UNCHANGED <<todo, timer, up>>
      BY <2>1 DEF BuzzerIgnores, Ignore
    <3>5. todo["buzzer"] = <<>>
      BY <3>1 DEF Pop
    <3>6. ~HandlerThrows("buzzer") /\ ~DriverSwitches
      BY <3>5 DEF HandlerThrows, DriverSwitches, Calling
    <3>7. TimeoutAhead("buzzer", "BuzzTimeout") => TimeoutAhead("buzzer", "BuzzTimeout")'
      BY <1>1, <3>3, <3>4, QueuedStays DEF TimeoutAhead
    <3> QED BY <3>4, <3>5, <3>6, <3>7, BuzzingStays, BuzzerPointsDiffer
  <2>2. ASSUME NEW m, NEW calls \in {Buzzes1, Silences1}, Takes("buzzer", m, calls)
        PROVE  BuzzInv'
    <3>1. todo'["buzzer"] = calls
      BY <1>1, <2>2, ContinueOK, BuzzerPointsDiffer DEF Takes, Typed, Rest
    <3>2. Silences1 # Silences2
      BY OtherTails, Fields
    <3> QED BY <3>1, <3>2, BuzzerPointsDiffer
  <2> QED BY <1>4, <2>1, <2>2, BuzzerTakes
<1>5. CASE /\ ~HandlerThrows("buzzer") /\ ~Perform("buzzer") /\ ~BuzzerReceives
           /\ ~DriverSwitches /\ ~DurationLoaded
  <2>1. /\ up'["buzzer"] => up["buzzer"]
        /\ todo'["buzzer"] = todo["buzzer"] /\ buzzing' = buzzing
    BY <1>1, <1>5, ControlStays, BuzzingStays
  <2>2. ~DoStartTimer("buzzer") /\ ~DoStopTimer("buzzer") /\ ~Pop("buzzer", "BuzzTimeout")
    BY <1>1, <1>5, PopsOnly DEF Perform
  <2>3. TimeoutAhead("buzzer", "BuzzTimeout") => TimeoutAhead("buzzer", "BuzzTimeout")'
    BY <1>1, <1>5, <2>2, AheadStays
  <2> QED BY <2>1, <2>3
<1> QED BY <1>2, <1>3, <1>4, <1>5

LEMMA InitBuzzInv == Init => BuzzInv
<1>1. Init => todo["buzzer"] = <<>> /\ buzzing = FALSE
  BY DEF Init, InitTasks, Task
<1> QED BY <1>1, BuzzerPointsDiffer DEF BuzzInv, BuzzIsTimed

\* A sounding buzzer is going to be switched off by its own timer, whatever order
\* starts, stops and stale timeouts come in, and whatever calls fail
\* (buzzer_handler.cpp:24-36, 49-55).
THEOREM BuzzStaysTimed == Spec => []BuzzIsTimed
<1>1. Typed /\ BuzzInv /\ [AnyNext]_vars => (Typed /\ BuzzInv)'
  BY NextTyped, BuzzInvNext
<1>2. BuzzInv => BuzzIsTimed
  BY DEF BuzzInv
<1> QED BY <1>1, <1>2, InitTyped, InitBuzzInv, AnyOfBoth, PTL DEF Spec

\* The same over any number of rounds of scans and answers, in which the main task's
\* starts and stops overtake the buzzer's own timeouts (buzzer_handler.cpp:24-36, 49-55).
THEOREM BuzzStaysTimedInCycle == CycleSpec => []BuzzIsTimed
<1>1. Typed /\ BuzzInv /\ [AnyNext]_vars => (Typed /\ BuzzInv)'
  BY NextTyped, BuzzInvNext
<1>2. BuzzInv => BuzzIsTimed
  BY DEF BuzzInv
<1> QED BY <1>1, <1>2, InitTyped, InitBuzzInv, AnyOfBoth, PTL DEF CycleSpec

-----------------------------------------------------------------------------
(* Main and human never wait for each other *)

LEMMA HumanTimerNext ==
  ASSUME Typed, HumanTimer, [AnyNext]_vars
  PROVE  HumanTimer'
<1> USE DEF Typed, DataOK, HumanTimer
<1>1. "human" \in Task
  BY DEF Task
<1>2. CASE DoStartTimer("human")
  <2>1. todo["human"] \in HumanPoints /\ Head(todo["human"]).call = "start_timer"
    BY <1>1, <1>2 DEF DoStartTimer, Calling, ControlOK, PointsInv, PointsOf
  <2>2. todo["human"] = Detected2
    BY <2>1, OtherTails, Fields DEF HumanPoints
  <2> QED BY <1>1, <1>2, <2>2, OtherTails, Fields DEF DoStartTimer
<1>3. CASE TimerFires("human") \/ DoStopTimer("human")
  BY <1>1, <1>3 DEF TimerFires, DoStopTimer
<1>4. CASE HandlerThrows("human")
  BY <1>1, <1>4 DEF HandlerThrows
<1> QED BY <1>1, <1>2, <1>3, <1>4, TimerStays

LEMMA MainPointsDiffer ==
  /\ RetryEnds2 # <<>>
  /\ \A calls \in {Begins1, Ends1, Retries1, RetryEnds1, Refused1, Cooled1} :
         calls \in PointsOf("main") /\ calls # RetryEnds2 /\ calls # <<>>
<1>1. \A calls \in MainPoints : calls # <<>>
  BY PointsDiffer
<1>2. Tail(RetryEnds2) = <<Home>> /\ Head(RetryEnds2) = BuzzerStops
  BY MainTails
<1>3. \A calls \in {Begins1, Ends1, Retries1, RetryEnds1, Refused1, Cooled1} :
          calls # RetryEnds2
  BY <1>2, MainTails, Fields DEF BuzzerStops, Request, HumanStarts, BuzzerStarts
<1> QED BY <1>1, <1>3 DEF MainPoints, PointsOf

\* The main task starts waiting for a person by telling the human task to start.
LEMMA ComesHome ==
  ASSUME Typed, [AnyNext]_vars, ~Homeward, Homeward'
  PROVE  DoSend("main") /\ Head(todo["main"]) = HumanStarts
<1> USE DEF Homeward, Idle
<1>1. "main" \in Task
  BY DEF Task
<1>2. ~HandlerThrows("main")
  BY <1>1 DEF HandlerThrows, Typed, DataOK
<1>3. ~MainReceives
  <2>1. ASSUME MainIgnores PROVE FALSE
    BY <2>1 DEF MainIgnores, Ignore
  <2>2. ASSUME NEW m, Takes("main", m, Begins1) \/ Takes("main", m, Ends1)
                      \/ Takes("main", m, Retries1) \/ Takes("main", m, RetryEnds1)
                      \/ Takes("main", m, Refused1) \/ Takes("main", m, Cooled1)
        PROVE  FALSE
    BY <1>1, <2>2, MainPointsDiffer, ContinueOK DEF Takes, Typed, Rest
  <2> QED BY <2>1, <2>2, MainTakes
<1>4. Perform("main")
  BY <1>1, <1>2, <1>3, ControlStays DEF Typed
<1>5. todo["main"] # <<>> /\ Returned("main") /\ up' = up
  BY <1>4 DEF Perform, DoSend, DoStartTimer, DoStopTimer, Calling
<1>6. todo["main"] \in MainPoints
  BY <1>1, <1>5, ReturnedOK DEF Typed, PointsOf
<1>7. /\ Tail(todo["main"]) \in MainPoints => todo'["main"] = Tail(todo["main"])
      /\ \A s : Tail(todo["main"]) = <<Become(s)>> =>
                  todo'["main"] = <<>> /\ state'["main"] = s
  BY <1>1, <1>5, ReturnedOK DEF Typed, PointsOf
<1>8. todo["main"] # RetryEnds2
  BY <1>5
<1>9. CASE todo["main"] \in {Ends1, RetryEnds1}
  BY <1>4, <1>9, MainTails, Fields DEF Perform, DoStartTimer, DoStopTimer, Calling, HumanStarts
<1>10. CASE todo["main"] \in {Begins3, Retries2, Refused1, Cooled1}
  <2>1. todo'["main"] = <<>> /\ state'["main"] # "WaitingHumanDetection"
    BY <1>7, <1>10, MainTails DEF Waiting, Cooling, WaitingAgain
  <2> QED BY <2>1, MainPointsDiffer
<1>11. CASE todo["main"] \in {Begins1, Begins2, Retries1}
  <2>1. Tail(todo["main"]) \in {Begins2, Begins3, Retries2}
    BY <1>11, MainTails
  <2>2. Tail(Begins2) = Begins3 /\ Head(Begins3).call # "send" /\ Head(Retries2).call # "send"
        /\ Head(RetryEnds2).call = "send" /\ Head(Begins2).to # Head(RetryEnds2).to
    BY MainTails, Fields DEF BuzzerStops, HumanStops
  <2>3. todo'["main"] \in {Begins2, Begins3, Retries2}
    BY <1>7, <2>1 DEF MainPoints
  <2> QED BY <2>2, <2>3, PointsDiffer DEF MainPoints
<1> QED BY <1>6, <1>8, <1>9, <1>10, <1>11 DEF MainPoints

\* On its way home the main task tells the human task nothing more.
LEMMA HomewardIsSilent ==
  ASSUME Typed, Homeward, NEW q \in Task, DoSend(q)
  PROVE  Head(todo[q]).to # "human"
<1>1. todo[q] \in PointsOf(q) /\ Head(todo[q]).call = "send"
  BY DEF DoSend, Calling, Typed, ControlOK, PointsInv
<1>2. CASE q = "main"
  BY <1>1, <1>2, MainTails, Fields DEF Homeward, Idle, DoSend, Calling, BuzzerStops
<1>3. CASE q = "human"
  BY <1>1, <1>3, OtherTails, Fields DEF PointsOf, HumanPoints
<1>4. CASE q = "bluetooth"
  BY <1>1, <1>4, OtherTails, Fields DEF PointsOf, BluetoothPoints
<1>5. CASE q = "buzzer"
  BY <1>1, <1>5, OtherTails, Fields DEF PointsOf, BuzzerPoints
<1> QED BY <1>2, <1>3, <1>4, <1>5 DEF Task

\* A main task that takes a person's report leaves home.
LEMMA ReportLeavesHome ==
  ASSUME Typed, [AnyNext]_vars, Homeward, Pop("main", "HumanDetected")
  PROVE  ~Homeward'
<1>1. "main" \in Task /\ MainReceives
  BY PopsOnly DEF Task
<1>2. state["main"] = "WaitingHumanDetection"
  BY MainPointsDiffer DEF Homeward, Pop
<1>3. CASE MainIgnores
  BY <1>2, <1>3 DEF MainIgnores, Ignore, MainHandles, Pop
<1>4. CASE Takes("main", "HumanDetected", Begins1)
  <2>1. todo'["main"] = Begins1
    BY <1>1, <1>4, MainPointsDiffer, ContinueOK DEF Takes, Typed, Rest
  <2> QED BY <2>1, MainPointsDiffer DEF Homeward, Idle
<1> QED BY <1>1, <1>2, <1>3, <1>4, MainTakes

\* A stop that is undone stays undone as messages move on to the human task's queue.
LEMMA DeliveryKeepsStarts ==
  ASSUME Typed, StopsAreUndone, Deliver("human")
  PROVE  StopsAreUndone'
<1> DEFINE q == queue["human"]
           n == net["human"]
           IsStop(m) == m = "StopHumanDetection"
           IsStart(m) == m = "StartHumanDetection"
<1>1. /\ "human" \in Task /\ q \in Seq(MessageType) /\ n \in Seq(MessageType) /\ n # <<>>
      /\ queue'["human"] = Append(q, n[1]) /\ net'["human"] = Tail(n)
  BY Popped DEF Task, Typed, DataOK, Deliver
<1>2. /\ Len(n) \in Nat /\ Len(n) >= 1 /\ n[1] \in MessageType /\ DOMAIN n = 1 .. Len(n)
      /\ Len(q) \in Nat /\ DOMAIN q = 1 .. Len(q)
  BY <1>1, Popped
<1>3. /\ DOMAIN Append(q, n[1]) = 1 .. Len(q) + 1
      /\ \A i \in 1 .. Len(q) : Append(q, n[1])[i] = q[i]
      /\ Append(q, n[1])[Len(q) + 1] = n[1]
  BY <1>1, <1>2, Appended
<1>4. /\ DOMAIN Tail(n) = 1 .. Len(n) - 1
      /\ \A i \in 1 .. Len(n) - 1 : Tail(n)[i] = n[i + 1]
  BY <1>1, Popped
<1>5. /\ \A i \in 1 .. Len(n) : IsStop(n[i]) => \E j \in 1 .. Len(n) : j > i /\ IsStart(n[j])
      /\ \A i \in 1 .. Len(q) : IsStop(q[i]) =>
             \/ \E j \in 1 .. Len(q) : j > i /\ IsStart(q[j])
             \/ \E j \in 1 .. Len(n) : IsStart(n[j])
  BY <1>2 DEF StopsAreUndone
<1> HIDE DEF q, n, IsStop, IsStart
<1>6. ASSUME NEW i \in 1 .. Len(n) - 1, IsStop(Tail(n)[i])
      PROVE  \E j \in 1 .. Len(n) - 1 : j > i /\ IsStart(Tail(n)[j])
  <2>1. PICK j \in 1 .. Len(n) : j > i + 1 /\ IsStart(n[j])
    BY <1>2, <1>4, <1>5, <1>6
  <2>2. j - 1 \in 1 .. Len(n) - 1 /\ j - 1 > i /\ Tail(n)[j - 1] = n[j]
    BY <1>2, <1>4, <2>1
  <2> QED BY <2>1, <2>2
<1>7. ASSUME NEW j \in 1 .. Len(n), IsStart(n[j])
      PROVE  \/ IsStart(n[1]) \/ \E k \in 1 .. Len(n) - 1 : IsStart(Tail(n)[k])
  <2>1. CASE j = 1
    BY <1>7, <2>1
  <2>2. CASE j # 1
    <3>1. j - 1 \in 1 .. Len(n) - 1 /\ Tail(n)[j - 1] = n[j]
      BY <1>2, <1>4, <2>2
    <3> QED BY <1>7, <3>1
  <2> QED BY <2>1, <2>2
<1>8. ASSUME NEW i \in 1 .. Len(q) + 1, IsStop(Append(q, n[1])[i])
      PROVE  \/ \E j \in 1 .. Len(q) + 1 : j > i /\ IsStart(Append(q, n[1])[j])
             \/ \E j \in 1 .. Len(n) - 1 : IsStart(Tail(n)[j])
  <2>1. CASE i = Len(q) + 1
    <3>1. PICK j \in 1 .. Len(n) : j > 1 /\ IsStart(n[j])
      BY <1>2, <1>3, <1>5, <1>8, <2>1
    <3>2. j - 1 \in 1 .. Len(n) - 1 /\ Tail(n)[j - 1] = n[j]
      BY <1>2, <1>4, <3>1
    <3> QED BY <3>1, <3>2
  <2>2. CASE i \in 1 .. Len(q)
    <3>1. \/ \E j \in 1 .. Len(q) : j > i /\ IsStart(q[j])
          \/ \E j \in 1 .. Len(n) : IsStart(n[j])
      BY <1>3, <1>5, <1>8, <2>2
    <3>2. CASE \E j \in 1 .. Len(q) : j > i /\ IsStart(q[j])
      BY <1>2, <1>3, <3>2
    <3>3. CASE IsStart(n[1])
      <4>1. Len(q) + 1 \in 1 .. Len(q) + 1 /\ Len(q) + 1 > i
        BY <1>2, <2>2
      <4> QED BY <1>3, <3>3, <4>1
    <3> QED BY <1>7, <3>1, <3>2, <3>3
  <2> QED BY <1>2, <2>1, <2>2
<1>9. /\ \A i \in DOMAIN Tail(n) : IsStop(Tail(n)[i]) =>
             \E j \in DOMAIN Tail(n) : j > i /\ IsStart(Tail(n)[j])
      /\ \A i \in DOMAIN Append(q, n[1]) : IsStop(Append(q, n[1])[i]) =>
             \/ \E j \in DOMAIN Append(q, n[1]) : j > i /\ IsStart(Append(q, n[1])[j])
             \/ \E j \in DOMAIN Tail(n) : IsStart(Tail(n)[j])
  BY <1>3, <1>4, <1>6, <1>8
<1> QED BY <1>1, <1>9 DEF StopsAreUndone, IsStop, IsStart

\* So does it as the oldest message is taken,
LEMMA TakingKeepsStarts ==
  ASSUME Typed, StopsAreUndone, NEW m, Pop("human", m), net' = net
  PROVE  StopsAreUndone'
<1> DEFINE q == queue["human"]
<1>1. /\ q \in Seq(MessageType) /\ q # <<>> /\ queue'["human"] = Tail(q)
  BY DEF Task, Typed, DataOK, Pop
<1>2. /\ Len(q) \in Nat /\ DOMAIN q = 1 .. Len(q) /\ DOMAIN Tail(q) = 1 .. Len(q) - 1
      /\ \A i \in 1 .. Len(q) - 1 : Tail(q)[i] = q[i + 1]
  BY <1>1, Popped
<1> HIDE DEF q
<1>3. ASSUME NEW i \in 1 .. Len(q) - 1, Tail(q)[i] = "StopHumanDetection"
      PROVE  \/ \E j \in 1 .. Len(q) - 1 : j > i /\ Tail(q)[j] = "StartHumanDetection"
             \/ \E j \in DOMAIN net["human"] : net["human"][j] = "StartHumanDetection"
  <2>1. i + 1 \in DOMAIN q /\ q[i + 1] = "StopHumanDetection"
    BY <1>2, <1>3
  <2>2. \/ \E j \in DOMAIN q : j > i + 1 /\ q[j] = "StartHumanDetection"
        \/ \E j \in DOMAIN net["human"] : net["human"][j] = "StartHumanDetection"
    BY <2>1 DEF StopsAreUndone, q
  <2>3. ASSUME NEW j \in DOMAIN q, j > i + 1, q[j] = "StartHumanDetection"
        PROVE  \E k \in 1 .. Len(q) - 1 : k > i /\ Tail(q)[k] = "StartHumanDetection"
    <3>1. j - 1 \in 1 .. Len(q) - 1 /\ j - 1 > i /\ Tail(q)[j - 1] = q[j]
      BY <1>2, <2>3
    <3> QED BY <2>3, <3>1
  <2> QED BY <2>2, <2>3
<1> QED BY <1>1, <1>2, <1>3 DEF StopsAreUndone

\* and as anything but a stop is queued.
LEMMA QueueingKeepsStarts ==
  ASSUME Typed, StopsAreUndone, NEW m \in MessageType \ {"StopHumanDetection"},
         queue'["human"] = Append(queue["human"], m), net' = net
  PROVE  StopsAreUndone'
<1> DEFINE q == queue["human"]
<1>1. q \in Seq(MessageType) /\ queue'["human"] = Append(q, m)
  BY DEF Task, Typed, DataOK
<1>2. /\ Len(q) \in Nat /\ DOMAIN q = 1 .. Len(q) /\ DOMAIN Append(q, m) = 1 .. Len(q) + 1
      /\ \A i \in 1 .. Len(q) : Append(q, m)[i] = q[i]
      /\ Append(q, m)[Len(q) + 1] = m
  BY <1>1, Appended
<1> HIDE DEF q
<1>3. ASSUME NEW i \in 1 .. Len(q) + 1, Append(q, m)[i] = "StopHumanDetection"
      PROVE  \/ \E j \in 1 .. Len(q) + 1 :
                  j > i /\ Append(q, m)[j] = "StartHumanDetection"
             \/ \E j \in DOMAIN net["human"] : net["human"][j] = "StartHumanDetection"
  <2>1. i \in DOMAIN q /\ q[i] = "StopHumanDetection"
    BY <1>2, <1>3
  <2>2. \/ \E j \in DOMAIN q : j > i /\ q[j] = "StartHumanDetection"
        \/ \E j \in DOMAIN net["human"] : net["human"][j] = "StartHumanDetection"
    BY <2>1 DEF StopsAreUndone, q
  <2> QED BY <1>2, <2>2
<1> QED BY <1>1, <1>2, <1>3 DEF StopsAreUndone

\* While the main task is on its way home no stop is left without a start behind it.
LEMMA StopsStayUndone ==
  ASSUME Typed, WakeInv, [AnyNext]_vars, Homeward
  PROVE  StopsAreUndone'
<1>1. "human" \in Task /\ StopsAreUndone
  BY DEF Task, WakeInv
<1>2. CASE \E m \in MessageType : Pop("human", m) /\ UNCHANGED <<timer, net, up>>
  BY <1>1, <1>2, TakingKeepsStarts
<1>3. CASE queue'["human"] = queue["human"] /\ net'["human"] = net["human"]
  BY <1>1, <1>3 DEF StopsAreUndone
<1>4. CASE Deliver("human")
  BY <1>1, <1>4, DeliveryKeepsStarts
<1>5. CASE TimerFires("human")
  <2>1. /\ queue'["human"] = Append(queue["human"], "CooldownTimeout") /\ net' = net
        /\ "CooldownTimeout" \in MessageType \ {"StopHumanDetection"}
    BY <1>1, <1>5 DEF TimerFires, WakeInv, HumanTimer, Typed, DataOK, MessageType
  <2> QED BY <1>1, <2>1, QueueingKeepsStarts
<1>6. CASE SensorFires
  <2>1. /\ queue'["human"] = Append(queue["human"], "HumanDetected") /\ net' = net
        /\ "HumanDetected" \in MessageType \ {"StopHumanDetection"}
    BY <1>1, <1>6 DEF SensorFires, Typed, DataOK, MessageType
  <2> QED BY <1>1, <2>1, QueueingKeepsStarts
<1> QED BY <1>1, <1>2, <1>3, <1>4, <1>5, <1>6, ChannelSteps, HomewardIsSilent

\* A human task that is woken stays so while it is stopped and main stays at home.
LEMMA StaysWoken ==
  ASSUME Typed, WakeInv, [AnyNext]_vars, Homeward, Homeward',
         up["human"], todo["human"] = <<>>, state["human"] = "Stopped",
         ~Pop("human", "StartHumanDetection"), ~Pop("human", "CooldownTimeout")
  PROVE  IsWoken'
<1>1. "human" \in Task /\ "main" \in Task /\ "CooldownTimeout" \in MessageType
  BY DEF Task, MessageType
<1>2. \/ Coming("main", "HumanDetected")
      \/ Coming("human", "StartHumanDetection")
      \/ TimeoutAhead("human", "CooldownTimeout")
  BY DEF WakeInv, IsWoken, Idle
<1>3. ~Pop("main", "HumanDetected")
  BY ReportLeavesHome
<1>4. /\ ~DoStartTimer("human") /\ ~DoStopTimer("human") /\ ~HandlerThrows("human")
  BY DEF DoStartTimer, DoStopTimer, HandlerThrows, Calling
<1> QED BY <1>1, <1>2, <1>3, <1>4, QueuedStays, AheadStays DEF IsWoken

\* The human task stops, or stays stopped, only with something on its way that wakes it.
LEMMA WokenNext ==
  ASSUME Typed, WakeInv, [AnyNext]_vars, Homeward, Homeward'
  PROVE  IsWoken'
<1> SUFFICES ASSUME up'["human"], todo'["human"] = <<>>, state'["human"] = "Stopped"
             PROVE  IsWoken'
  BY DEF IsWoken, Idle
<1> USE DEF Typed
<1>1. "human" \in Task
  BY DEF Task
<1>2. ~HandlerThrows("human")
  BY <1>1 DEF HandlerThrows, DataOK
<1>3. CASE Perform("human") \/ Sensed
  <2>1. todo["human"] # <<>> /\ Returned("human")
    BY <1>3 DEF Perform, DoSend, DoStartTimer, DoStopTimer, Sensed, Calling
  <2>2. todo["human"] \in HumanPoints
    BY <1>1, <2>1, ReturnedOK DEF PointsOf
  <2>3. /\ Tail(todo["human"]) \in HumanPoints => todo'["human"] = Tail(todo["human"])
        /\ \A s : Tail(todo["human"]) = <<Become(s)>> => state'["human"] = s
    BY <1>1, <2>1, ReturnedOK DEF PointsOf
  <2>4. todo["human"] # Detected1
    BY <2>3, OtherTails, PointsDiffer DEF HumanPoints
  <2>5. todo["human"] # Senses1
    BY <2>3, OtherTails
  <2>6. todo["human"] = Detected2
    BY <2>2, <2>4, <2>5 DEF HumanPoints
  <2>7. DoStartTimer("human")
    BY <1>3, <2>6, OtherTails, Fields DEF Perform, DoSend, DoStopTimer, Sensed, Calling
  <2>8. timer'["human"] = "CooldownTimeout"
    BY <1>1, <2>6, <2>7, OtherTails, Fields DEF DoStartTimer, DataOK
  <2> QED BY <2>8 DEF IsWoken, TimeoutAhead
<1>4. CASE HumanReceives
  <2>1. {Detected1, Senses1} \subseteq PointsOf("human")
        /\ \A calls \in {Detected1, Senses1} : calls # <<>>
    BY PointsDiffer DEF PointsOf, HumanPoints
  <2>2. ASSUME NEW m, Takes("human", m, Detected1) \/ Takes("human", m, Senses1)
        PROVE  FALSE
    BY <1>1, <2>1, <2>2, ContinueOK DEF Takes, Rest
  <2>3. CASE HumanIgnores
    <3>1. /\ up["human"] /\ todo["human"] = <<>> /\ state["human"] = "Stopped"
          /\ ~Pop("human", "StartHumanDetection") /\ ~Pop("human", "CooldownTimeout")
      BY <2>3 DEF HumanIgnores, Ignore, HumanHandles, Pop
    <3> QED BY <3>1, StaysWoken
  <2>4. CASE Takes("human", "StopHumanDetection", <<Become("Stopped")>>)
    <3>1. /\ queue["human"] \in Seq(MessageType) /\ queue["human"] # <<>>
          /\ Head(queue["human"]) = "StopHumanDetection"
          /\ queue'["human"] = Tail(queue["human"]) /\ net' = net
      BY <1>1, <2>4 DEF Takes, Pop, DataOK
    <3>2. queue["human"][1] = "StopHumanDetection" /\ 1 \in DOMAIN queue["human"]
      BY <3>1
    <3>3. \/ \E j \in DOMAIN queue["human"] :
               j > 1 /\ queue["human"][j] = "StartHumanDetection"
          \/ \E j \in DOMAIN net["human"] : net["human"][j] = "StartHumanDetection"
      BY <3>2 DEF WakeInv, StopsAreUndone
    <3>4. ASSUME NEW j \in DOMAIN queue["human"], j > 1,
                 queue["human"][j] = "StartHumanDetection"
          PROVE  "StartHumanDetection" \in ToSet(queue'["human"])
      <4>1. /\ j - 1 \in DOMAIN Tail(queue["human"])
            /\ Tail(queue["human"])[j - 1] = queue["human"][j]
        BY <3>1, <3>4
      <4> QED BY <3>1, <3>4, <4>1 DEF ToSet
    <3>5. "StartHumanDetection" \in ToSet(queue'["human"]) \cup ToSet(net'["human"])
      BY <3>1, <3>3, <3>4 DEF ToSet
    <3> QED BY <3>5 DEF IsWoken, Coming
  <2> QED BY <1>4, <2>2, <2>3, <2>4, HumanTakes
<1>5. CASE ~Perform("human") /\ ~Sensed /\ ~HumanReceives
  <2>1. /\ up["human"] /\ todo["human"] = <<>> /\ state["human"] = "Stopped"
    BY <1>1, <1>2, <1>5, ControlStays
  <2>2. ~Pop("human", "StartHumanDetection") /\ ~Pop("human", "CooldownTimeout")
    BY <1>1, <1>5, PopsOnly
  <2> QED BY <2>1, <2>2, StaysWoken
<1> QED BY <1>3, <1>4, <1>5

LEMMA WakeInvNext ==
  ASSUME Typed, WakeInv, [AnyNext]_vars
  PROVE  WakeInv'
<1> SUFFICES ASSUME Homeward' PROVE StopsAreUndone' /\ IsWoken'
  BY HumanTimerNext DEF WakeInv
<1>1. CASE Homeward
  BY <1>1, StopsStayUndone, WokenNext
<1>2. CASE ~Homeward
  <2>1. DoSend("main") /\ Head(todo["main"]) = HumanStarts
    BY <1>2, ComesHome
  <2>2. /\ "human" \in Task /\ queue' = queue /\ net["human"] \in Seq(MessageType)
        /\ net'["human"] = Append(net["human"], "StartHumanDetection")
    BY <2>1, Fields DEF DoSend, HumanStarts, Task, Typed, DataOK
  <2>3. "StartHumanDetection" \in MessageType
    BY DEF MessageType
  <2>4. PICK k \in DOMAIN net'["human"] :
            /\ net'["human"][k] = "StartHumanDetection"
            /\ \A i \in DOMAIN net'["human"] : i # k =>
                   i < k
    <3>1. Len(net["human"]) \in Nat /\ DOMAIN net'["human"] = 1 .. Len(net["human"]) + 1
          /\ net'["human"][Len(net["human"]) + 1] = "StartHumanDetection"
      BY <2>2, <2>3, Appended
    <3> QED BY <3>1
  <2>5. StopsAreUndone'
    <3>1. ASSUME NEW i \in DOMAIN net'["human"], net'["human"][i] = "StopHumanDetection"
          PROVE  k > i
      <4>1. i # k
        BY <2>4, <3>1
      <4>2. k \in Int /\ i \in Int
        BY <2>2, <2>3, Appended
      <4> QED BY <2>4, <4>1, <4>2
    <3> QED BY <2>4, <3>1 DEF StopsAreUndone
  <2>6. IsWoken'
    BY <2>4 DEF IsWoken, Coming, ToSet
  <2> QED BY <2>5, <2>6
<1> QED BY <1>1, <1>2

LEMMA InitWakeInv == Init => WakeInv
<1> SUFFICES ASSUME Init PROVE WakeInv
  OBVIOUS
<1>1. /\ queue["human"] = <<>> /\ net["human"] = <<>> /\ timer["human"] = NoMessage
      /\ state["human"] = "Detecting"
  BY DEF Init, InitTasks, Task
<1> QED BY <1>1 DEF WakeInv, HumanTimer, StopsAreUndone, IsWoken

LEMMA WakeInvMeaning == WakeInv => NoMutualWait
BY DEF WakeInv, Homeward, IsWoken, NoMutualWait

\* Main and human never wait for each other, whatever calls fail: when the one waits
\* for a person and the other is stopped, something on its way will wake one of them
\* (main_handler.cpp:57-84, human_handler.cpp:25-36, human_dispatcher.cpp:55-71).
THEOREM NeverBothWaiting == Spec => []NoMutualWait
<1>1. Typed /\ WakeInv /\ [AnyNext]_vars => (Typed /\ WakeInv)'
  BY NextTyped, WakeInvNext
<1> QED BY <1>1, InitTyped, InitWakeInv, WakeInvMeaning, AnyOfBoth, PTL DEF Spec

\* The same when the main task comes home from a retry, over any number of rounds
\* (main_handler.cpp:70-84, main_dispatcher.cpp:48-80).
THEOREM NeverBothWaitingInCycle == CycleSpec => []NoMutualWait
<1>1. Typed /\ WakeInv /\ [AnyNext]_vars => (Typed /\ WakeInv)'
  BY NextTyped, WakeInvNext
<1> QED BY <1>1, InitTyped, InitWakeInv, WakeInvMeaning, AnyOfBoth, PTL DEF CycleSpec

-----------------------------------------------------------------------------
(* The buzzer is told to start and to stop in turns *)

Orders(s) == {i \in DOMAIN s : s[i] \in {"StartBuzzing", "StopBuzzing"}}

TakeTurns(s) ==
    \A i, j \in Orders(s) : i < j /\ s[i] = s[j] => \E k \in Orders(s) : i < k /\ k < j

\* The last order in s, if there is any, is to sound just if sound holds.
LastOrder(s, sound) ==
    \A last \in Orders(s) : (\A i \in Orders(s) : i <= last) =>
        (s[last] = "StartBuzzing" <=> sound)

LEMMA TurnsOfTail ==
  ASSUME NEW s \in Seq(MessageType), s # <<>>, NEW sound \in BOOLEAN
  PROVE  /\ TakeTurns(s) => TakeTurns(Tail(s))
         /\ LastOrder(s, sound) => LastOrder(Tail(s), sound)
<1> DEFINE t == Tail(s)
<1>1. /\ Len(s) \in Nat /\ Len(s) >= 1 /\ DOMAIN s = 1 .. Len(s) /\ DOMAIN t = 1 .. Len(s) - 1
      /\ \A i \in DOMAIN t : t[i] = s[i + 1]
  BY Popped
<1> HIDE DEF t
<1>2. \A i \in Orders(t) : i \in Int /\ i + 1 \in Orders(s) /\ t[i] = s[i + 1]
  BY <1>1 DEF Orders
<1>3. \A i \in Orders(s) : i \in Int /\ (i > 1 => i - 1 \in Orders(t))
  <2> SUFFICES ASSUME NEW i \in Orders(s), i > 1 PROVE i - 1 \in Orders(t)
    BY <1>1 DEF Orders
  <2>1. i - 1 \in DOMAIN t /\ t[i - 1] = s[i]
    BY <1>1 DEF Orders
  <2> QED BY <2>1 DEF Orders
<1>4. ASSUME TakeTurns(s), NEW i \in Orders(t), NEW j \in Orders(t), i < j, t[i] = t[j]
      PROVE  \E k \in Orders(t) : i < k /\ k < j
  <2>1. PICK k \in Orders(s) : i + 1 < k /\ k < j + 1
    BY <1>2, <1>4 DEF TakeTurns
  <2>2. k \in Int /\ k > 1
    BY <1>1, <1>2, <2>1 DEF Orders
  <2>3. k - 1 \in Orders(t) /\ i < k - 1 /\ k - 1 < j
    BY <1>2, <1>3, <2>1, <2>2
  <2> QED BY <2>3
<1>5. ASSUME LastOrder(s, sound), NEW last \in Orders(t), \A i \in Orders(t) : i <= last
      PROVE  t[last] = "StartBuzzing" <=> sound
  <2>1. last \in Int /\ last >= 1 /\ last + 1 \in Orders(s) /\ t[last] = s[last + 1]
    BY <1>1, <1>2 DEF Orders
  <2>2. ASSUME NEW i \in Orders(s) PROVE i <= last + 1
    <3>1. i > 1 => i - 1 <= last
      BY <1>3, <1>5
    <3> QED BY <1>3, <2>1, <3>1
  <2> QED BY <1>5, <2>1, <2>2 DEF LastOrder
<1> QED BY <1>4, <1>5 DEF TakeTurns, LastOrder, t

LEMMA TurnsOfAppend ==
  ASSUME NEW s \in Seq(MessageType), NEW sound \in BOOLEAN,
         TakeTurns(s), LastOrder(s, ~sound)
  PROVE  LET t == Append(s, IF sound THEN "StartBuzzing" ELSE "StopBuzzing")
         IN  TakeTurns(t) /\ LastOrder(t, sound)
<1> DEFINE m == IF sound THEN "StartBuzzing" ELSE "StopBuzzing"
           t == Append(s, m)
           n == Len(s) + 1
<1>1. m \in MessageType /\ m \in {"StartBuzzing", "StopBuzzing"}
      /\ (m = "StartBuzzing" <=> sound)
  BY DEF MessageType
<1> HIDE DEF m
<1>2. /\ Len(s) \in Nat /\ DOMAIN s = 1 .. Len(s) /\ DOMAIN t = 1 .. n
      /\ \A i \in DOMAIN s : t[i] = s[i]
      /\ t[n] = m
  BY <1>1, Appended
<1> HIDE DEF t
<1>3. Orders(t) = Orders(s) \cup {n} /\ \A i \in Orders(s) : i \in Int /\ i < n /\ t[i] = s[i]
  BY <1>1, <1>2 DEF Orders
<1>4. ASSUME NEW i \in Orders(t), NEW j \in Orders(t), i < j, t[i] = t[j]
      PROVE  \E k \in Orders(t) : i < k /\ k < j
  <2>1. i \in Orders(s)
    BY <1>2, <1>3, <1>4
  <2>2. CASE j \in Orders(s)
    BY <1>3, <1>4, <2>1, <2>2 DEF TakeTurns
  <2>3. CASE j = n
    <3>1. ~(s[i] = "StartBuzzing" <=> ~sound)
      BY <1>1, <1>2, <1>3, <1>4, <2>1, <2>3
    <3>2. PICK k \in Orders(s) : ~(k <= i)
      BY <2>1, <3>1 DEF LastOrder
    <3> QED BY <1>3, <2>1, <2>3, <3>2
  <2> QED BY <1>3, <2>2, <2>3
<1>5. ASSUME NEW last \in Orders(t), \A i \in Orders(t) : i <= last
      PROVE  t[last] = "StartBuzzing" <=> sound
  <2>1. last = n
    BY <1>2, <1>3, <1>5
  <2> QED BY <1>1, <1>2, <2>1
<1>6. TakeTurns(t) /\ LastOrder(t, sound)
  BY <1>4, <1>5 DEF TakeTurns, LastOrder
<1> QED BY <1>6 DEF t, m

\* What is not an order does not count, wherever it is put.
LEMMA TurnsOfInsert ==
  ASSUME NEW q \in Seq(MessageType), NEW n \in Seq(MessageType), NEW sound \in BOOLEAN,
         NEW m \in MessageType \ {"StartBuzzing", "StopBuzzing"}
  PROVE  /\ TakeTurns(q \o n) => TakeTurns(Append(q, m) \o n)
         /\ LastOrder(q \o n, sound) => LastOrder(Append(q, m) \o n, sound)
<1> DEFINE s == q \o n
           t == Append(q, m) \o n
           l == Len(q)
           from(i) == IF i <= l THEN i ELSE i - 1
           to(i) == IF i <= l THEN i ELSE i + 1
<1>1. /\ l \in Nat /\ Len(n) \in Nat
      /\ DOMAIN s = 1 .. l + Len(n) /\ DOMAIN t = 1 .. l + 1 + Len(n)
      /\ \A i \in 1 .. l : s[i] = q[i] /\ t[i] = q[i]
      /\ t[l + 1] = m
      /\ \A i \in l + 1 .. l + Len(n) : s[i] = n[i - l] /\ t[i + 1] = n[i - l]
  <2>1. Append(q, m) \in Seq(MessageType) /\ Len(Append(q, m)) = l + 1
    OBVIOUS
  <2>2. /\ \A i \in 1 .. l : Append(q, m)[i] = q[i]
        /\ Append(q, m)[l + 1] = m
    OBVIOUS
  <2>3. \A a, b \in Seq(MessageType) :
            /\ DOMAIN (a \o b) = 1 .. Len(a) + Len(b)
            /\ \A i \in 1 .. Len(a) : (a \o b)[i] = a[i]
            /\ \A i \in Len(a) + 1 .. Len(a) + Len(b) : (a \o b)[i] = b[i - Len(a)]
    OBVIOUS
  <2>4. l \in Nat /\ Len(n) \in Nat
    OBVIOUS
  <2> HIDE DEF l
  <2>5. /\ DOMAIN s = 1 .. l + Len(n) /\ DOMAIN t = 1 .. l + 1 + Len(n)
        /\ \A i \in 1 .. l : s[i] = q[i]
        /\ \A i \in l + 1 .. l + Len(n) : s[i] = n[i - l]
        /\ \A i \in 1 .. l + 1 : t[i] = Append(q, m)[i]
        /\ \A i \in l + 2 .. l + 1 + Len(n) : t[i] = n[i - (l + 1)]
    BY <2>1, <2>3, <2>4 DEF l
  <2> HIDE DEF s, t
  <2>6. ASSUME NEW i \in l + 1 .. l + Len(n) PROVE t[i + 1] = n[i - l]
    <3> DEFINE k == i + 1
    <3>1. k \in l + 2 .. l + 1 + Len(n) /\ k - (l + 1) = i - l
      BY <2>4
    <3> HIDE DEF k
    <3>2. t[k] = n[k - (l + 1)]
      BY <2>5, <3>1
    <3> QED BY <3>1, <3>2 DEF k
  <2>7. l + 1 \in 1 .. l + 1 /\ \A i \in 1 .. l : i \in 1 .. l + 1
    BY <2>4
  <2> QED BY <2>2, <2>4, <2>5, <2>6, <2>7
<1> HIDE DEF s, t, l
<1>2. \A i \in Orders(t) : i \in Int /\ from(i) \in Orders(s) /\ t[i] = s[from(i)] /\ i # l + 1
  <2> SUFFICES ASSUME NEW i \in Orders(t)
               PROVE  i \in Int /\ from(i) \in Orders(s) /\ t[i] = s[from(i)] /\ i # l + 1
    OBVIOUS
  <2>1. i \in 1 .. l + 1 + Len(n) /\ i # l + 1
    BY <1>1 DEF Orders
  <2>2. from(i) \in DOMAIN s /\ s[from(i)] = t[i]
    BY <1>1, <2>1
  <2> QED BY <2>1, <2>2 DEF Orders
<1>3. \A i \in Orders(s) : i \in Int /\ to(i) \in Orders(t)
  <2> SUFFICES ASSUME NEW i \in Orders(s) PROVE i \in Int /\ to(i) \in Orders(t)
    OBVIOUS
  <2>1. i \in 1 .. l + Len(n)
    BY <1>1 DEF Orders
  <2>2. to(i) \in DOMAIN t /\ t[to(i)] = s[i]
    BY <1>1, <2>1
  <2> QED BY <2>1, <2>2 DEF Orders
<1>4. l \in Int
  BY <1>1
<1>5. ASSUME TakeTurns(s), NEW i \in Orders(t), NEW j \in Orders(t), i < j, t[i] = t[j]
      PROVE  \E k \in Orders(t) : i < k /\ k < j
  <2>1. from(i) < from(j)
    BY <1>2, <1>4, <1>5
  <2>2. PICK k \in Orders(s) : from(i) < k /\ k < from(j)
    BY <1>2, <1>5, <2>1 DEF TakeTurns
  <2>3. i < to(k) /\ to(k) < j
    BY <1>2, <1>3, <1>4, <2>2
  <2> QED BY <1>3, <2>3
<1>6. ASSUME LastOrder(s, sound), NEW last \in Orders(t), \A i \in Orders(t) : i <= last
      PROVE  t[last] = "StartBuzzing" <=> sound
  <2>1. ASSUME NEW i \in Orders(s) PROVE i <= from(last)
    <3>1. to(i) <= last
      BY <1>3, <1>6
    <3> QED BY <1>2, <1>3, <1>4, <3>1
  <2> QED BY <1>2, <1>6, <2>1 DEF LastOrder
<1> QED BY <1>5, <1>6 DEF TakeTurns, LastOrder, s, t

LEMMA Concatenations ==
  ASSUME NEW q \in Seq(MessageType), NEW n \in Seq(MessageType)
  PROVE  /\ q \o n \in Seq(MessageType)
         /\ \A m \in MessageType : q \o Append(n, m) = Append(q \o n, m)
         /\ q # <<>> => Tail(q) \o n = Tail(q \o n) /\ q \o n # <<>>
         /\ n # <<>> => Append(q, Head(n)) \o Tail(n) = q \o n
<1>1. ASSUME NEW m \in MessageType PROVE q \o Append(n, m) = Append(q \o n, m)
  OBVIOUS
<1>2. ASSUME q # <<>> PROVE Tail(q) \o n = Tail(q \o n) /\ q \o n # <<>>
  BY <1>2
<1>3. ASSUME n # <<>> PROVE Append(q, Head(n)) \o Tail(n) = q \o n
  BY <1>3
<1>4. q \o n \in Seq(MessageType)
  OBVIOUS
<1> QED BY <1>1, <1>2, <1>3, <1>4

\* Where state_ is while the main task has calls left, and that it is alive then.
FirstPoints == {Begins1, Begins2, Begins3}
AnswerPoints == {Ends1, Retries1, Retries2}
RetryPoints == {RetryEnds1, RetryEnds2, Refused1, Cooled1}

MainPlaces ==
    /\ todo["main"] \in FirstPoints => state["main"] = "WaitingHumanDetection"
    /\ todo["main"] \in AnswerPoints => state["main"] = "WaitingDevicePresenceResponse"
    /\ todo["main"] \in RetryPoints => Retrying
    /\ todo["main"] # <<>> => up["main"]

\* The main task retries, or has told the buzzer so and has its timer to start first.
ToldToSound == Retrying \/ todo["main"] = Retries2

\* The buzzer's timer times nothing but its buzz.
BuzzerTimer == timer["buzzer"] \in {"BuzzTimeout", NoMessage}

TurnsInv ==
    /\ MainPlaces
    /\ BuzzerTimer
    /\ TakeTurns(BuzzerGets)
    /\ up["main"] => LastOrder(BuzzerGets, ToldToSound)

LEMMA MainPointsApart ==
  /\ FirstPoints \cap AnswerPoints = {} /\ FirstPoints \cap RetryPoints = {}
  /\ AnswerPoints \cap RetryPoints = {}
  /\ Retries2 \notin {Ends1, Retries1} /\ Retries2 \notin FirstPoints \cup RetryPoints
  /\ <<>> \notin FirstPoints \cup AnswerPoints \cup RetryPoints
  /\ MainPoints = FirstPoints \cup AnswerPoints \cup RetryPoints
<1>1. \A calls \in MainPoints : calls # <<>>
  BY PointsDiffer
<1>2. /\ Home # Waiting /\ Home # Cooling /\ Home # WaitingAgain /\ Waiting # Cooling
      /\ Waiting # WaitingAgain /\ Cooling # WaitingAgain
  BY Fields DEF Home, Waiting, Cooling, WaitingAgain
<1>3. /\ BuzzerStarts # Request /\ BuzzerStarts # HumanStarts /\ BuzzerStops # HumanStarts
      /\ StartTimer("CooldownTimeout") # Request
  <2>1. /\ BuzzerStarts.to = "buzzer" /\ BuzzerStops.to = "buzzer" /\ Request.to = "bluetooth"
        /\ HumanStarts.to = "human"
    BY Fields DEF BuzzerStarts, BuzzerStops, Request, HumanStarts
  <2>2. StartTimer("CooldownTimeout").call = "start_timer" /\ Request.call = "send"
    BY Fields DEF Request
  <2> QED BY <2>1, <2>2
<1>4. /\ Len(Begins1) = 4 /\ Begins1[4] = Waiting /\ Len(Begins2) = 3 /\ Begins2[3] = Waiting
      /\ Len(Begins3) = 2 /\ Begins3[2] = Waiting
  BY DEF Begins1, Begins2, Begins3
<1>5. /\ Len(Ends1) = 2 /\ Ends1[1] = HumanStarts /\ Ends1[2] = Home
      /\ Len(Retries1) = 3 /\ Retries1[3] = Cooling
      /\ Len(Retries2) = 2 /\ Retries2[1] = StartTimer("CooldownTimeout")
      /\ Retries2[2] = Cooling
  BY DEF Ends1, Retries1, Retries2
<1>6. /\ Len(RetryEnds1) = 3 /\ RetryEnds1[3] = Home
      /\ Len(RetryEnds2) = 2 /\ RetryEnds2[1] = BuzzerStops /\ RetryEnds2[2] = Home
      /\ Len(Refused1) = 2 /\ Refused1[1] = Request /\ Refused1[2] = Cooling
      /\ Len(Cooled1) = 2 /\ Cooled1[2] = WaitingAgain
  BY DEF RetryEnds1, RetryEnds2, Refused1, Cooled1
<1>7. FirstPoints \cap AnswerPoints = {}
  BY <1>2, <1>4, <1>5 DEF FirstPoints, AnswerPoints
<1>8. FirstPoints \cap RetryPoints = {}
  BY <1>2, <1>4, <1>6 DEF FirstPoints, RetryPoints
<1>9. AnswerPoints \cap RetryPoints = {}
  BY <1>2, <1>3, <1>5, <1>6 DEF AnswerPoints, RetryPoints
<1>10. Retries2 \notin {Ends1, Retries1}
  BY <1>2, <1>5
<1> QED
  BY <1>1, <1>7, <1>8, <1>9, <1>10
     DEF FirstPoints, AnswerPoints, RetryPoints, MainPoints

\* The main task takes one of its calls.
LEMMA MainGoesOn ==
  ASSUME Typed, Perform("main")
  PROVE  /\ todo["main"] \in MainPoints /\ up' = up
         /\ Tail(todo["main"]) \in MainPoints =>
              todo'["main"] = Tail(todo["main"]) /\ state'["main"] = state["main"]
         /\ \A s : Tail(todo["main"]) = <<Become(s)>> =>
              todo'["main"] = <<>> /\ state'["main"] = s
<1>1. "main" \in Task /\ todo["main"] # <<>> /\ Returned("main") /\ up' = up
  BY DEF Task, Perform, DoSend, DoStartTimer, DoStopTimer, Calling
<1> QED BY <1>1, ReturnedOK DEF Typed, PointsOf

\* Telling the buzzer to start, it comes to retry, and telling it to stop it gives up.
LEMMA MainOrders ==
  ASSUME Typed, MainPlaces, Perform("main")
  PROVE  /\ todo["main"] = Retries1 => ~ToldToSound /\ ToldToSound'
         /\ todo["main"] = RetryEnds2 => ToldToSound /\ ~ToldToSound'
<1> USE MainGoesOn, MainTails, MainPointsApart DEF MainPlaces, ToldToSound, Retrying
<1>1. CASE todo["main"] = Retries1
  <2>1. state["main"] = "WaitingDevicePresenceResponse" /\ todo["main"] # Retries2
        /\ Retries1 # RetryEnds2
    BY <1>1 DEF AnswerPoints, RetryPoints
  <2>2. todo'["main"] = Retries2
    BY <1>1 DEF MainPoints
  <2> QED BY <1>1, <2>1, <2>2
<1>2. CASE todo["main"] = RetryEnds2
  <2>1. Retrying /\ Retries1 # RetryEnds2
    BY <1>2 DEF AnswerPoints, RetryPoints
  <2>2. todo'["main"] = <<>> /\ state'["main"] = "WaitingHumanDetection"
    BY <1>2 DEF Home
  <2>3. <<>> # Retries2
    BY DEF AnswerPoints
  <2> QED BY <1>2, <2>1, <2>2, <2>3
<1> QED BY <1>1, <1>2

\* The main task keeps its places; what it has told the buzzer changes only as it
\* tells it something else.
LEMMA MainPlacesNext ==
  ASSUME Typed, MainPlaces, [AnyNext]_vars
  PROVE  /\ MainPlaces'
         /\ \/ (ToldToSound' <=> ToldToSound) \/ ~up'["main"]
            \/ Perform("main") /\ todo["main"] \in {Retries1, RetryEnds2}
<1> USE MainPointsApart DEF MainPlaces, ToldToSound, Retrying
<1>1. "main" \in Task /\ state["main"] \in MainState
  BY ControlTyped DEF Task, Typed, ControlOK
<1>2. CASE HandlerThrows("main")
  <2>1. todo'["main"] = <<>> /\ ~up'["main"]
    BY <1>1, <1>2 DEF HandlerThrows, Typed, ControlOK, DataOK
  <2> QED BY <2>1
<1>3. CASE Perform("main")
  <2>1. /\ todo["main"] \in MainPoints /\ up' = up
        /\ \A calls \in MainPoints : Tail(todo["main"]) = calls =>
             todo'["main"] = calls /\ state'["main"] = state["main"]
        /\ \A s : Tail(todo["main"]) = <<Become(s)>> =>
             todo'["main"] = <<>> /\ state'["main"] = s
    BY <1>3, MainGoesOn
  <2>2. {Begins2, Begins3} \subseteq FirstPoints /\ RetryEnds2 \in RetryPoints
        /\ Retries2 \in AnswerPoints
    BY DEF FirstPoints, RetryPoints, AnswerPoints
  <2>3. CASE todo["main"] \in {Begins1, Begins2}
    BY <2>1, <2>2, <2>3, MainTails DEF FirstPoints
  <2>4. CASE todo["main"] = Begins3
    BY <2>1, <2>4, MainTails DEF FirstPoints, Waiting
  <2>5. CASE todo["main"] = Ends1
    BY <2>1, <2>5, MainTails DEF AnswerPoints, Home
  <2>6. CASE todo["main"] = Retries1
    BY <1>3, <2>1, <2>2, <2>6, MainTails DEF AnswerPoints
  <2>7. CASE todo["main"] = Retries2
    BY <2>1, <2>7, MainTails DEF AnswerPoints, Cooling
  <2>8. CASE todo["main"] = RetryEnds1
    BY <2>1, <2>2, <2>8, MainTails DEF RetryPoints
  <2>9. CASE todo["main"] = RetryEnds2
    BY <1>3, <2>1, <2>9, MainTails DEF RetryPoints, Home
  <2>10. CASE todo["main"] \in {Refused1, Cooled1}
    BY <2>1, <2>10, MainTails DEF RetryPoints, Cooling, WaitingAgain
  <2> QED BY <2>1, <2>3, <2>4, <2>5, <2>6, <2>7, <2>8, <2>9, <2>10 DEF MainPoints
<1>4. CASE MainReceives
  <2>1. ASSUME NEW m, NEW calls \in MainPoints, Takes("main", m, calls)
        PROVE  /\ todo'["main"] = calls /\ state' = state /\ up' = up
               /\ todo["main"] = <<>> /\ up["main"]
    BY <1>1, <2>1, ContinueOK DEF Takes, Typed, Rest, PointsOf, Pop
  <2>2. CASE MainIgnores
    BY <2>2 DEF MainIgnores, Ignore
  <2>3. CASE /\ state["main"] = "WaitingHumanDetection"
             /\ Takes("main", "HumanDetected", Begins1)
    <3>1. /\ todo'["main"] = Begins1 /\ Begins1 \in FirstPoints /\ state' = state
          /\ up' = up /\ todo["main"] = <<>> /\ up["main"]
      BY <2>1, <2>3 DEF FirstPoints, MainPoints
    <3>2. ~Retrying /\ ~Retrying' /\ todo["main"] # Retries2 /\ todo'["main"] # Retries2
      BY <2>3, <3>1 DEF AnswerPoints
    <3> QED BY <2>3, <3>1, <3>2
  <2>4. CASE /\ state["main"] = "WaitingDevicePresenceResponse"
             /\ \E m : Takes("main", m, Ends1) \/ Takes("main", m, Retries1)
    BY <2>1, <2>4 DEF AnswerPoints
  <2>5. CASE /\ state["main"] # "WaitingHumanDetection"
             /\ state["main"] # "WaitingDevicePresenceResponse"
             /\ \E m : \E calls \in {RetryEnds1, Refused1, Cooled1} : Takes("main", m, calls)
    <3>1. Retrying
      BY <1>1, <2>5 DEF MainState
    <3> QED BY <2>1, <2>5, <3>1 DEF RetryPoints
  <2> QED BY <1>4, <2>2, <2>3, <2>4, <2>5, MainTakes
<1>5. CASE ~HandlerThrows("main") /\ ~Perform("main") /\ ~MainReceives
  <2>1. /\ state'["main"] = state["main"] /\ todo'["main"] = todo["main"]
        /\ up'["main"] = up["main"]
    BY <1>1, <1>5, ControlStays
  <2> QED BY <2>1
<1> QED BY <1>2, <1>3, <1>4, <1>5

LEMMA BuzzerTimerNext ==
  ASSUME Typed, BuzzerTimer, [AnyNext]_vars
  PROVE  BuzzerTimer'
<1> USE DEF Typed, DataOK, BuzzerTimer
<1>1. "buzzer" \in Task
  BY DEF Task
<1>2. CASE DoStartTimer("buzzer")
  <2>1. todo["buzzer"] \in BuzzerPoints /\ Head(todo["buzzer"]).call = "start_timer"
    BY <1>1, <1>2 DEF DoStartTimer, Calling, ControlOK, PointsInv, PointsOf
  <2>2. todo["buzzer"] = Buzzes3
    BY <2>1, OtherTails, Fields DEF BuzzerPoints
  <2> QED BY <1>1, <1>2, <2>2, OtherTails, Fields DEF DoStartTimer
<1>3. CASE TimerFires("buzzer") \/ DoStopTimer("buzzer")
  BY <1>1, <1>3 DEF TimerFires, DoStopTimer
<1>4. CASE HandlerThrows("buzzer")
  BY <1>1, <1>4 DEF HandlerThrows
<1> QED BY <1>1, <1>2, <1>3, <1>4, TimerStays

\* Nobody but the main task tells the buzzer anything: to start as it comes to retry,
\* and to stop as it gives up retrying.
LEMMA OnlyMainOrders ==
  ASSUME Typed, NEW q \in Task, DoSend(q), Head(todo[q]).to = "buzzer"
  PROVE  /\ q = "main" /\ Perform("main") /\ queue' = queue
         /\ \/ /\ todo["main"] = Retries1
               /\ net'["buzzer"] = Append(net["buzzer"], "StartBuzzing")
            \/ /\ todo["main"] = RetryEnds2
               /\ net'["buzzer"] = Append(net["buzzer"], "StopBuzzing")
<1>1. todo[q] \in PointsOf(q) /\ Head(todo[q]).call = "send"
  BY DEF DoSend, Calling, Typed, ControlOK, PointsInv
<1>2. q # "human"
  BY <1>1, OtherTails, Fields DEF PointsOf, HumanPoints
<1>3. q # "bluetooth"
  BY <1>1, OtherTails, Fields DEF PointsOf, BluetoothPoints
<1>4. q # "buzzer"
  BY <1>1, OtherTails, Fields DEF PointsOf, BuzzerPoints
<1>5. q = "main"
  BY <1>2, <1>3, <1>4 DEF Task
<1>6. todo["main"] \in {Retries1, RetryEnds2}
  BY <1>1, <1>5, MainTails, Fields
     DEF PointsOf, MainPoints, Request, HumanStops, HumanStarts
<1>7. /\ todo["main"] = Retries1 => Head(todo["main"]).msg = "StartBuzzing"
      /\ todo["main"] = RetryEnds2 => Head(todo["main"]).msg = "StopBuzzing"
  BY MainTails, Fields DEF BuzzerStarts, BuzzerStops
<1>8. net'["buzzer"] = Append(net["buzzer"], Head(todo["main"]).msg) /\ queue' = queue
  BY <1>5 DEF DoSend, Typed, DataOK, Task
<1> QED BY <1>5, <1>6, <1>7, <1>8 DEF Perform

\* A step that lets the main task's word to the buzzer be as it was keeps the orders in
\* turns, whatever it takes, delivers or puts between them.
LEMMA TurnsStay ==
  ASSUME Typed, BuzzerTimer, [AnyNext]_vars, NEW sound \in BOOLEAN,
         ~\E q \in Task : DoSend(q) /\ Head(todo[q]).to = "buzzer"
  PROVE  /\ TakeTurns(BuzzerGets) => TakeTurns(BuzzerGets')
         /\ LastOrder(BuzzerGets, sound) => LastOrder(BuzzerGets', sound)
<1> DEFINE q == queue["buzzer"]
           n == net["buzzer"]
           g == BuzzerGets'
<1>1. /\ "buzzer" \in Task /\ q \in Seq(MessageType) /\ n \in Seq(MessageType)
      /\ BuzzerGets = q \o n /\ g = queue'["buzzer"] \o net'["buzzer"]
  BY DEF Task, Typed, DataOK, BuzzerGets
<1>2. CASE \E m \in MessageType : Pop("buzzer", m) /\ UNCHANGED <<timer, net, up>>
  <2>1. q # <<>> /\ queue'["buzzer"] = Tail(q) /\ net'["buzzer"] = n
    BY <1>1, <1>2 DEF Pop, Typed, DataOK
  <2> HIDE DEF q, n, g
  <2>2. g = Tail(q \o n) /\ q \o n # <<>> /\ q \o n \in Seq(MessageType)
    BY <1>1, <2>1, Concatenations
  <2> QED BY <1>1, <2>2, TurnsOfTail DEF g
<1>3. CASE queue'["buzzer"] = queue["buzzer"] /\ net'["buzzer"] = net["buzzer"]
  <2>1. g = q \o n
    BY <1>1, <1>3
  <2> QED BY <1>1, <2>1
<1>4. CASE Deliver("buzzer")
  <2>1. n # <<>> /\ queue'["buzzer"] = Append(q, Head(n)) /\ net'["buzzer"] = Tail(n)
    BY <1>1, <1>4 DEF Deliver, Typed, DataOK
  <2> HIDE DEF q, n, g
  <2>2. g = q \o n
    BY <1>1, <2>1, Concatenations
  <2> QED BY <1>1, <2>2 DEF g
<1>5. CASE TimerFires("buzzer")
  <2>1. queue'["buzzer"] = Append(q, "BuzzTimeout") /\ net'["buzzer"] = n
    BY <1>1, <1>5 DEF TimerFires, BuzzerTimer, Typed, DataOK
  <2>2. "BuzzTimeout" \in MessageType \ {"StartBuzzing", "StopBuzzing"}
    BY DEF MessageType
  <2> HIDE DEF q, n, g
  <2>3. g = Append(q, "BuzzTimeout") \o n
    BY <1>1, <2>1
  <2> QED BY <1>1, <2>2, <2>3, TurnsOfInsert DEF g
<1> QED BY <1>1, <1>2, <1>3, <1>4, <1>5, ChannelSteps

LEMMA TurnsInvNext ==
  ASSUME Typed, TurnsInv, [AnyNext]_vars
  PROVE  TurnsInv'
<1> USE DEF TurnsInv
<1>1. MainPlaces' /\ BuzzerTimer'
  BY MainPlacesNext, BuzzerTimerNext
<1>2. /\ ToldToSound \in BOOLEAN /\ ToldToSound' \in BOOLEAN
      /\ "main" \in Task /\ (up'["main"] => up["main"])
  BY ControlStays DEF ToldToSound, Retrying, Task
<1>3. CASE \E q \in Task : DoSend(q) /\ Head(todo[q]).to = "buzzer"
  <2>1. /\ Perform("main") /\ queue' = queue /\ todo["main"] # <<>> /\ up' = up
        /\ \/ /\ todo["main"] = Retries1
              /\ net'["buzzer"] = Append(net["buzzer"], "StartBuzzing")
           \/ /\ todo["main"] = RetryEnds2
              /\ net'["buzzer"] = Append(net["buzzer"], "StopBuzzing")
    BY <1>3, OnlyMainOrders, MainPointsDiffer, PointsDiffer DEF DoSend, MainPoints
  <2>2. up["main"] /\ up'["main"]
    BY <2>1 DEF MainPlaces
  <2>3. /\ queue["buzzer"] \in Seq(MessageType) /\ net["buzzer"] \in Seq(MessageType)
        /\ {"StartBuzzing", "StopBuzzing"} \subseteq MessageType
    BY DEF Typed, DataOK, Task, MessageType
  <2>4. Retries1 # RetryEnds2
    BY MainPointsApart DEF AnswerPoints, RetryPoints
  <2>5. /\ ToldToSound = ~ToldToSound'
        /\ BuzzerGets' = Append(BuzzerGets, IF ToldToSound' THEN "StartBuzzing"
                                            ELSE "StopBuzzing")
        /\ BuzzerGets \in Seq(MessageType)
    <3>1. CASE todo["main"] = Retries1
      <4>1. ~ToldToSound /\ ToldToSound'
        BY <2>1, <3>1, MainOrders
      <4>2. net'["buzzer"] = Append(net["buzzer"], "StartBuzzing")
        BY <2>1, <2>4, <3>1
      <4>3. BuzzerGets' = queue["buzzer"] \o Append(net["buzzer"], "StartBuzzing")
        BY <2>1, <4>2 DEF BuzzerGets
      <4>4. BuzzerGets' = Append(BuzzerGets, "StartBuzzing") /\ BuzzerGets \in Seq(MessageType)
        BY <2>3, <4>3, Concatenations, Zenon DEF BuzzerGets
      <4> QED BY <1>2, <4>1, <4>4
    <3>2. CASE todo["main"] = RetryEnds2
      <4>1. ToldToSound /\ ~ToldToSound'
        BY <2>1, <3>2, MainOrders
      <4>2. net'["buzzer"] = Append(net["buzzer"], "StopBuzzing")
        BY <2>1, <2>4, <3>2
      <4>3. BuzzerGets' = queue["buzzer"] \o Append(net["buzzer"], "StopBuzzing")
        BY <2>1, <4>2 DEF BuzzerGets
      <4>4. BuzzerGets' = Append(BuzzerGets, "StopBuzzing") /\ BuzzerGets \in Seq(MessageType)
        BY <2>3, <4>3, Concatenations, Zenon DEF BuzzerGets
      <4> QED BY <1>2, <4>1, <4>4
    <3> QED BY <2>1, <3>1, <3>2
  <2>6. TakeTurns(BuzzerGets) /\ LastOrder(BuzzerGets, ~ToldToSound')
    BY <1>2, <2>2, <2>5
  <2>7. TakeTurns(BuzzerGets') /\ LastOrder(BuzzerGets', ToldToSound')
    BY <1>2, <2>5, <2>6, TurnsOfAppend
  <2> QED BY <1>1, <2>7
<1>4. CASE ~\E q \in Task : DoSend(q) /\ Head(todo[q]).to = "buzzer"
  <2>1. TakeTurns(BuzzerGets')
    BY <1>2, <1>4, TurnsStay
  <2>2. ASSUME up'["main"] PROVE LastOrder(BuzzerGets', ToldToSound')
    <3>1. LastOrder(BuzzerGets, ToldToSound) => LastOrder(BuzzerGets', ToldToSound)
      BY <1>2, <1>4, TurnsStay
    <3>2. ASSUME Perform("main"), todo["main"] \in {Retries1, RetryEnds2} PROVE FALSE
      <4>1. /\ Head(todo["main"]).call = "send" /\ Head(todo["main"]).to = "buzzer"
        BY <3>2, MainTails, Fields DEF BuzzerStarts, BuzzerStops
      <4>2. DoSend("main")
        BY <3>2, <4>1 DEF Perform, DoStartTimer, DoStopTimer, Calling
      <4> QED BY <1>2, <1>4, <4>1, <4>2
    <3>3. ToldToSound' = ToldToSound
      BY <1>2, <2>2, <3>2, MainPlacesNext
    <3> QED BY <1>2, <2>2, <3>1, <3>3
  <2> QED BY <1>1, <2>1, <2>2
<1> QED BY <1>3, <1>4

LEMMA InitTurnsInv == Init => TurnsInv
<1> SUFFICES ASSUME Init PROVE TurnsInv
  OBVIOUS
<1>1. /\ todo["main"] = <<>> /\ state["main"] = "WaitingHumanDetection"
      /\ timer["buzzer"] = NoMessage /\ queue["buzzer"] = <<>> /\ net["buzzer"] = <<>>
  BY DEF Init, InitTasks, Task
<1>2. BuzzerGets = <<>>
  BY <1>1 DEF BuzzerGets
<1>3. Orders(BuzzerGets) = {}
  BY <1>2 DEF Orders
<1> QED
  BY <1>1, <1>3, MainPointsApart
     DEF TurnsInv, MainPlaces, BuzzerTimer, TakeTurns, LastOrder

LEMMA TurnsInvMeaning == TurnsInv => BuzzOrdersAlternate
<1>1. Retries2 # <<>>
  BY PointsDiffer DEF MainPoints
<1>2. todo["main"] = <<>> => (ToldToSound <=> Retrying)
  BY <1>1 DEF ToldToSound
<1> QED
  BY <1>2 DEF TurnsInv, BuzzOrdersAlternate, OrdersTakeTurns, BuzzOrders, TakeTurns,
     LastOrder, Orders, Idle

\* The main task tells the buzzer to start and to stop in turns, whatever calls fail, and
\* while it lives the last it said is to sound just while it retries
\* (main_handler.cpp:70-101).
THEOREM OrdersAlternate == Spec => []BuzzOrdersAlternate
<1>1. Typed /\ TurnsInv /\ [AnyNext]_vars => (Typed /\ TurnsInv)'
  BY NextTyped, TurnsInvNext
<1> QED BY <1>1, InitTyped, InitTurnsInv, TurnsInvMeaning, AnyOfBoth, PTL DEF Spec

\* The same over any number of rounds of scans, answers, cooldowns and timeouts
\* (main_dispatcher.cpp:45-80).
THEOREM OrdersAlternateInCycle == CycleSpec => []BuzzOrdersAlternate
<1>1. Typed /\ TurnsInv /\ [AnyNext]_vars => (Typed /\ TurnsInv)'
  BY NextTyped, TurnsInvNext
<1> QED BY <1>1, InitTyped, InitTurnsInv, TurnsInvMeaning, AnyOfBoth, PTL DEF CycleSpec

-----------------------------------------------------------------------------
(* The buzzer is silent unless the main task retries *)

OrdersComing == Coming("buzzer", "StartBuzzing") \/ Coming("buzzer", "StopBuzzing")

\* A buzzer that has no order left to take, and was last told to stop, is silent or about
\* to switch itself off.
Silenced == \/ ~buzzing /\ todo["buzzer"] # Buzzes1
            \/ todo["buzzer"] = Silences1

SilentInv == up["main"] /\ up["buzzer"] /\ ~ToldToSound /\ ~OrdersComing => Silenced

\* A start that is the last order to be taken is the main task's last word.
LEMMA LastWordTaken ==
  ASSUME Typed, TurnsInv, up["main"], Pop("buzzer", "StartBuzzing"), net' = net,
         ~OrdersComing'
  PROVE  ToldToSound
<1> DEFINE q == queue["buzzer"]
           n == net["buzzer"]
           s == q \o n
<1>1. /\ "buzzer" \in Task /\ q \in Seq(MessageType) /\ n \in Seq(MessageType)
      /\ q # <<>> /\ Head(q) = "StartBuzzing" /\ queue'["buzzer"] = Tail(q)
  BY DEF Task, Typed, DataOK, Pop
<1>2. LastOrder(s, ToldToSound)
  BY DEF TurnsInv, BuzzerGets
<1>3. \A m \in ToSet(Tail(q)) \cup ToSet(n) : m \notin {"StartBuzzing", "StopBuzzing"}
  BY <1>1 DEF OrdersComing, Coming
<1>4. /\ s \in Seq(MessageType) /\ s # <<>> /\ Tail(s) = Tail(q) \o n
  BY <1>1, Concatenations, Zenon
<1>5. s[1] = "StartBuzzing"
  <2>1. q[1] = "StartBuzzing" /\ Len(q) \in Nat /\ Len(q) >= 1
    BY <1>1, Popped
  <2>2. \A a, b \in Seq(MessageType) : \A i \in 1 .. Len(a) : (a \o b)[i] = a[i]
    OBVIOUS
  <2> HIDE DEF q, n
  <2> QED BY <1>1, <2>1, <2>2
<1>6. \A i \in DOMAIN Tail(s) : Tail(s)[i] \in ToSet(Tail(q)) \cup ToSet(n)
  <2>1. Tail(q) \in Seq(MessageType)
    BY <1>1
  <2>2. \A a, b \in Seq(MessageType) : \A i \in DOMAIN (a \o b) :
            \/ i \in DOMAIN a /\ (a \o b)[i] = a[i]
            \/ i - Len(a) \in DOMAIN b /\ (a \o b)[i] = b[i - Len(a)]
    OBVIOUS
  <2>3. \A a \in Seq(MessageType) : \A i \in DOMAIN a : a[i] \in ToSet(a)
    BY DEF ToSet
  <2>4. \A a, b \in Seq(MessageType) : \A i \in DOMAIN (a \o b) :
            (a \o b)[i] \in ToSet(a) \cup ToSet(b)
    BY <2>2, <2>3
  <2> HIDE DEF q, n, s
  <2> QED BY <1>1, <1>4, <2>1, <2>4
<1> HIDE DEF q, n, s
<1>7. /\ Len(s) \in Nat /\ Len(s) >= 1 /\ DOMAIN s = 1 .. Len(s)
      /\ DOMAIN Tail(s) = 1 .. Len(s) - 1
      /\ \A i \in DOMAIN Tail(s) : Tail(s)[i] = s[i + 1]
  BY <1>4, Popped
<1>8. ASSUME NEW i \in Orders(s) PROVE i <= 1
  <2> SUFFICES ASSUME i > 1 PROVE FALSE
    BY <1>7 DEF Orders
  <2>1. i - 1 \in DOMAIN Tail(s) /\ Tail(s)[i - 1] = s[i]
    BY <1>7 DEF Orders
  <2> QED BY <1>3, <1>6, <2>1 DEF Orders
<1>9. 1 \in Orders(s)
  BY <1>5, <1>7 DEF Orders
<1> QED BY <1>2, <1>5, <1>8, <1>9 DEF LastOrder

\* The main task's word to the buzzer changes only with an order that is then coming.
LEMMA WordIsComing ==
  ASSUME Typed, TurnsInv, [AnyNext]_vars, up'["main"], ~OrdersComing'
  PROVE  ToldToSound' <=> ToldToSound
<1> SUFFICES ASSUME Perform("main"), todo["main"] \in {Retries1, RetryEnds2} PROVE FALSE
  BY MainPlacesNext DEF TurnsInv
<1>1. /\ Head(todo["main"]).call = "send" /\ Head(todo["main"]).to = "buzzer"
  BY MainTails, Fields DEF BuzzerStarts, BuzzerStops
<1>2. "main" \in Task /\ "buzzer" \in Task /\ net["buzzer"] \in Seq(MessageType)
      /\ {"StartBuzzing", "StopBuzzing"} \subseteq MessageType
  BY DEF Task, Typed, DataOK, MessageType
<1>3. DoSend("main")
  BY <1>1 DEF Perform, DoStartTimer, DoStopTimer, Calling
<1>4. \/ net'["buzzer"] = Append(net["buzzer"], "StartBuzzing")
      \/ net'["buzzer"] = Append(net["buzzer"], "StopBuzzing")
  BY <1>1, <1>2, <1>3, OnlyMainOrders
<1>5. "StartBuzzing" \in ToSet(net'["buzzer"]) \/ "StopBuzzing" \in ToSet(net'["buzzer"])
  <2>1. \A m \in MessageType : m \in ToSet(Append(net["buzzer"], m))
    BY <1>2, Appended
  <2> QED BY <1>2, <1>4, <2>1
<1> QED BY <1>5 DEF OrdersComing, Coming

\* The calls left to a buzzer, by the call that is next.
LEMMA BuzzerCalls ==
  ASSUME Typed, todo["buzzer"] # <<>>
  PROVE  /\ todo["buzzer"] \in BuzzerPoints
         /\ Calling("buzzer", "on") <=> todo["buzzer"] = Buzzes1
         /\ Calling("buzzer", "off") <=> todo["buzzer"] = Silences1
<1>1. todo["buzzer"] \in BuzzerPoints
  BY DEF Typed, ControlOK, PointsInv, PointsOf, Task
<1>2. /\ Calling("buzzer", "on") <=> todo["buzzer"] = Buzzes1
      /\ Calling("buzzer", "off") <=> todo["buzzer"] = Silences1
  BY <1>1, OtherTails, Fields DEF BuzzerPoints, Calling
<1> QED BY <1>1, <1>2

LEMMA SilentInvNext ==
  ASSUME Typed, TurnsInv, SilentInv, [AnyNext]_vars
  PROVE  SilentInv'
<1> SUFFICES ASSUME up'["main"], up'["buzzer"], ~ToldToSound', ~OrdersComing'
             PROVE  Silenced'
  BY DEF SilentInv
<1>1. "buzzer" \in Task /\ "main" \in Task
  BY DEF Task
<1>2. up["main"] /\ up["buzzer"] /\ ~HandlerThrows("buzzer")
  BY <1>1, ControlStays DEF HandlerThrows, Typed, DataOK
<1>3. ~ToldToSound
  BY WordIsComing
<1>4. ASSUME NEW m, NEW calls \in {Buzzes1, Silences1}, Takes("buzzer", m, calls)
      PROVE  todo'["buzzer"] = calls
  BY <1>1, <1>4, ContinueOK, BuzzerPointsDiffer DEF Takes, Typed, Rest
<1>5. CASE BuzzerReceives /\ ~BuzzerIgnores
  <2>1. ~Takes("buzzer", "StartBuzzing", Buzzes1)
    BY <1>2, <1>3, LastWordTaken DEF Takes
  <2> QED BY <1>4, <1>5, <2>1, BuzzerTakes DEF Silenced
<1>6. CASE ~BuzzerReceives \/ BuzzerIgnores
  <2>1. ~Pop("buzzer", "StartBuzzing") /\ ~Pop("buzzer", "StopBuzzing")
    <3>1. CASE BuzzerIgnores
      <4>1. state["buzzer"] = "None"
        BY <1>1, ControlTyped DEF Typed, ControlOK
      <4> QED BY <3>1, <4>1 DEF BuzzerIgnores, Ignore, Pop
    <3>2. CASE ~BuzzerReceives
      BY <1>1, <3>2, PopsOnly
    <3> QED BY <1>6, <3>1, <3>2
  <2>2. ~OrdersComing
    BY <1>1, <2>1, QueuedStays DEF OrdersComing
  <2>3. Silenced
    BY <1>2, <1>3, <2>2 DEF SilentInv
  <2>4. CASE Perform("buzzer") \/ DriverSwitches \/ DurationLoaded
    <3>1. todo["buzzer"] # <<>> /\ Returned("buzzer")
      BY <2>4 DEF Perform, DoSend, DoStartTimer, DoStopTimer, DriverSwitches,
           DurationLoaded, Calling
    <3>2. \A calls \in BuzzerPoints \cup {<<>>} :
              Tail(todo["buzzer"]) = calls => todo'["buzzer"] = calls
      BY <1>1, <3>1, ReturnedOK, BuzzerPointsDiffer DEF BuzzerPoints, Typed
    <3>3. CASE DriverSwitches
      <4>1. Calling("buzzer", "off") /\ buzzing' = FALSE
        BY <2>3, <3>1, <3>3, BuzzerCalls, BuzzerPointsDiffer, OtherTails, Fields
           DEF DriverSwitches, Silenced, Calling
      <4>2. todo'["buzzer"] = Silences2
        BY <3>1, <3>2, <4>1, BuzzerCalls, OtherTails DEF BuzzerPoints
      <4> QED BY <4>1, <4>2, BuzzerPointsDiffer DEF Silenced
    <3>4. CASE ~DriverSwitches
      <4>1. ~Calling("buzzer", "on") /\ ~Calling("buzzer", "off")
        BY <2>4, <3>4 DEF Perform, DoSend, DoStartTimer, DoStopTimer, DurationLoaded, Calling
      <4>2. todo["buzzer"] \in {Buzzes2, Buzzes3, Silences2} /\ ~buzzing
        BY <2>3, <3>1, <4>1, BuzzerCalls DEF BuzzerPoints, Silenced
      <4>3. todo'["buzzer"] \in {Buzzes3, <<>>}
        BY <3>2, <4>2, OtherTails DEF BuzzerPoints
      <4>4. buzzing' = buzzing
        BY <1>2, <3>4, BuzzingStays
      <4>5. Buzzes1 # Buzzes3
        BY OtherTails, Fields
      <4> QED BY <4>2, <4>3, <4>4, <4>5, BuzzerPointsDiffer DEF Silenced
    <3> QED BY <3>3, <3>4
  <2>5. CASE ~Perform("buzzer") /\ ~DriverSwitches /\ ~DurationLoaded
    <3>1. todo'["buzzer"] = todo["buzzer"]
      BY <1>1, <1>2, <1>6, <2>5, ControlStays DEF BuzzerIgnores, Ignore
    <3>2. buzzing' = buzzing
      BY <1>2, <2>5, BuzzingStays
    <3> QED BY <2>3, <3>1, <3>2 DEF Silenced
  <2> QED BY <2>4, <2>5
<1> QED BY <1>5, <1>6

LEMMA InitSilentInv == Init => SilentInv
<1>1. Init => todo["buzzer"] = <<>> /\ buzzing = FALSE
  BY DEF Init, InitTasks, Task
<1> QED BY <1>1, BuzzerPointsDiffer DEF SilentInv, Silenced

LEMMA SilentInvMeaning == SilentInv => SilentUnlessRetrying
<1>1. Retries2 # <<>>
  BY PointsDiffer DEF MainPoints
<1> QED
  BY <1>1, BuzzerPointsDiffer
     DEF SilentInv, Silenced, SilentUnlessRetrying, OrdersComing, ToldToSound, Idle

\* When the main task does not retry and its orders have arrived the buzzer is silent,
\* whatever calls fail and whatever stale timeouts and late answers there are
\* (main_handler.cpp:70-101, buzzer_handler.cpp:24-62).
THEOREM SilentWhenNotRetrying == Spec => []SilentUnlessRetrying
<1>1. Typed /\ TurnsInv /\ SilentInv /\ [AnyNext]_vars
        => (Typed /\ TurnsInv /\ SilentInv)'
  BY NextTyped, TurnsInvNext, SilentInvNext
<1> QED
  BY <1>1, InitTyped, InitTurnsInv, InitSilentInv, SilentInvMeaning, AnyOfBoth, PTL
     DEF Spec

\* The same over any number of rounds, in which the main task gives up retrying and
\* retries again (main_dispatcher.cpp:45-80, buzzer_dispatcher.cpp).
THEOREM SilentWhenNotRetryingInCycle == CycleSpec => []SilentUnlessRetrying
<1>1. Typed /\ TurnsInv /\ SilentInv /\ [AnyNext]_vars
        => (Typed /\ TurnsInv /\ SilentInv)'
  BY NextTyped, TurnsInvNext, SilentInvNext
<1> QED
  BY <1>1, InitTyped, InitTurnsInv, InitSilentInv, SilentInvMeaning, AnyOfBoth, PTL
     DEF CycleSpec

=============================================================================
