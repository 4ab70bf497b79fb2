------------------------- MODULE BuzzerDriverProofs -------------------------
(***************************************************************************)
(* Proofs about BuzzerDriver for any configurations and any failures: the  *)
(* buzzer its task relies on, and the frequency it sounds at.              *)
(***************************************************************************)
EXTENDS BuzzerDriver, WellFoundedInduction, TLAPS

USE FailuresAssumption DEF Empty

\* Where a call is tells which call it is.
CallInv ==
    /\ pc = "rest" => call = "none"
    /\ pc \in {"load", "path", "truncate", "write", "read_back", "raise"} => call = "on"
    /\ pc \in {"lower", "verify"} => call = "off"

\* on() has read its frequency from the configuration that is still there, and when
\* it comes to the line the PWM file holds it.
FrequencyInv ==
    /\ pc \in {"path", "truncate", "write", "read_back", "raise"} =>
           Usable /\ frequency = Loaded
    /\ pc = "raise" => pwm = frequency

Inductive == TypeOK /\ CallInv /\ FrequencyInv

-----------------------------------------------------------------------------
(* FileLoader *)

\* A set of natural numbers that is not empty has a smallest one.
LEMMA SmallestExists ==
  ASSUME NEW S \in SUBSET Nat, S # {}
  PROVE  \E i \in S : \A j \in S : i <= j
<1> DEFINE Less == {ss \in Nat \X Nat : ss[1] < ss[2]}
<1>1. IsWellFoundedOn(Less, Nat)
  BY NatLessThanWellFounded DEF OpToRel
<1>2. \A i, j \in Nat : <<j, i>> \in Less <=> j < i
  OBVIOUS
<1> HIDE DEF Less
<1>3. PICK i \in S : \A j \in S : <<j, i>> \notin Less
  BY <1>1, WFMin
<1>4. ASSUME NEW j \in S PROVE i <= j
  <2>1. ~ (j < i)
    BY <1>2, <1>3
  <2> QED BY <2>1
<1> QED BY <1>4

FirstOf(hits) == CHOOSE i \in hits : \A j \in hits : i <= j

\* The line load_value() stops at is the first one with the key.
LEMMA FirstHit ==
  ASSUME NEW Line, NEW file \in Seq(Line), NEW key, Hits(file, key) # {}
  PROVE  LET first == FirstOf(Hits(file, key))
         IN  /\ first \in DOMAIN file /\ file[first].key = key
             /\ \A j \in 1 .. first - 1 : file[j].key # key
<1> DEFINE first == FirstOf(Hits(file, key))
<1>1. Len(file) \in Nat /\ DOMAIN file = 1 .. Len(file)
  OBVIOUS
<1>2. Hits(file, key) \in SUBSET Nat
  BY <1>1 DEF Hits
<1>3. \E i \in Hits(file, key) : \A j \in Hits(file, key) : i <= j
  BY <1>2, SmallestExists
<1>4. first \in Hits(file, key) /\ \A j \in Hits(file, key) : first <= j
  BY <1>3 DEF FirstOf
<1> HIDE DEF first
<1>5. first \in DOMAIN file /\ file[first].key = key
  BY <1>4 DEF Hits
<1>6. ASSUME NEW j \in 1 .. first - 1 PROVE file[j].key # key
  <2>1. j \in DOMAIN file /\ ~ (first <= j)
    BY <1>1, <1>5
  <2> QED BY <2>1, <1>4 DEF Hits
<1> QED BY <1>5, <1>6 DEF first

\* A usable frequency is the first one in the file, and a positive number.
LEMMA UsableIsFirst ==
  ASSUME conf \in Configs, Usable
  PROVE  /\ Loaded \in Nat /\ Loaded > 0
         /\ \E i \in DOMAIN conf :
              /\ conf[i].key = "frequency_hz" /\ StoI[conf[i].value] = Loaded
              /\ \A j \in 1 .. i - 1 : conf[j].key # "frequency_hz"
<1>1. Loaded # Unparsable /\ Loaded > 0
  BY DEF Usable
<1>2. Hits(conf, "frequency_hz") # {} /\ load_value(conf, "frequency_hz") # Thrown
  BY <1>1 DEF Loaded, load_value
<1>3. Loaded = StoI[load_value(conf, "frequency_hz")]
  BY <1>2 DEF Loaded
<1>4. conf \in Seq([key : STRING, value : STRING])
  BY ConfigsAssumption
<1> DEFINE i == FirstOf(Hits(conf, "frequency_hz"))
<1>5. /\ i \in DOMAIN conf /\ conf[i].key = "frequency_hz"
      /\ \A j \in 1 .. i - 1 : conf[j].key # "frequency_hz"
  BY <1>2, <1>4, FirstHit
<1>6. load_value(conf, "frequency_hz") = conf[i].value
  BY <1>2 DEF load_value, FirstOf
<1> HIDE DEF i
<1>7. Loaded = StoI[conf[i].value]
  BY <1>3, <1>6
<1>8. Loaded \in Int
  BY <1>1, <1>5, <1>7, ConfigsAssumption
<1> QED BY <1>1, <1>5, <1>7, <1>8

-----------------------------------------------------------------------------
(* The inductive invariant *)

LEMMA InitInductive == Init => Inductive
BY DEF Init, Inductive, TypeOK, CallInv, FrequencyInv

\* No step of a call, and no edit of the configuration, disturbs it.
LEMMA NextInductive == Inductive /\ [Next]_vars => Inductive'
<1> SUFFICES ASSUME TypeOK, CallInv, FrequencyInv, [Next]_vars
             PROVE  TypeOK' /\ CallInv' /\ FrequencyInv'
  BY DEF Inductive
<1> USE DEF TypeOK, CallInv, Goes, Ends, Throws, files
<1>0. ASSUME UNCHANGED conf PROVE Usable' = Usable /\ Loaded' = Loaded
  BY <1>0 DEF Usable, Loaded
<1>1. CASE EditConfig \/ OnCall \/ OffCall
  BY <1>1 DEF EditConfig, OnCall, OffCall, FrequencyInv
<1>2. CASE LoadFrequency
  <2>1. Loaded \in Nat
    BY <1>2, UsableIsFirst DEF LoadFrequency
  <2> QED BY <1>0, <1>2, <2>1 DEF LoadFrequency, FrequencyInv
<1>3. CASE LoadFails \/ LoadPathFails \/ OpenPwmFails \/ ReadBackDiffers \/ SetFails
  BY <1>3 DEF LoadFails, LoadPathFails, OpenPwmFails, ReadBackDiffers, SetFails, FrequencyInv
<1>4. CASE LoadPath \/ OpenPwm \/ WritePwm \/ ReadBack
  <2>1. TypeOK' /\ CallInv'
    BY <1>4 DEF LoadPath, OpenPwm, WritePwm, ReadBack
  <2>2. UNCHANGED conf /\ UNCHANGED frequency /\ pc' = "raise" => pwm' = frequency'
    BY <1>4 DEF LoadPath, OpenPwm, WritePwm, ReadBack
  <2> QED BY <1>0, <1>4, <2>1, <2>2 DEF LoadPath, OpenPwm, WritePwm, ReadBack, FrequencyInv
<1>5. CASE Raise \/ Lower \/ Verify \/ VerifyFails
  BY <1>5 DEF Raise, Lower, Verify, VerifyFails, FrequencyInv
<1>6. CASE UNCHANGED vars
  BY <1>0, <1>6 DEF vars, FrequencyInv
<1> QED BY <1>1, <1>2, <1>3, <1>4, <1>5, <1>6 DEF Next, OnStep, OffStep

\* Type correctness: on() never gets past the configuration without a number.
THEOREM TypeCorrect == Spec => []TypeOK
BY InitInductive, NextInductive, PTL DEF Spec, Inductive

-----------------------------------------------------------------------------
(* The properties *)

\* The buzzer sounds only on a positive frequency that the PWM file really holds and
\* that is the first one in the configuration (gpio_setter.cpp:83-118).
THEOREM SoundsAsConfigured == Spec => RisesOnVerifiedFrequency
<1>1. ASSUME Inductive, [Next]_vars, line = 0, line' = 1
      PROVE  /\ pwm = frequency /\ frequency > 0
             /\ \E i \in DOMAIN conf :
                  /\ conf[i].key = "frequency_hz" /\ StoI[conf[i].value] = frequency
                  /\ \A j \in 1 .. i - 1 : conf[j].key # "frequency_hz"
  <2>1. Raise
    BY <1>1 DEF Next, OnStep, OffStep, vars, files, EditConfig, OnCall, OffCall,
         LoadFrequency, LoadFails, LoadPath, LoadPathFails, OpenPwm, OpenPwmFails,
         WritePwm, ReadBack, ReadBackDiffers, Lower, Verify, VerifyFails, SetFails, Throws
  <2>2. Usable /\ frequency = Loaded /\ pwm = frequency /\ conf \in Configs
    BY <1>1, <2>1 DEF Inductive, TypeOK, FrequencyInv, Raise, Ends
  <2> QED BY <2>2, UsableIsFirst
<1>2. Inductive /\ [Next]_vars =>
        [line = 0 /\ line' = 1 =>
           /\ pwm = frequency /\ frequency > 0
           /\ \E i \in DOMAIN conf :
                /\ conf[i].key = "frequency_hz" /\ StoI[conf[i].value] = frequency
                /\ \A j \in 1 .. i - 1 : conf[j].key # "frequency_hz"]_vars
  BY <1>1
<1> QED BY <1>2, InitInductive, NextInductive, PTL DEF Spec, RisesOnVerifiedFrequency

\* Every step of the driver is a step of the buzzer, or none.
LEMMA StepRefines == Inductive /\ [Next]_vars => [B!Next]_(B!vars)
<1> SUFFICES ASSUME CallInv, [Next]_vars PROVE B!Next \/ UNCHANGED B!vars
  BY DEF Inductive
<1> USE DEF CallInv, Goes, Ends, Throws, B!vars, B!Next, B!End
<1>1. CASE EditConfig
  BY <1>1 DEF EditConfig
<1>2. CASE OnCall \/ OffCall
  BY <1>2 DEF OnCall, OffCall, B!Call
<1>3. CASE LoadFails \/ LoadPathFails \/ OpenPwmFails \/ ReadBackDiffers
            \/ SetFails \/ VerifyFails
  BY <1>3 DEF LoadFails, LoadPathFails, OpenPwmFails, ReadBackDiffers, SetFails,
       VerifyFails, B!Throws
<1>4. CASE LoadFrequency \/ LoadPath \/ OpenPwm \/ WritePwm \/ ReadBack
  BY <1>4 DEF LoadFrequency, LoadPath, OpenPwm, WritePwm, ReadBack
<1>5. CASE Raise
  BY <1>5 DEF Raise, B!SwitchOn
<1>6. CASE Lower
  BY <1>6 DEF Lower, B!SwitchOff
<1>7. CASE Verify
  BY <1>7 DEF Verify, B!OffReturns
<1>8. CASE UNCHANGED vars
  BY <1>8 DEF vars
<1> QED BY <1>1, <1>2, <1>3, <1>4, <1>5, <1>6, <1>7, <1>8 DEF Next, OnStep, OffStep

\* Whatever fails, the driver is the buzzer that BuzzerTask relies on, a buzzer that may
\* disobey if the line may be stuck (buzzer_driver.cpp:20-51, gpio_setter.cpp:75-154).
THEOREM DriverImplementsBuzzer == Spec => ImplementsBuzzer
<1>1. Init => B!Init
  BY DEF Init, B!Init
<1> QED
  BY <1>1, InitInductive, NextInductive, StepRefines, PTL
     DEF Spec, ImplementsBuzzer, B!Spec
=============================================================================
