---------------------------- MODULE BuzzerDriver ----------------------------
(***************************************************************************)
(* infra/buzzer_driver/buzzer_driver.cpp on infra/gpio_operation/          *)
(* gpio_setter.cpp: on() and off(), called one after the other by the      *)
(* buzzer task's receiver thread, step by step through the configuration   *)
(* file, the PWM file and the GPIO line, any of which may fail.            *)
(*                                                                         *)
(* External: what the files and the line do.  Somebody may edit the        *)
(* configuration between two calls; the PWM file may drop what is written  *)
(* to it, or hold another number; a write to the line may have no effect.  *)
(***************************************************************************)
EXTENDS Integers, FileLoader

CONSTANTS
    Configs,    \* the contents buzzer.conf may have
    StoI,       \* std::stoi on the values in them; Unparsable if it throws
    Unparsable,
    Failures    \* what may go wrong: "open", "pwm_path", "pwm_open", "pwm_write",
                \* "set", "get", "stuck" (the line keeps its level)

ASSUME FailuresAssumption ==
    Failures \subseteq {"open", "pwm_path", "pwm_open", "pwm_write", "set", "get", "stuck"}

\* std::stoi gives an int, or throws.
ASSUME ConfigsAssumption ==
    \A c \in Configs :
        /\ c \in Seq([key : STRING, value : STRING])
        /\ \A i \in DOMAIN c : c[i].key = "frequency_hz" =>
               StoI[c[i].value] = Unparsable \/ StoI[c[i].value] \in Int

Empty == 0      \* an empty PWM file reads as 0: read_freq's initial value

VARIABLES
    conf,       \* buzzer.conf
    pwm,        \* the number in the PWM file
    line,       \* the level the buzzer's GPIO line is driven to
    pc,         \* where the call is; "rest" between calls
    call,       \* "on", "off" or "none"
    outcome,    \* how the last call ended
    frequency   \* on()'s local: what it read and passed to buzz_start

files == <<conf, pwm>>
vars == <<files, line, pc, call, outcome, frequency>>

TypeOK ==
    /\ conf \in Configs
    /\ pwm \in Int
    /\ line \in {0, 1}
    /\ pc \in {"rest", "load", "path", "truncate", "write", "read_back", "raise",
               "lower", "verify"}
    /\ call \in {"none", "on", "off"}
    /\ outcome \in {"none", "returned", "threw"}
    /\ frequency \in Nat

\* GPIOSetter's constructor has requested the line as an output, low.
Init ==
    /\ conf \in Configs
    /\ pwm = Empty
    /\ line = 0
    /\ pc = "rest"
    /\ call = "none"
    /\ outcome = "none"
    /\ frequency = Empty

Goes(here, there) == pc = here /\ pc' = there /\ UNCHANGED <<call, outcome>>

Ends(here, result) == pc = here /\ pc' = "rest" /\ call' = "none" /\ outcome' = result

Throws(here) == Ends(here, "threw") /\ UNCHANGED <<files, line, frequency>>

EditConfig ==
    /\ pc = "rest"
    /\ conf' \in Configs
    /\ UNCHANGED <<pwm, line, pc, call, outcome, frequency>>

-----------------------------------------------------------------------------
(* on() and GPIOSetter::buzz_start *)

OnCall ==
    /\ pc = "rest"
    /\ pc' = "load"
    /\ call' = "on"
    /\ UNCHANGED <<files, line, outcome, frequency>>

\* load_string and std::stoi
Loaded == LET value == load_value(conf, "frequency_hz")
          IN IF value = Thrown THEN Unparsable ELSE StoI[value]

Usable == IF Loaded = Unparsable THEN FALSE ELSE Loaded > 0

\* A value that is no number, or not a positive one, throws.
LoadFrequency ==
    /\ Usable
    /\ frequency' = Loaded
    /\ Goes("load", "path")
    /\ UNCHANGED <<files, line>>

LoadFails ==
    /\ ~Usable \/ "open" \in Failures
    /\ Throws("load")

LoadPath == Goes("path", "truncate") /\ UNCHANGED <<files, line, frequency>>
LoadPathFails == "pwm_path" \in Failures /\ Throws("path")

\* Opening the PWM file for writing empties it.
OpenPwm ==
    /\ Goes("truncate", "write")
    /\ pwm' = Empty
    /\ UNCHANGED <<conf, line, frequency>>

OpenPwmFails == "pwm_open" \in Failures /\ pc \in {"truncate", "read_back"} /\ Throws(pc)

\* Errors of operator<< are not looked at.
WritePwm ==
    /\ Goes("write", "read_back")
    /\ \/ pwm' = frequency
       \/ "pwm_write" \in Failures /\ pwm' \in {Empty, 1}
    /\ UNCHANGED <<conf, line, frequency>>

\* Mutant: the frequency is not read back.
ReadBackNothing == Goes("read_back", "raise") /\ UNCHANGED <<files, line, frequency>>

ReadBack ==
    /\ pwm = frequency
    /\ Goes("read_back", "raise")
    /\ UNCHANGED <<files, line, frequency>>

ReadBackDiffers == pwm # frequency /\ Throws("read_back")

\* The level is not read back.
Raise ==
    /\ Ends("raise", "returned")
    /\ \/ line' = 1
       \/ "stuck" \in Failures /\ UNCHANGED line
    /\ UNCHANGED <<files, frequency>>

-----------------------------------------------------------------------------
(* off() and GPIOSetter::buzz_stop *)

OffCall ==
    /\ pc = "rest"
    /\ pc' = "lower"
    /\ call' = "off"
    /\ UNCHANGED <<files, line, outcome, frequency>>

Lower ==
    /\ Goes("lower", "verify")
    /\ \/ line' = 0
       \/ "stuck" \in Failures /\ UNCHANGED line
    /\ UNCHANGED <<files, frequency>>

\* set_value() fails: the line keeps its level.
SetFails == "set" \in Failures /\ pc \in {"raise", "lower"} /\ Throws(pc)

\* Mutant: the level read back is not looked at.
VerifyNothing == Ends("verify", "returned") /\ UNCHANGED <<files, line, frequency>>

Verify ==
    /\ line = 0
    /\ Ends("verify", "returned")
    /\ UNCHANGED <<files, line, frequency>>

VerifyFails == (line # 0 \/ "get" \in Failures) /\ Throws("verify")

-----------------------------------------------------------------------------
OnStep == \/ LoadFrequency \/ LoadFails \/ LoadPath \/ LoadPathFails
          \/ OpenPwm \/ OpenPwmFails \/ WritePwm \/ ReadBack \/ ReadBackDiffers
          \/ Raise

OffStep == Lower \/ Verify \/ VerifyFails

Next == EditConfig \/ OnCall \/ OffCall \/ OnStep \/ OffStep \/ SetFails

Spec == Init /\ [][Next]_vars

-----------------------------------------------------------------------------
(* Properties *)

\* The line rises only on a positive frequency that the PWM file really holds, the
\* first one in the configuration as on() found it: an edit, an empty PWM file or a
\* write that was dropped never makes the buzzer sound (gpio_setter.cpp:83-118).
RisesOnVerifiedFrequency ==
    [][line = 0 /\ line' = 1 =>
         /\ pwm = frequency /\ frequency > 0
         /\ \E i \in DOMAIN conf :
              /\ conf[i].key = "frequency_hz" /\ StoI[conf[i].value] = frequency
              /\ \A j \in 1 .. i - 1 : conf[j].key # "frequency_hz"]_vars

\* Whatever fails on the way, the driver keeps what BuzzerTask relies on: an on()
\* that throws has not touched the buzzer, an off() that returns has silenced it, and
\* no call makes it sound but on().  An on() that returns has made it sound only if the
\* line is not stuck, because it is not read back (buzzer_driver.cpp:20-51,
\* gpio_setter.cpp:75-154).
B == INSTANCE Buzzer WITH buzzing <- line = 1, MayDisobey <- "stuck" \in Failures

ImplementsBuzzer == B!Spec
=============================================================================
