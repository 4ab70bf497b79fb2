----------------------------- MODULE BuzzerTask -----------------------------
(***************************************************************************)
(* core/buzzer_task: BuzzerDispatcher::dispatch and BuzzerHandler.  The    *)
(* dispatcher keeps no state; what counts is whether the buzzer sounds.    *)
(***************************************************************************)
EXTENDS TaskRuntime

VARIABLE buzzing    \* is the buzzer on?  (IBuzzerDriver)

(* BuzzerHandler *)
\* Mutant: the buzz is not timed.
start_buzzing_untimed == <<Call("on"), Call("load")>>

start_buzzing_and_start_timer == <<Call("on"), Call("load"), StartTimer("BuzzTimeout")>>

\* Mutant: the timer is stopped and the buzzer is not.
stop_timer_only == <<Call("stop_timer")>>

stop_buzzing_and_stop_timer == <<Call("off"), Call("stop_timer")>>

(* BuzzerDispatcher *)
BuzzingStarts == Dispatch("buzzer", "None", "StartBuzzing", start_buzzing_and_start_timer)

BuzzingStops ==
    \E m \in {"StopBuzzing", "BuzzTimeout"} :
        Dispatch("buzzer", "None", m, stop_buzzing_and_stop_timer)

BuzzerIgnores ==
    Ignore("buzzer", {<<"None", m>> : m \in {"StartBuzzing", "StopBuzzing", "BuzzTimeout"}})

\* driver_->on() or off() returns, with what Buzzer says of them: off() has silenced
\* the buzzer, on() may have had no effect.
DriverSwitches ==
    /\ \/ Calling("buzzer", "on") /\ buzzing' \in {buzzing, TRUE}
       \/ Calling("buzzer", "off") /\ buzzing' = FALSE
    /\ Returned("buzzer")
    /\ UNCHANGED <<queue, timer, net, up>>

\* off() drives the line low and then fails to read it back.  Any other failure of
\* on() or off() leaves the buzzer as it was.
ReadBackFails ==
    /\ Calling("buzzer", "off")
    /\ HandlerThrows("buzzer")
    /\ buzzing' = FALSE

\* load_int(buzz_duration_ms) returns; durations are not modelled.
DurationLoaded ==
    /\ Calling("buzzer", "load")
    /\ Returned("buzzer")
    /\ UNCHANGED <<queue, timer, net, up, buzzing>>

BuzzerReceives == BuzzingStarts \/ BuzzingStops \/ BuzzerIgnores

BuzzerNext == \/ (BuzzerReceives \/ Perform("buzzer")) /\ UNCHANGED buzzing
              \/ DriverSwitches
              \/ ReadBackFails
              \/ DurationLoaded

-----------------------------------------------------------------------------
(* Properties *)

\* A sounding buzzer is going to be switched off by its own timer, whatever became
\* of the main task, and in whatever order stops, starts and stale timeouts are
\* handled (buzzer_handler.cpp:24-36, 49-55).
BuzzIsTimed ==
    up["buzzer"] /\ Idle("buzzer") /\ buzzing => TimeoutAhead("buzzer", "BuzzTimeout")

\* The buzzer falls silent, though any of the other tasks may have died or be stuck,
\* unless its own task dies with the buzzer on (buzzer_handler.cpp:21-62).
BuzzerFallsSilent == buzzing ~> (~buzzing \/ ~up["buzzer"])
=============================================================================
