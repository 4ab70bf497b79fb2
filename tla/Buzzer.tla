-------------------------------- MODULE Buzzer --------------------------------
(***************************************************************************)
(* What an IBuzzerDriver (buzzer_driver.hpp) promises to the buzzer task.  *)
(* on() that returns has told the buzzer to sound, and nobody looks        *)
(* whether it does: it stays silent if it does not obey.  on() that throws *)
(* has not touched it.  off() that returns has silenced it, and one that   *)
(* throws may have.  BuzzerTask relies on this with a buzzer that may      *)
(* disobey; BuzzerDriver implements it.                                    *)
(***************************************************************************)
CONSTANT MayDisobey     \* may an order to the buzzer have no effect?

VARIABLES
    buzzing,    \* does the buzzer sound?
    call,       \* "on", "off", or "none" between calls
    outcome     \* of the last call: "none" at first, "returned" or "threw"

vars == <<buzzing, call, outcome>>

Init == buzzing = FALSE /\ call = "none" /\ outcome = "none"

Call ==
    /\ call = "none"
    /\ call' \in {"on", "off"}
    /\ UNCHANGED <<buzzing, outcome>>

End(result) == call' = "none" /\ outcome' = result

SwitchOn ==
    /\ call = "on"
    /\ buzzing' = TRUE \/ (MayDisobey /\ UNCHANGED buzzing)
    /\ End("returned")

\* off() still has to make sure that it worked.
SwitchOff == call = "off" /\ buzzing' = FALSE /\ UNCHANGED <<call, outcome>>

OffReturns == call = "off" /\ ~buzzing /\ End("returned") /\ UNCHANGED buzzing

Throws == call # "none" /\ End("threw") /\ UNCHANGED buzzing

Next == Call \/ SwitchOn \/ SwitchOff \/ OffReturns \/ Throws

Spec == Init /\ [][Next]_vars
=============================================================================
