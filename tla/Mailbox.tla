------------------------------- MODULE Mailbox -------------------------------
(***************************************************************************)
(* What a process's MessageQueue and MessageReceiver promise together to   *)
(* the tasks that send to it and to its dispatcher: messages that come     *)
(* before it is closed are handed to the dispatcher one at a time, in the  *)
(* order they came; once it is closed none is, though the dispatch under   *)
(* way may still have to return.  TaskRuntime gives every task of          *)
(* DeviceReminder such a mailbox; TaskProcess implements it.               *)
(***************************************************************************)
EXTENDS Sequences

CONSTANTS
    Message,        \* what is sent
    NoMessage,      \* no dispatch under way; also the receiver's own pill
    DispatchMayFail \* may the dispatcher throw?

VARIABLES
    phase,      \* "new" until the receiver runs, "open", "closed" for good
    pending,    \* what came and is still to be handed to the dispatcher
    current     \* the message being dispatched, or NoMessage

vars == <<phase, pending, current>>

Init == phase = "new" /\ pending = <<>> /\ current = NoMessage

Accept ==
    /\ phase # "closed"
    /\ \E m \in Message : pending' = Append(pending, m)
    /\ UNCHANGED <<phase, current>>

Open == phase = "new" /\ phase' = "open" /\ UNCHANGED <<pending, current>>

Dispatch ==
    /\ phase = "open"
    /\ current = NoMessage
    /\ pending # <<>>
    /\ current' = Head(pending)
    /\ pending' = Tail(pending)
    /\ UNCHANGED phase

Return == current # NoMessage /\ current' = NoMessage /\ UNCHANGED <<phase, pending>>

\* What is pending is never dispatched.
Drop == phase' = "closed" /\ pending' = <<>>

Close == phase # "closed" /\ Drop /\ UNCHANGED current

\* A dispatch that throws closes the mailbox.
Fail == DispatchMayFail /\ current # NoMessage /\ current' = NoMessage /\ Drop

Next == Accept \/ Open \/ Dispatch \/ Return \/ Close \/ Fail

Spec == Init /\ [][Next]_vars
=============================================================================
