--------------------------- MODULE MessageTransfer ---------------------------
(***************************************************************************)
(* A message on its way from ProcessSender::send() of one process to       *)
(* MessageInbox::on_recv() of another, as a frame of bytes.                *)
(*                                                                         *)
(* External: the transport, which src/ does not have: it may alter one     *)
(* byte of a frame, cut it short and hand it over with bytes after it.     *)
(***************************************************************************)
EXTENDS MessageCodec

CONSTANTS
    Messages,   \* what a task may send
    Changes,    \* <<i, c>>: c may be added to the i-th byte
    Tails       \* what may follow a frame

ASSUME MessagesAssumption ==
    /\ Messages \subseteq [type : Type, payload : Seq(Byte)]
    /\ Changes \subseteq (Nat \ {0}) \X (1..255)
    /\ Tails \subseteq Seq(Byte)

VARIABLES
    phase,      \* how far the message is
    msg,        \* the message last handed to send()
    bytes,      \* the frame on its way
    altered,    \* the positions of the bytes the transport has altered
    lost,       \* and of those it has cut off
    followed,   \* do other bytes follow the frame, or what is left of it?
    queue       \* the receiving task's queue

vars == <<phase, msg, bytes, altered, lost, followed, queue>>

\* The positions of the bytes of a message's frame.
FrameSize(m) == kHeaderSize + Len(m.payload) + kFooterSize
Frame(m) == 1..FrameSize(m)

Init ==
    /\ phase = "sent"
    /\ msg \in {m \in Messages : Encodable(m)}
    /\ bytes = encode(msg)
    /\ altered = {} /\ lost = {} /\ followed = FALSE
    /\ queue = <<>>

\* send() of the next message; encode() refuses it if it is too long.
Send ==
    /\ phase # "sent"
    /\ msg' \in Messages
    /\ IF Encodable(msg')
       THEN phase' = "sent" /\ bytes' = encode(msg')
       ELSE phase' = "refused" /\ bytes' = <<>>
    /\ altered' = {} /\ lost' = {} /\ followed' = FALSE
    /\ queue' = <<>>

Undamaged == altered = {} /\ lost = {}

Alter ==
    /\ phase = "sent" /\ Undamaged
    /\ \E change \in Changes :
           /\ change[1] \in DOMAIN bytes
           /\ bytes' = [bytes EXCEPT ![change[1]] = (@ + change[2]) % 256]
           /\ altered' = {change[1]}
    /\ UNCHANGED <<phase, msg, lost, followed, queue>>

Cut ==
    /\ phase = "sent" /\ Undamaged
    /\ \E n \in 0..(Len(bytes) - 1) :
           /\ bytes' = SubSeq(bytes, 1, n)
           /\ lost' = (n + 1)..Len(bytes)
           /\ followed' = (followed /\ n > FrameSize(msg))
    /\ UNCHANGED <<phase, msg, altered, queue>>

Follow ==
    /\ phase = "sent" /\ ~followed /\ bytes # <<>>
    /\ \E tail \in Tails : bytes' = bytes \o tail
    /\ followed' = TRUE
    /\ UNCHANGED <<phase, msg, altered, lost, queue>>

\* on_recv(): decode() and push, or the exception of decode().
Receive ==
    /\ phase = "sent"
    /\ IF Accepted(bytes)
       THEN phase' = "received" /\ queue' = Append(queue, Message(bytes))
       ELSE phase' = "rejected" /\ UNCHANGED queue
    /\ bytes' = <<>>
    /\ UNCHANGED <<msg, altered, lost, followed>>

Next == Send \/ Alter \/ Cut \/ Follow \/ Receive

Spec == Init /\ [][Next]_vars

-----------------------------------------------------------------------------
(* Properties *)

\* Only bytes travel, of messages that encode() lets through (message_codec.cpp:69-71,
\* 86-94).
TypeOK ==
    /\ phase \in {"sent", "received", "rejected", "refused"}
    /\ msg \in Messages
    /\ bytes \in Seq(Byte)
    /\ altered \in SUBSET Nat /\ lost \in SUBSET Nat /\ followed \in BOOLEAN
    /\ queue \in Seq([type : Type, payload : Seq(Byte)])
    /\ phase = "sent" => Len(msg.payload) <= MaxPayload

\* A frame no byte of which is altered or lost is accepted, whatever happens to what
\* follows it, and the message that is queued is the one that was sent: encode() and
\* decode() agree on the layout for every type and payload (message_codec.cpp:83-94,
\* 112-143).
IntactArrives ==
    (altered \cup lost) \cap Frame(msg) = {} =>
        /\ phase # "rejected"
        /\ phase = "received" => queue = <<msg>>

\* The length decides which bytes decode() takes for the checksum.
TypeField == 5..6
LengthField == 7..10

\* A frame with an altered byte is accepted only if the byte belongs to the length,
\* wherever else it is; and one that is cut short only if other bytes take the place
\* of those that are lost (message_codec.cpp:108-141).
DamageIsRejected ==
    phase = "received" =>
        /\ altered \cap Frame(msg) \subseteq LengthField
        /\ lost \cap Frame(msg) # {} => followed

\* Damage that decode() does not notice moves only the end of a message.  The type that
\* is queued is the one that was sent, and so is every byte of the payload that both
\* messages have, unless the transport has lost the very byte and others took its place;
\* and a longer payload than the one sent takes bytes that follow the frame.  (The same
\* message it need not be: the length may be altered so that the payload ends before
\* four bytes that happen to be the checksum of what comes before them, and what follows
\* a cut frame may complete it.  message_codec.cpp:112-143.)
DamageMovesOnlyTheEnd ==
    phase = "received" =>
        LET got == queue[1]
        IN  /\ lost \cap TypeField = {} => got.type = msg.type
            /\ \A i \in DOMAIN got.payload \cap DOMAIN msg.payload :
                   kHeaderSize + i \notin lost => got.payload[i] = msg.payload[i]
            /\ Len(got.payload) > Len(msg.payload) => followed
=============================================================================
