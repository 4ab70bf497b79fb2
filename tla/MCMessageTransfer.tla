------------------------- MODULE MCMessageTransfer -------------------------
(* MessageTransfer with the largest and smallest types and payloads around the limit, *)
(* and with the messages, changes and tails that together make another message pass   *)
(* the checksum.  A change of 128 is left out: in the length field's first byte it    *)
(* would make a number TLC's integers cannot hold.                                    *)
EXTENDS MessageTransfer

Empty(type) == [type |-> type, payload |-> <<>>]
Checksum(m) == WordBytes(crc32(Body(m)))

\* A message whose payload is the checksum of the empty one of its type: its frame with
\* the length 0 is the empty one's frame, and more.
Embedding == [type |-> 9, payload |-> Checksum(Empty(9))]

MCMaxPayload == 4
MCMessages ==
    [type : {0, 5, 9},
     payload : {<<>>, <<0>>, <<255, 0>>, <<49, 48, 77>>, <<1, 2, 3, 4>>, <<1, 2, 3, 4, 5>>}]
        \cup {Embedding}

\* The length's last byte can also go from 0 to 4 and from 4 to 0.
MCChanges == (1..40) \X {1, 64, 100} \cup {<<10, 4>>, <<10, 252>>}

\* A byte; a frame; what makes the empty message of type 9 with the length 4 a frame, its
\* own checksum being the payload; the end of a frame, for one that is cut after 4 bytes.
MCTails == {<<0>>, encode(Empty(9)), Checksum(Embedding), SubSeq(encode(Empty(5)), 5, 14)}

\* The published check value of CRC-32: "123456789" gives 0xCBF43926.
ASSUME CrcCheckValue ==
    WordBytes(crc32(<<49, 50, 51, 52, 53, 54, 55, 56, 57>>)) = <<203, 244, 57, 38>>
=============================================================================
