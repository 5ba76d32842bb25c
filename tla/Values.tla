------------------------------- MODULE Values -------------------------------
(***************************************************************************)
(* The values of the buffer's bucket (data_buffer.go:87-95, 263-274): two  *)
(* bytes for the length of the data type, the data type, the payload.  A   *)
(* data type and a payload are their lengths.                              *)
(***************************************************************************)
EXTENDS Naturals

Width == 65536      \* of a uint16

Refused == [error |-> "refused"]
Invalid == [error |-> "invalid"]
Panic == [error |-> "panic"]

\* What Save puts, or its refusal of an empty or too long data type.
EncodeValue(type, payload) ==
    IF type = 0 \/ type >= Width THEN Refused
    ELSE [prefix |-> type % Width, size |-> 2 + type + payload]

\* 2 + dl is a uint16: near the end of its range it wraps to 0 or 1, and a slice
\* from 2 to there does not exist.
DecodeValue(v) ==
    LET end == (2 + v.prefix) % Width
    IN  IF v.size < 2 \/ end > v.size THEN Invalid
        ELSE IF end < 2 THEN Panic
        ELSE [type |-> end - 2, payload |-> v.size - end]
=============================================================================
