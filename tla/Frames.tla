------------------------------- MODULE Frames -------------------------------
(***************************************************************************)
(* WebSocket frames: what the server's stub writes (websocket.go), what a  *)
(* browser writes (its frames carry a mask), and what the readers of the   *)
(* stub and of ws_client.go make of the bytes.  A payload is its length.   *)
(***************************************************************************)
EXTENDS Naturals, Sequences

Cap == 16 * 1024 * 1024

\* Variant: the two bytes of a length in the wrong order.
MutLengthField(n) ==
    IF n < 126 THEN << n >>
    ELSE IF n <= 65535 THEN << 126, n % 256, n \div 256 >>
    ELSE << 127, 0, 0, 0, 0, n \div 16777216, (n \div 65536) % 256, (n \div 256) % 256, n % 256 >>

\* A length in 7 bits, in two bytes after 126, or in eight after 127.
LengthField(n) ==
    IF n < 126 THEN << n >>
    ELSE IF n <= 65535 THEN << 126, n \div 256, n % 256 >>
    ELSE << 127, 0, 0, 0, 0, n \div 16777216, (n \div 65536) % 256, (n \div 256) % 256, n % 256 >>

\* writeFrame and writeControl, up to the payload; FIN is always set.
WriteFrame(opcode, n) == << 128 + opcode >> \o LengthField(n)
ControlLength(n) == IF n > 125 THEN 125 ELSE n
WriteControl(opcode, n) == << 128 + opcode, ControlLength(n) >>

\* What a browser sends: the mask bit, and four bytes of mask before the payload.
Masked(frame) ==
    << frame[1], frame[2] + 128 >> \o SubSeq(frame, 3, Len(frame)) \o << 1, 2, 3, 4 >>

\* The big-endian numbers at position i.
Uint16(b, i) == 256 * b[i] + b[i + 1]
Uint64(b, i) == ((Uint16(b, i) * 65536 + Uint16(b, i + 2)) * 65536
                    + Uint16(b, i + 4)) * 65536 + Uint16(b, i + 6)

\* The bytes that follow a length of 126 or 127, and the length they make.
Extended(b) == CASE b[2] % 128 = 126 -> 2 [] b[2] % 128 = 127 -> 8 [] OTHER -> 0
PayloadLength(b) ==
    CASE Extended(b) = 2 -> Uint16(b, 3) [] Extended(b) = 8 -> Uint64(b, 3) [] OTHER -> b[2] % 128

\* readFrame, up to the payload: the opcode, the length of the payload it will
\* read, and how many bytes it has consumed; the stub refuses what is over Cap.
ReadFrame(b, capped) ==
    IF capped /\ Extended(b) = 8 /\ PayloadLength(b) > Cap THEN [error |-> "oversized"]
    ELSE [opcode |-> b[1] % 16, length |-> PayloadLength(b),
          used |-> 2 + Extended(b) + (IF b[2] >= 128 THEN 4 ELSE 0)]
=============================================================================
