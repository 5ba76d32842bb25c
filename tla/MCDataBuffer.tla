---------------------------- MODULE MCDataBuffer ----------------------------
(* Instances of DataBuffer for TLC.                                         *)
EXTENDS DataBuffer

CONSTANTS p1, p2, r1, r2, r3

\* The types do not matter to the buffer: all records have one.
MCTypeOf == [r \in Record |-> "host_metrics"]

MCNone == {}

MCKeys3 == 0 .. 3
MCKeys2 == 0 .. 1
==============================================================================
