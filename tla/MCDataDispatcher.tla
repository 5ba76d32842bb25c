-------------------------- MODULE MCDataDispatcher --------------------------
(* Instances of DataDispatcher for TLC.                                     *)
EXTENDS DataDispatcher, TLC

CONSTANTS p1, p2, r1, r2, r3, r4

\* Frequent records and one of a rare type.
MCTypeOf == [r \in Record |-> IF r = r3 THEN "hardware_details" ELSE "host_metrics"]

MCNone == {}
MCOneMalformed == {r3}
MCOneOversize == {r4}

MCKeys3 == 0 .. 3
MCKeys4 == 0 .. 4

MCSaverSymmetry == Permutations(Saver)
==============================================================================
