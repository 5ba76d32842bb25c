------------------------------ MODULE FairShare ------------------------------
(***************************************************************************)
(* What DataDispatcher.peekFairBatch promises to pick, stated without its  *)
(* loop: give every record of the window the round in which a weighted     *)
(* round-robin over the types would serve it, order the records by round,  *)
(* then by type, then by key, and take the first `limit` of them.          *)
(*                                                                         *)
(* FairBatch shows that the loop of the code computes exactly this set;    *)
(* DataDispatcher uses this set.                                           *)
(***************************************************************************)
EXTENDS Naturals, FiniteSets

\* The data types the collectors save, in the order sort.Strings gives them.
LexOrder == << "hardware_details", "host_metrics", "network_connections",
               "process_snapshot", "security_snapshot", "service_snapshot",
               "software_inventory" >>

DataTypes == {LexOrder[i] : i \in 1 .. 7}

TypeRank(dt) == CHOOSE i \in 1 .. 7 : LexOrder[i] = dt

\* The weightOf closure: records a type may take in one round.
WeightOf(dt) ==
    IF dt \in {"hardware_details", "software_inventory", "security_snapshot"} THEN 3
    ELSE IF dt \in {"process_snapshot", "service_snapshot", "network_connections"} THEN 2
    ELSE 1

\* The size of the window the dispatcher scans: limit * factor, clamped.
ScanSize(limit, factor, floor, cap) ==
    LET scan == limit * factor
    IN  IF scan < floor THEN floor ELSE IF scan > cap THEN cap ELSE scan

------------------------------------------------------------------------------
(* W is a set of entries [key, dataType, ...] with distinct keys.           *)

SameTypeBefore(W, b) == {c \in W : c.dataType = b.dataType /\ c.key < b.key}

RoundOf(W, b) == Cardinality(SameTypeBefore(W, b)) \div WeightOf(b.dataType)

ServedBefore(W, c, b) ==
    \/ RoundOf(W, c) < RoundOf(W, b)
    \/ /\ RoundOf(W, c) = RoundOf(W, b)
       /\ \/ TypeRank(c.dataType) < TypeRank(b.dataType)
          \/ c.dataType = b.dataType /\ c.key < b.key

FairPick(W, limit) ==
    {b \in W : Cardinality({c \in W : ServedBefore(W, c, b)}) < limit}

==============================================================================
