---------------------------- MODULE MCInventory ----------------------------
(* An instance of Inventory for TLC: the default lifetimes of the caches are *)
(* two periods for the hardware and one for the software.                    *)
EXTENDS Inventory

MCTTL == [k \in Cached |-> IF k = "hardware" THEN 2 * Period ELSE Period]
==============================================================================
