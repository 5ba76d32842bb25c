--------------------------- MODULE MCDebugServer ---------------------------
(* An instance of DebugServer for TLC.                                       *)
EXTENDS DebugServer

CONSTANTS c1, c2
MCTwoClients == {c1, c2}
MCOneType == {"host_metrics"}
==============================================================================
