--------------------------- MODULE MCAgentService ---------------------------
(* Instances of AgentService for TLC.                                       *)
EXTENDS AgentService

CONSTANTS c1, c2

\* The program always configures a dispatcher next to the runner.
MCParts == {"runner", "dispatcher"}
==============================================================================
