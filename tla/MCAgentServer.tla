--------------------------- MODULE MCAgentServer ---------------------------
(* Three connections, two of them from one peer, one session for each peer  *)
(* and two in all, so that both limits are reached; two file names; two     *)
(* milliseconds, so that ids may collide or not.                            *)
EXTENDS AgentServer

CONSTANTS here, there
MCOriginOf == <<here, here, there>>
=============================================================================
