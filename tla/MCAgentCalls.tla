---------------------------- MODULE MCAgentCalls ----------------------------
(***************************************************************************)
(* The instance of AgentCalls: fewer connections than calls, and timeouts  *)
(* long enough for callers and the called to run out at the same time.     *)
(***************************************************************************)
EXTENDS AgentCalls

CONSTANTS t1
=============================================================================
