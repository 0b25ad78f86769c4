---------------------------- MODULE MCAgentTools ----------------------------
(* Constants of the TLC run of AgentTools. *)
EXTENDS AgentTools, TLC

CONSTANTS live, other

LiveAndReport == (live :> "onboarding") @@ (other :> "renewal_report")
=============================================================================
