----------------------------- MODULE MCAgentEngine -----------------------------
(* Instance of AgentEngine for TLC: a disabled task before two enabled ones. *)
EXTENDS AgentEngine

CONSTANTS audit, feedsync, alert

MCTaskOrder == <<feedsync, audit, alert>>
MCEnabled == {audit, alert}
=============================================================================
