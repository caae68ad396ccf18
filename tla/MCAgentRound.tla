---- MODULE MCAgentRound ----
(***************************************************************************)
(* Three agents, one of which may be disabled.                             *)
(***************************************************************************)
EXTENDS AgentRound

MCAgents == <<"CmpAgent", "MutatorAgent", "FormatAgent">>
MCDisabledSets == {{}, {"MutatorAgent"}}
MCBackoffs == <<1, 2>>
====
