---------------------------- MODULE MCAgentJobs ----------------------------
(***************************************************************************)
(* AgentJobs with a server that answers anything, in two parts: batches of *)
(* all jobs while nothing fails, and crashes and failed writes as long as  *)
(* only the jobs of Exposed were handed out.                               *)
(***************************************************************************)
EXTENDS AgentJobs

CONSTANT Exposed

HandedOut == inbox \cup disp.todo \cup {j \in Job : jobStore[j] # "none"}
InScope == crashes + faults = 0 \/ HandedOut \subseteq Exposed
AgentRuns == AgentInit /\ [][AgentNext /\ InScope']_agentVars
=============================================================================
