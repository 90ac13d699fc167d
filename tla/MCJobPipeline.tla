---------------------------- MODULE MCJobPipeline ---------------------------
(* TLC instances of JobPipeline. *)
EXTENDS JobPipeline

MCResultId == AgentResultId
MCReported == FinalOutcome
=============================================================================
