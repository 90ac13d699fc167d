---------------------------- MODULE MCServerJobs ----------------------------
(* TLC instances of ServerJobs: two jobs, two result ids used at will. *)
EXTENDS ServerJobs, TLC

\* Every intermediate report, and two outcomes that close a job in different ways.
MCReported == {"running", "queued", "sent", "completed", "lost_to_restart"}

\* No handler and no property tells one result id from the other.
ResultIdSymmetry == Permutations(ResultId)
=============================================================================
