----------------------------- MODULE JobContract ----------------------------
(***************************************************************************)
(* What the jobs pipeline promises whoever creates a job, in three facts:  *)
(* the operation is carried out at most once, only after the server has    *)
(* confirmed the start, and the server confirms no start of a closed job.  *)
(* How a job gets from one to the other (delivery, redelivery, evidence,   *)
(* restarts, timeouts) is the business of JobPipeline.                     *)
(***************************************************************************)
EXTENDS Integers

CONSTANT Job

VARIABLES
  begun,         \* jobs whose start was confirmed
  done,          \* how often the operation of each job was carried out
  closed         \* jobs with a final status

contractVars == <<begun, done, closed>>

Init ==
  /\ begun = {}
  /\ done = [j \in Job |-> 0]
  /\ closed = {}

Begin(j) ==
  /\ j \notin closed
  /\ begun' = begun \cup {j}
  /\ UNCHANGED <<done, closed>>

\* A job may be closed on the server while the agent still carries it out.
Do(j) ==
  /\ j \in begun
  /\ done[j] = 0
  /\ done' = [done EXCEPT ![j] = 1]
  /\ UNCHANGED <<begun, closed>>

Close(S) ==
  /\ closed' = closed \cup S
  /\ UNCHANGED <<begun, done>>

Next ==
  \/ \E j \in Job : Begin(j) \/ Do(j)
  \/ \E S \in SUBSET Job : Close(S)

Spec == Init /\ [][Next]_contractVars
=============================================================================
