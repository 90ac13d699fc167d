----------------------------- MODULE MCRollout ------------------------------
(* TLC instances of Rollout.  Campaign c1 has a wave of two targets and one  *)
(* of one; c2 has one wave with one target, on an endpoint of c1.             *)
EXTENDS Rollout

CONSTANTS c1, c2, w1, w2, w3, t1, t2, t3, t4, e1, e2, e3

MCCampaignOf == [w \in Wave |-> IF w = w3 THEN c2 ELSE c1]
MCSequence == [w \in Wave |-> IF w = w2 THEN 2 ELSE 1]
MCWaveOf == [t \in Target |-> CASE t = t3 -> w2 [] t = t4 -> w3 [] OTHER -> w1]
MCEndpointOf == [t \in Target |-> CASE t = t2 -> e2 [] t = t3 -> e3 [] OTHER -> e1]
MCLimit == [c \in Campaign |-> 1]
MCTolerance == [s \in Symptom |-> 1]
=============================================================================
