---------------------------- MODULE MCProcessor -----------------------------
(***************************************************************************)
(* Instances of Processor for TLC.  j1 and j2 belong to one subject, so    *)
(* that one derivation must cover the other job's observation.             *)
(***************************************************************************)
EXTENDS Processor, TLC

CONSTANTS j1, j2, j3, s1, s2, w1, w2, main

MCSubjectOf == [j \in Jobs |-> IF j = j3 THEN s2 ELSE s1]
OneSubject == [j \in Jobs |-> s1]

\* claim_next orders by subject first, then by event time.
MCClaimOrder == [j \in Jobs |-> IF j = j1 THEN 1 ELSE IF j = j2 THEN 2 ELSE 3]

OneOfEach == [j \in Jobs |-> IF j = j1 THEN "located" ELSE IF j = j2 THEN "invalid" ELSE "status"]
ThirdPoisoned == [j \in Jobs |-> IF j = j3 THEN "poison" ELSE "located"]
AllPoisoned == [j \in Jobs |-> "poison"]

\* The name every process passes when it runs serve().
OneName == [w \in Workers |-> main]
\* Instances of one name are interchangeable.
WorkerSymmetry == Permutations(Workers)
=============================================================================
