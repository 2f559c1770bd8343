------------------------------ MODULE MCOutbox ------------------------------
(***************************************************************************)
(* Instances of Outbox for TLC.                                            *)
(***************************************************************************)
EXTENDS Outbox

CONSTANTS a1, a2, a3, a4, a5, c1

\* The visit a5 is at the place a2.
VisitedPlace == [a \in Aggregates |-> IF a = a5 THEN a2 ELSE a]
OneOfEach ==
    [a \in Aggregates |-> IF a = a1 THEN "derived" ELSE IF a = a2 THEN "place"
                          ELSE IF a = a3 THEN "source" ELSE IF a = a4 THEN "observation"
                          ELSE "visit"]
=============================================================================
