------------------------------ MODULE MCIngest ------------------------------
(***************************************************************************)
(* Instances of Ingest for TLC.                                            *)
(***************************************************************************)
EXTENDS Ingest

CONSTANTS e1, e2, e3, r1, r2

MixedKinds == [e \in Events |-> IF e = e1 THEN "report" ELSE IF e = e2 THEN "empty" ELSE "refused"]
=============================================================================
