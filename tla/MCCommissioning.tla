-------------------------- MODULE MCCommissioning --------------------------
(***************************************************************************)
(* Instances of Commissioning for TLC.                                     *)
(***************************************************************************)
EXTENDS Commissioning, TLC

CONSTANTS d1, k1, k2, o1, o2, r1, s1

OneSubject == [d \in Devices |-> s1]

\* Concurrent commands are interchangeable, and so are the keys.
Interchangeable == Permutations(Operators) \cup Permutations(Keys)
=============================================================================
