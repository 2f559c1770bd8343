---------------------------- MODULE MCDerivation ----------------------------
(***************************************************************************)
(* An instance of Derivation for TLC.                                       *)
(***************************************************************************)
EXTENDS Derivation

CONSTANTS home, work

\* Home, a report of no place, work, the phone's departure, home after a silence.
MCTime == <<0, 1, 1, 2, 3, 6>>
PlainKind == <<"location", "location", "location", "location", "departure", "location">>
MCSpot == <<home, home, None, work, home, home>>
=============================================================================
