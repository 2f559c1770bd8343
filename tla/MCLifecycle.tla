---------------------------- MODULE MCLifecycle -----------------------------
(***************************************************************************)
(* Instances of Lifecycle for TLC.                                         *)
(***************************************************************************)
EXTENDS Lifecycle

CONSTANTS home, work, p1, o1

\* At home, the phone's departure, at work.
MCTime == <<0, 0, 1>>
MCKind == <<"location", "departure", "location">>
MCSpot == <<home, home, work>>

Span(from, to) == [from |-> from, to |-> to]
\* All but the last report.
MCRanges == {Span(0, 0)}
=============================================================================
