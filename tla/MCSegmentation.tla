--------------------------- MODULE MCSegmentation ---------------------------
(***************************************************************************)
(* An instance of Segmentation for TLC.                                    *)
(***************************************************************************)
EXTENDS Segmentation

CONSTANTS home, work

\* Home; a waypoint proposes the place anew; a report of no place, back home,
\* the departure, and work after a silence.
MCTime == <<0, 1, 1, 2, 2, 5>>
MCKind == <<"location", "waypoint", "location", "location", "departure", "location">>
MCSpot == <<home, home, None, home, home, work>>
=============================================================================
