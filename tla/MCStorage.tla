----------------------------- MODULE MCStorage ------------------------------
(***************************************************************************)
(* Instances of Storage for TLC.                                           *)
(***************************************************************************)
EXTENDS Storage

CONSTANTS unit, newer, edited, a, b, x, y

\* The build installed, one with a script more, one whose scripts were edited.
MCScript ==
    [w \in Migrators |->
        CASE w = unit -> <<a>> [] w = newer -> <<a, b>> [] w = edited -> <<x, y>>]
=============================================================================
