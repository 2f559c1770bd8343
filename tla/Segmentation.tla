---------------------------- MODULE Segmentation ----------------------------
(***************************************************************************)
(* How a derivation gets its runs (src/hermodr/derivation.py): the loop of *)
(* derive_subject reads the ordered evidence once, one observation at a    *)
(* time, and keeps the run it is in; the visits and the moves come from    *)
(* positions in the list of runs.  Derivation says the same of all the     *)
(* evidence at once, and is what this module implements.                   *)
(*                                                                         *)
(* The loop runs inside a write transaction: nothing is observed and no    *)
(* place changes meanwhile.  A preview reads a snapshot, where nothing     *)
(* changes either, and is always rolled back.                              *)
(***************************************************************************)
EXTENDS Derivation

VARIABLES
    scanning,  \* derive_subject is in its loop
    scanned,   \* the evidence it has read
    current,   \* current_run
    found      \* runs

loopVars == <<scanning, scanned, current, found>>
segmentationVars == <<vars, loopVars>>

\* A list of evidence: its ends and its items.  NoRun is the empty list.
RunLists == [first : Nat, last : Nat, items : SUBSET Events]
NoRun == [first |-> 0, last |-> 0, items |-> {}]
RunOf(e) == [first |-> e, last |-> e, items |-> {e}]

AtRest == scanning = FALSE /\ scanned = {} /\ current = NoRun /\ found = <<>>

SegmentationInit == Init /\ AtRest

-----------------------------------------------------------------------------
(***************************************************************************)
(* The loop                                                                *)
(***************************************************************************)

\* reprocess_subject and preview_subject begin a transaction.
StartScan ==
    /\ ~scanning
    /\ scanning' = TRUE
    /\ UNCHANGED <<vars, scanned, current, found>>

\* The next item of the ordered evidence.
Read(e) ==
    /\ scanning
    /\ e \notin scanned
    /\ \A d \in observed \ scanned : e <= d
    /\ scanned' = scanned \cup {e}
    /\ UNCHANGED <<vars, scanning>>

\* runs, with current_run as the last one if there is one.
Closed == IF current.items = {} THEN found ELSE Append(found, current)

Continues(e) == current.items # {} /\ PlaceOf(current.last) = PlaceOf(e)

\* Mutant: the loop passes over an item of no place.
PassOver(e) == Read(e) /\ PlaceOf(e) = None /\ UNCHANGED <<current, found>>

\* An item of no place ends the run.
Interrupt(e) ==
    /\ Read(e)
    /\ PlaceOf(e) = None
    /\ found' = Closed /\ current' = NoRun

\* An item of the same place belongs to the run.
Extend(e) ==
    /\ Read(e)
    /\ PlaceOf(e) # None /\ Continues(e)
    /\ current' = [current EXCEPT !.last = e, !.items = @ \cup {e}]
    /\ UNCHANGED found

\* An item of another place ends the run and begins one.
Begin(e) ==
    /\ Read(e)
    /\ PlaceOf(e) # None /\ ~Continues(e)
    /\ found' = Closed /\ current' = RunOf(e)

-----------------------------------------------------------------------------
(***************************************************************************)
(* What is derived from the runs                                           *)
(***************************************************************************)

VisitOf(run) == Record("visit", run.first, run.last, PlaceOf(run.first))

\* Mutant: every run counts as complete.
EveryLongVisit(runs) ==
    {VisitOf(runs[i]) : i \in {i \in DOMAIN runs : Time[runs[i].last] - Time[runs[i].first] >= Dwell}}

\* The visits that are stored as confirmed: those of complete runs, if long enough.
ConfirmedVisits(runs) ==
    {VisitOf(runs[i]) :
        i \in {i \in DOMAIN runs : /\ i < Len(runs)
                                   /\ Time[runs[i].last] - Time[runs[i].first] >= Dwell}}

\* zip(runs, runs[1:]), where the place changes.
ConsecutiveMoves(runs) ==
    {[from |-> runs[i], to |-> runs[i + 1]] :
        i \in {i \in DOMAIN runs : /\ i < Len(runs)
                                   /\ PlaceOf(runs[i].last) # PlaceOf(runs[i + 1].first)}}

\* The end of the loop, the records of the runs found, and the commit.
Finish ==
    LET runs == Closed
        visits == {VisitOf(runs[i]) : i \in DOMAIN runs}
        others == Gaps \cup Transitions(ConsecutiveMoves(runs)) \cup Trips(ConsecutiveMoves(runs))
    IN  /\ scanning /\ scanned = observed
        /\ Merge(visits \cup others,
                 ConfirmedVisits(runs) \cup others,
                 DerivedEvidence(others)
                    \cup UNION {{VisitOf(runs[i])} \X runs[i].items : i \in DOMAIN runs})
        /\ scanning' = FALSE /\ scanned' = {} /\ current' = NoRun /\ found' = <<>>

\* Mutant: the list of runs outlives the transaction.
KeepRuns ==
    /\ scanning
    /\ scanning' = FALSE /\ scanned' = {} /\ current' = NoRun
    /\ UNCHANGED <<vars, found>>

\* A rollback: an exception at any point, or the end of a preview.
RollBack ==
    /\ scanning
    /\ scanning' = FALSE /\ scanned' = {} /\ current' = NoRun /\ found' = <<>>
    /\ UNCHANGED vars

-----------------------------------------------------------------------------
\* The others wait for the write lock.
Elsewhere ==
    /\ ~scanning
    /\ \/ \E e \in Events : Observe(e)
       \/ \E p \in Places, from \in Reviews, approved \in BOOLEAN :
             RegisterPlace(p, from, approved)
    /\ UNCHANGED loopVars

SegmentationNext ==
    \/ StartScan
    \/ \E e \in observed : Interrupt(e) \/ Extend(e) \/ Begin(e)
    \/ Finish
    \/ RollBack
    \/ Elsewhere

SegmentationSpec == SegmentationInit /\ [][SegmentationNext]_segmentationVars

-----------------------------------------------------------------------------
(***************************************************************************)
(* Properties                                                              *)
(***************************************************************************)

LoopTypeOK ==
    /\ scanning \in BOOLEAN
    /\ scanned \subseteq observed
    /\ current \in RunLists
    /\ found \in Seq(RunLists)
    /\ ~scanning => AtRest

\* Every variable has its type, and outside the transaction nothing is left of the
\* loop's.
SegmentationTypeOK == TypeOK /\ LoopTypeOK

\* When the loop over the evidence ends, the runs it has found are exactly the
\* longest unbroken stretches at one place, each once and in their order.
RunsFound ==
    scanning /\ scanned = observed =>
        /\ {[first |-> Closed[i].first, last |-> Closed[i].last] : i \in DOMAIN Closed} = Runs
        /\ \A i, j \in DOMAIN Closed : i < j => Closed[i].last < Closed[j].first

\* Every step of the loop leaves the tables as they are, and the last one does
\* exactly what Derivation says: one derivation from all the evidence.
ImplementsDerivation == Spec
=============================================================================
