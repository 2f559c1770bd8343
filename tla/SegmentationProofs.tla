------------------------- MODULE SegmentationProofs -------------------------
(***************************************************************************)
(* Proofs about Segmentation: the loop of derive_subject finds exactly the *)
(* runs of Derivation, so that the loop and what it writes at its end      *)
(* implement one derivation, for every set of events.                      *)
(***************************************************************************)
EXTENDS Segmentation, DerivationProofs

-----------------------------------------------------------------------------
(***************************************************************************)
(* The loop invariant                                                      *)
(***************************************************************************)

\* What the loop has read is an initial segment of the evidence.
PrefixScanned == \A d \in observed, e \in scanned : d <= e => d \in scanned

\* A list of evidence is all that was read between its ends, at one place.
Whole(run) ==
    /\ run.first \in run.items /\ run.last \in run.items
    /\ run.items \subseteq scanned
    /\ PlaceOf(run.first) # None
    /\ \A e \in run.items :
          run.first <= e /\ e <= run.last /\ PlaceOf(e) = PlaceOf(run.first)
    /\ \A e \in scanned : run.first <= e /\ e <= run.last => e \in run.items

RunsWhole == \A i \in DOMAIN Closed : Whole(Closed[i])

RunsOrdered == \A i, j \in DOMAIN Closed : i < j => Closed[i].last < Closed[j].first

\* Every item of a place is in a run.
NothingLost ==
    \A e \in scanned : PlaceOf(e) # None => \E i \in DOMAIN Closed : e \in Closed[i].items

\* There is a reason why one list of evidence did not continue another.
Parted(r, s) ==
    \/ PlaceOf(r.last) # PlaceOf(s.first)
    \/ \E e \in scanned : r.last < e /\ e < s.first /\ PlaceOf(e) = None

RunsParted == \A i, j \in DOMAIN Closed : j = i + 1 => Parted(Closed[i], Closed[j])

\* The run that is open ends with the last item; without one, that item is of no
\* place.
EndOfRun ==
    /\ current.items # {} => \A e \in scanned : e <= current.last
    /\ current.items = {} =>
          \A e \in scanned : PlaceOf(e) # None => \E d \in scanned : e < d /\ PlaceOf(d) = None

LoopInv ==
    /\ LoopTypeOK
    /\ PrefixScanned
    /\ RunsWhole
    /\ RunsOrdered
    /\ NothingLost
    /\ RunsParted
    /\ EndOfRun

-----------------------------------------------------------------------------
(***************************************************************************)
(* The loop invariant holds                                                *)
(***************************************************************************)

LEMMA RunListType ==
    ASSUME LoopTypeOK, NEW e \in Nat, e \in Events
    PROVE  /\ NoRun \in RunLists /\ NoRun.items = {}
           /\ RunOf(e) \in RunLists
           /\ RunOf(e).first = e /\ RunOf(e).last = e /\ RunOf(e).items = {e}
           /\ Closed \in Seq(RunLists)
<1>1. Closed \in Seq(RunLists)
    BY DEF Closed, LoopTypeOK
<1>2. NoRun \in RunLists /\ NoRun.items = {}
    BY DEF NoRun, RunLists
<1>3. /\ RunOf(e) \in RunLists
      /\ RunOf(e).first = e /\ RunOf(e).last = e /\ RunOf(e).items = {e}
    BY DEF RunOf, RunLists
<1> QED
    BY <1>1, <1>2, <1>3

\* What one more element changes in a list.
LEMMA OneMoreRun ==
    ASSUME NEW list \in Seq(RunLists), NEW run \in RunLists
    PROVE  /\ Append(list, run) \in Seq(RunLists)
           /\ Len(Append(list, run)) = Len(list) + 1
           /\ DOMAIN list = 1..Len(list) /\ Len(list) \in Nat
           /\ DOMAIN Append(list, run) = 1..(Len(list) + 1)
           /\ \A i \in DOMAIN list : Append(list, run)[i] = list[i]
           /\ Append(list, run)[Len(list) + 1] = run
OBVIOUS

\* The loop reads the evidence in order and changes none of it.
LEMMA ReadEffect ==
    ASSUME TypeOK, LoopTypeOK, PrefixScanned, NEW e \in observed, Read(e)
    PROVE  /\ e \in Events /\ e \in Nat /\ observed \subseteq Nat
           /\ e \notin scanned /\ \A d \in scanned : d < e
           /\ scanned' = scanned \cup {e} /\ scanned' \subseteq observed'
           /\ scanning /\ scanning' /\ UNCHANGED vars
           /\ PrefixScanned'
           /\ \A x : PlaceOf(x)' = PlaceOf(x)
<1>1. observed \subseteq Events /\ observed \subseteq Nat /\ scanned \subseteq observed
    BY DerivationAssumption DEF TypeOK, LoopTypeOK
<1>2. /\ scanning /\ e \notin scanned /\ \A d \in observed \ scanned : e <= d
      /\ scanned' = scanned \cup {e} /\ UNCHANGED vars /\ scanning' = scanning
    BY DEF Read
<1>3. observed' = observed /\ versions' = versions
    BY <1>2 DEF vars
<1>4. \A d \in scanned : d < e
    BY <1>1, <1>2 DEF PrefixScanned
<1>5. PrefixScanned'
    BY <1>1, <1>2, <1>3, <1>4 DEF PrefixScanned
<1>6. \A x : PlaceOf(x)' = PlaceOf(x)
    BY <1>3 DEF PlaceOf
<1> QED
    BY <1>1, <1>2, <1>3, <1>4, <1>5, <1>6

\* A run that is over stays what it is, and so does what parts two runs.
LEMMA RunsStay ==
    ASSUME TypeOK, LoopTypeOK, PrefixScanned, NEW e \in observed, Read(e)
    PROVE  /\ \A run \in RunLists : Whole(run) => Whole(run)'
           /\ \A r, s : Parted(r, s) => Parted(r, s)'
<1>1. /\ \A d \in scanned : d < e
      /\ scanned' = scanned \cup {e} /\ e \in Nat /\ scanned \subseteq Nat
      /\ \A x : PlaceOf(x)' = PlaceOf(x)
    BY ReadEffect DEF LoopTypeOK
<1>2. ASSUME NEW run \in RunLists, Whole(run) PROVE Whole(run)'
    <2>1. run.last \in scanned
        BY <1>2 DEF Whole
    <2>2. run.last \in Nat /\ run.last < e
        BY <1>1, <2>1
    <2>3. \A x \in scanned' : run.first <= x /\ x <= run.last => x \in run.items
        BY <1>1, <1>2, <2>2 DEF Whole
    <2> QED
        BY <1>1, <1>2, <2>3 DEF Whole
<1>3. ASSUME NEW r, NEW s, Parted(r, s) PROVE Parted(r, s)'
    BY <1>1, <1>3 DEF Parted
<1> QED
    BY <1>2, <1>3

\* An item of no place ends the run.
LEMMA InterruptStep ==
    ASSUME TypeOK, LoopInv, NEW e \in observed, Interrupt(e)
    PROVE  LoopInv'
<1>1. Read(e) /\ PlaceOf(e) = None /\ found' = Closed /\ current' = NoRun
    BY DEF Interrupt
<1>2. /\ LoopTypeOK /\ PrefixScanned
      /\ e \in Events /\ e \in Nat /\ \A d \in scanned : d < e
      /\ scanned' = scanned \cup {e} /\ scanned' \subseteq observed'
      /\ scanning /\ scanning' /\ PrefixScanned'
      /\ \A x : PlaceOf(x)' = PlaceOf(x)
    BY <1>1, ReadEffect DEF LoopInv
<1>3. NoRun \in RunLists /\ NoRun.items = {} /\ Closed \in Seq(RunLists)
    BY <1>2, RunListType
<1>4. Closed' = Closed
    BY <1>1, <1>3 DEF Closed
<1>5. LoopTypeOK'
    BY <1>1, <1>2, <1>3 DEF LoopTypeOK
<1>6. RunsWhole' /\ RunsParted'
    <2>1. \A i \in DOMAIN Closed : Closed[i] \in RunLists
        BY <1>3
    <2> QED
        BY <1>1, <1>2, <1>4, <2>1, RunsStay DEF LoopInv, RunsWhole, RunsParted
<1>7. RunsOrdered'
    BY <1>4 DEF LoopInv, RunsOrdered
<1>8. NothingLost'
    BY <1>1, <1>2, <1>4 DEF LoopInv, NothingLost
<1>9. EndOfRun'
    BY <1>1, <1>2, <1>3 DEF EndOfRun
<1> QED
    BY <1>2, <1>5, <1>6, <1>7, <1>8, <1>9 DEF LoopInv

\* An item of the same place is the new end of the run.
LEMMA ExtendStep ==
    ASSUME TypeOK, LoopInv, NEW e \in observed, Extend(e)
    PROVE  LoopInv'
<1>1. /\ Read(e) /\ PlaceOf(e) # None
      /\ current.items # {} /\ PlaceOf(current.last) = PlaceOf(e)
      /\ current' = [current EXCEPT !.last = e, !.items = @ \cup {e}] /\ found' = found
    BY DEF Extend, Continues
<1>2. /\ LoopTypeOK /\ PrefixScanned
      /\ e \in Events /\ e \in Nat /\ \A d \in scanned : d < e
      /\ scanned' = scanned \cup {e} /\ scanned' \subseteq observed'
      /\ scanning /\ scanning' /\ PrefixScanned'
      /\ \A x : PlaceOf(x)' = PlaceOf(x)
    BY <1>1, ReadEffect DEF LoopInv
<1>3. current \in RunLists /\ found \in Seq(RunLists) /\ scanned \subseteq Nat
    BY <1>1, <1>2, ReadEffect DEF LoopTypeOK
<1>4. PICK run, longer : run = current /\ longer = current'
    OBVIOUS
<1>5. /\ run \in RunLists /\ longer \in RunLists /\ longer.first = run.first /\ longer.last = e
      /\ longer.items = run.items \cup {e} /\ longer.items # {}
    BY <1>1, <1>2, <1>3, <1>4 DEF RunLists
<1>6. PICK old, new, n : /\ old = Append(found, run) /\ new = Append(found, longer)
                         /\ n = Len(found) + 1
    OBVIOUS
<1>7. Closed = old /\ Closed' = new
    BY <1>1, <1>4, <1>5, <1>6 DEF Closed
<1>8. /\ DOMAIN old = 1..n /\ DOMAIN new = 1..n /\ n \in Nat /\ n > 0
      /\ \A i \in 1..n : i # n => new[i] = old[i]
      /\ old[n] = run /\ new[n] = longer
      /\ \A i \in 1..n : old[i] \in RunLists
    BY <1>3, <1>5, <1>6, OneMoreRun
<1>9. LoopTypeOK'
    BY <1>1, <1>2, <1>3, <1>4, <1>5 DEF LoopTypeOK
<1>10. \A i \in 1..n : new[i].first = old[i].first
    BY <1>5, <1>8
<1>11. Whole(longer)'
    <2>1. Whole(run)
        BY <1>7, <1>8 DEF LoopInv, RunsWhole
    <2>2. \A x \in scanned : x <= run.last
        BY <1>1, <1>4 DEF LoopInv, EndOfRun
    <2>3. /\ longer.first \in longer.items /\ longer.last \in longer.items
          /\ longer.items \subseteq scanned'
        BY <1>2, <1>5, <2>1 DEF Whole
    <2>4. PlaceOf(longer.first)' # None
        BY <1>2, <1>5, <2>1 DEF Whole
    <2>5. \A x \in longer.items :
             longer.first <= x /\ x <= e /\ PlaceOf(x) = PlaceOf(longer.first)
        <3>1. run.first \in scanned /\ run.first \in Nat
            BY <1>3, <2>1 DEF Whole
        <3>2. PlaceOf(e) = PlaceOf(run.first)
            BY <1>1, <1>4, <2>1 DEF Whole
        <3>3. ASSUME NEW x \in run.items
              PROVE  run.first <= x /\ x <= e /\ PlaceOf(x) = PlaceOf(run.first)
            <4>1. x \in scanned /\ x \in Nat
                BY <1>3, <2>1, <3>3 DEF Whole
            <4> QED
                BY <1>2, <2>1, <4>1 DEF Whole
        <3> QED
            BY <1>2, <1>5, <3>1, <3>2, <3>3
    <2>6. \A x \in scanned' : longer.first <= x /\ x <= e => x \in longer.items
        BY <1>2, <1>5, <2>1, <2>2 DEF Whole
    <2> QED
        BY <1>2, <1>5, <2>3, <2>4, <2>5, <2>6 DEF Whole
<1>12. RunsWhole'
    <2> SUFFICES ASSUME NEW i \in 1..n PROVE Whole(new[i])'
        BY <1>7, <1>8 DEF RunsWhole
    <2>1. CASE i = n
        BY <1>8, <1>11, <2>1
    <2>2. CASE i # n
        <3>1. Whole(old[i])
            BY <1>7, <1>8 DEF LoopInv, RunsWhole
        <3>2. Whole(old[i])'
            BY <1>1, <1>2, <1>8, <3>1, RunsStay
        <3> QED
            BY <1>8, <2>2, <3>2
    <2> QED
        BY <2>1, <2>2
<1>13. RunsOrdered'
    <2>1. \A i, j \in 1..n : i < j => old[i].last < old[j].first
        BY <1>7, <1>8 DEF LoopInv, RunsOrdered
    <2>2. \A i, j \in 1..n : i < j => new[i].last < new[j].first
        BY <1>8, <1>10, <2>1
    <2> QED
        BY <1>7, <1>8, <2>2 DEF RunsOrdered
<1>14. NothingLost'
    <2>1. \A i \in 1..n : old[i].items \subseteq new[i].items
        BY <1>5, <1>8
    <2>2. e \in new[n].items /\ n \in 1..n
        BY <1>5, <1>8
    <2> QED
        BY <1>2, <1>7, <1>8, <2>1, <2>2 DEF LoopInv, NothingLost
<1>15. RunsParted'
    <2> SUFFICES ASSUME NEW i \in 1..n, i + 1 \in 1..n PROVE Parted(new[i], new[i + 1])'
        BY <1>7, <1>8 DEF RunsParted
    <2>1. Parted(old[i], old[i + 1])
        BY <1>7, <1>8 DEF LoopInv, RunsParted
    <2>2. new[i].last = old[i].last /\ new[i + 1].first = old[i + 1].first
        BY <1>8, <1>10
    <2> QED
        BY <1>2, <2>1, <2>2 DEF Parted
<1>16. EndOfRun'
    <2>1. \A x \in scanned' : x <= e
        BY <1>2, <1>3
    <2> QED
        BY <1>4, <1>5, <2>1 DEF EndOfRun
<1> QED
    BY <1>2, <1>9, <1>12, <1>13, <1>14, <1>15, <1>16 DEF LoopInv

\* An item of another place begins a run.
LEMMA BeginStep ==
    ASSUME TypeOK, LoopInv, NEW e \in observed, Begin(e)
    PROVE  LoopInv'
<1>1. /\ Read(e) /\ PlaceOf(e) # None /\ ~Continues(e)
      /\ found' = Closed /\ current' = RunOf(e)
    BY DEF Begin
<1>2. /\ LoopTypeOK /\ PrefixScanned
      /\ e \in Events /\ e \in Nat /\ \A d \in scanned : d < e
      /\ scanned' = scanned \cup {e} /\ scanned' \subseteq observed'
      /\ scanning /\ scanning' /\ PrefixScanned'
      /\ \A x : PlaceOf(x)' = PlaceOf(x)
    BY <1>1, ReadEffect DEF LoopInv
<1>3. scanned \subseteq Nat
    BY <1>1, <1>2, ReadEffect DEF LoopTypeOK
<1>4. PICK run, old, new, n : /\ run = RunOf(e) /\ old = Closed /\ new = Append(Closed, run)
                              /\ n = Len(Closed) + 1
    OBVIOUS
<1>5. /\ run \in RunLists /\ old \in Seq(RunLists)
      /\ run.first = e /\ run.last = e /\ run.items = {e} /\ run.items # {}
    BY <1>2, <1>4, RunListType
<1>6. Closed = old /\ Closed' = new
    BY <1>1, <1>4, <1>5 DEF Closed
<1>7. /\ DOMAIN old = 1..(n - 1) /\ DOMAIN new = 1..n /\ n \in Nat /\ n > 0
      /\ \A i \in 1..(n - 1) : new[i] = old[i] /\ old[i] \in RunLists
      /\ new[n] = run
    BY <1>4, <1>5, OneMoreRun
<1>8. LoopTypeOK'
    BY <1>1, <1>2, <1>4, <1>5 DEF LoopTypeOK
<1>9. Whole(run)'
    <2>1. \A x \in scanned' : e <= x /\ x <= e => x = e
        BY <1>2, <1>3
    <2> QED
        BY <1>1, <1>2, <1>5, <2>1 DEF Whole
<1>10. \A i \in 1..(n - 1) : Whole(old[i]) /\ old[i].last \in scanned
    BY <1>6, <1>7 DEF LoopInv, RunsWhole, Whole
<1>11. RunsWhole'
    <2> SUFFICES ASSUME NEW i \in 1..n PROVE Whole(new[i])'
        BY <1>6, <1>7 DEF RunsWhole
    <2>1. CASE i = n
        BY <1>7, <1>9, <2>1
    <2>2. CASE i # n
        <3>1. i \in 1..(n - 1)
            BY <1>7, <2>2
        <3>2. Whole(old[i])'
            BY <1>1, <1>2, <1>7, <1>10, <3>1, RunsStay
        <3> QED
            BY <1>7, <3>1, <3>2
    <2> QED
        BY <2>1, <2>2
<1>12. RunsOrdered'
    <2>1. \A i, j \in 1..(n - 1) : i < j => old[i].last < old[j].first
        BY <1>6, <1>7 DEF LoopInv, RunsOrdered
    <2>2. \A i, j \in 1..n : i < j => new[i].last < new[j].first
        BY <1>2, <1>5, <1>7, <1>10, <2>1
    <2> QED
        BY <1>6, <1>7, <2>2 DEF RunsOrdered
<1>13. NothingLost'
    <2>1. e \in new[n].items /\ n \in 1..n /\ 1..(n - 1) \subseteq 1..n
        BY <1>5, <1>7
    <2> QED
        BY <1>2, <1>6, <1>7, <2>1 DEF LoopInv, NothingLost
<1>14. RunsParted'
    <2> SUFFICES ASSUME NEW i \in 1..n, i + 1 \in 1..n PROVE Parted(new[i], new[i + 1])'
        BY <1>6, <1>7 DEF RunsParted
    <2>1. i \in 1..(n - 1) /\ new[i] = old[i]
        BY <1>7
    <2>2. CASE i + 1 # n
        <3>1. i + 1 \in 1..(n - 1) /\ new[i + 1] = old[i + 1]
            BY <1>7, <2>2
        <3>2. Parted(old[i], old[i + 1])
            BY <1>6, <1>7, <2>1, <3>1 DEF LoopInv, RunsParted
        <3> QED
            BY <1>2, <2>1, <3>1, <3>2 DEF Parted
    <2>3. CASE i + 1 = n
        <3>1. new[i + 1].first = e /\ old[i].last \in scanned
            BY <1>5, <1>7, <1>10, <2>1, <2>3
        <3>2. CASE current.items # {}
            <4>1. old = Append(found, current)
                BY <1>4, <3>2 DEF Closed
            <4>2. current \in RunLists /\ found \in Seq(RunLists)
                BY <1>2 DEF LoopTypeOK
            <4>3. old[i] = current
                BY <1>4, <2>3, <4>1, <4>2
            <4>4. PlaceOf(old[i].last) # PlaceOf(e)
                BY <1>1, <3>2, <4>3 DEF Continues
            <4> QED
                BY <1>2, <2>1, <3>1, <4>4 DEF Parted
        <3>3. CASE current.items = {}
            <4>1. PlaceOf(old[i].last) # None
                BY <1>10, <2>1 DEF Whole
            <4>2. PICK d \in scanned : old[i].last < d /\ PlaceOf(d) = None
                BY <3>1, <3>3, <4>1 DEF LoopInv, EndOfRun
            <4> QED
                BY <1>2, <2>1, <3>1, <4>2 DEF Parted
        <3> QED
            BY <3>2, <3>3
    <2> QED
        BY <2>2, <2>3
<1>15. EndOfRun'
    <2>1. \A x \in scanned' : x <= e
        BY <1>2, <1>3
    <2> QED
        BY <1>1, <1>4, <1>5, <2>1 DEF EndOfRun
<1> QED
    BY <1>2, <1>8, <1>11, <1>12, <1>13, <1>14, <1>15 DEF LoopInv

\* Before the loop has read anything, nothing is found.
Unread == scanning \in BOOLEAN /\ scanned = {} /\ current = NoRun /\ found = <<>>

LEMMA NothingRead == Unread => LoopInv
<1> SUFFICES ASSUME Unread PROVE LoopInv
    OBVIOUS
<1>0. scanning \in BOOLEAN /\ scanned = {} /\ current = NoRun /\ found = <<>>
    BY DEF Unread
<1>1. NoRun \in RunLists /\ NoRun.items = {}
    BY DEF NoRun, RunLists
<1>2. Closed = <<>>
    BY <1>0, <1>1 DEF Closed
<1>3. LoopTypeOK
    BY <1>0, <1>1 DEF LoopTypeOK, AtRest
<1> QED
    BY <1>0, <1>1, <1>2, <1>3
       DEF LoopInv, PrefixScanned, RunsWhole, RunsOrdered, NothingLost, RunsParted, EndOfRun

LEMMA LoopInit == SegmentationInit => LoopInv
BY NothingRead DEF SegmentationInit, AtRest, Unread

\* Every step of the loop keeps the invariant.
LEMMA LoopStep == TypeOK /\ LoopInv /\ [SegmentationNext]_segmentationVars => LoopInv'
<1> SUFFICES ASSUME TypeOK, LoopInv, [SegmentationNext]_segmentationVars PROVE LoopInv'
    OBVIOUS
<1>1. ASSUME scanning' \in BOOLEAN, scanned' = {}, current' = NoRun, found' = <<>>
      PROVE  LoopInv'
    <2>1. Unread'
        BY <1>1 DEF Unread
    <2> QED
        BY <2>1, NothingRead, PTL
<1>2. ~scanning => AtRest
    BY DEF LoopInv, LoopTypeOK
<1>3. CASE StartScan
    BY <1>1, <1>2, <1>3 DEF StartScan, AtRest
<1>4. ASSUME NEW e \in observed, Interrupt(e) \/ Extend(e) \/ Begin(e) PROVE LoopInv'
    BY <1>4, InterruptStep, ExtendStep, BeginStep
<1>5. CASE Finish
    BY <1>1, <1>5, Zenon DEF Finish
<1>6. CASE RollBack
    BY <1>1, <1>6 DEF RollBack
<1>7. CASE Elsewhere
    BY <1>1, <1>2, <1>7 DEF Elsewhere, loopVars, AtRest
<1>8. CASE UNCHANGED segmentationVars
    <2>1. /\ scanning' = scanning /\ scanned' = scanned /\ current' = current /\ found' = found
          /\ observed' = observed /\ versions' = versions
        BY <1>8 DEF segmentationVars, loopVars, vars
    <2>2. Closed' = Closed /\ \A x : PlaceOf(x)' = PlaceOf(x)
        BY <2>1 DEF Closed, PlaceOf
    <2>3. LoopTypeOK' /\ PrefixScanned' /\ RunsWhole'
        BY <2>1, <2>2
           DEF LoopInv, LoopTypeOK, AtRest, PrefixScanned, RunsWhole, Whole
    <2>4. RunsOrdered' /\ NothingLost' /\ RunsParted' /\ EndOfRun'
        BY <2>1, <2>2 DEF LoopInv, RunsOrdered, NothingLost, RunsParted, Parted, EndOfRun
    <2> QED
        BY <2>3, <2>4 DEF LoopInv
<1> QED
    BY <1>3, <1>4, <1>5, <1>6, <1>7, <1>8 DEF SegmentationNext

-----------------------------------------------------------------------------
(***************************************************************************)
(* What the loop has found when it ends                                    *)
(***************************************************************************)

Ends(run) == [first |-> run.first, last |-> run.last]

\* The runs lie in their order, so every one is over before a later one begins.
LEMMA RunBounds ==
    ASSUME TypeOK, LoopInv, NEW i \in DOMAIN Closed
    PROVE  /\ Closed[i].first \in Nat /\ Closed[i].last \in Nat
           /\ Closed[i].first \in scanned /\ Closed[i].last \in scanned
           /\ Closed[i].first <= Closed[i].last
           /\ PlaceOf(Closed[i].first) \in Places
           /\ PlaceOf(Closed[i].last) = PlaceOf(Closed[i].first)
           /\ \A e \in Closed[i].items :
                 /\ e \in scanned /\ e \in Nat
                 /\ Closed[i].first <= e /\ e <= Closed[i].last
                 /\ PlaceOf(e) = PlaceOf(Closed[i].first)
           /\ \A j \in DOMAIN Closed : i < j => Closed[i].last < Closed[j].first
<1>1. scanned \subseteq Events /\ Events \subseteq Nat
    BY DerivationAssumption DEF LoopInv, LoopTypeOK, TypeOK
<1>2. Whole(Closed[i])
    BY DEF LoopInv, RunsWhole
<1>3. PlaceOf(Closed[i].first) \in Places
    BY <1>1, <1>2, PlaceType DEF Whole
<1>4. \A j \in DOMAIN Closed : i < j => Closed[i].last < Closed[j].first
    BY DEF LoopInv, RunsOrdered
<1> QED
    BY <1>1, <1>2, <1>3, <1>4 DEF Whole

LEMMA ClosedIndex ==
    ASSUME LoopInv
    PROVE  /\ Closed \in Seq(RunLists) /\ Len(Closed) \in Nat
           /\ DOMAIN Closed = 1..Len(Closed)
BY DEF Closed, LoopInv, LoopTypeOK

\* Nothing of the same place continues a run before its beginning.
LEMMA NothingBefore ==
    ASSUME TypeOK, LoopInv, scanned = observed, NEW i \in DOMAIN Closed,
           NEW e \in Stay(PlaceOf(Closed[i].first)), e < Closed[i].first
    PROVE  ~Unbroken(Stay(PlaceOf(Closed[i].first)), e, Closed[i].last)
<1> DEFINE p == PlaceOf(Closed[i].first)
<1> SUFFICES ASSUME Unbroken(Stay(p), e, Closed[i].last) PROVE FALSE
    OBVIOUS
<1>1. e \in observed /\ e \in Nat /\ PlaceOf(e) = p /\ p # None /\ observed \subseteq Nat
    BY RunBounds, DerivationAssumption DEF Stay, TypeOK
<1>2. PICK j \in DOMAIN Closed : e \in Closed[j].items
    BY <1>1 DEF LoopInv, NothingLost
<1>3. e <= Closed[j].last /\ Closed[j].last \in Nat
    BY <1>2, RunBounds
<1>4. j < i
    <2>1. ~(i < j) /\ j # i
        BY <1>2, RunBounds
    <2> QED
        BY <2>1, ClosedIndex
<1>5. i - 1 \in DOMAIN Closed /\ i - 1 >= j
    BY <1>4, ClosedIndex
<1> DEFINE r == Closed[i - 1]
<1>6. r.last \in observed /\ r.last \in Nat /\ r.last < Closed[i].first /\ e <= r.last
    <2>1. r.last \in observed /\ r.last \in Nat /\ r.first <= r.last
        BY <1>5, RunBounds
    <2>2. r.last < Closed[i].first
        BY <1>5, RunBounds, ClosedIndex
    <2>3. CASE i - 1 = j
        BY <1>3, <2>1, <2>2, <2>3
    <2>4. CASE i - 1 # j
        <3>1. Closed[j].last < r.first /\ r.first \in Nat
            BY <1>5, <2>4, RunBounds, ClosedIndex
        <3> QED
            BY <1>1, <1>3, <2>1, <2>2, <3>1
    <2> QED
        BY <2>3, <2>4
<1>7. Closed[i].first \in Nat /\ Closed[i].last \in Nat /\ Closed[i].first <= Closed[i].last
    BY RunBounds
<1>8. PlaceOf(r.last) = p
    BY <1>1, <1>6, <1>7 DEF Unbroken, Stay
<1>9. PICK d \in observed : r.last < d /\ d < Closed[i].first /\ PlaceOf(d) = None
    <2>1. Parted(r, Closed[i])
        <3>1. i \in Nat /\ i = (i - 1) + 1
            BY ClosedIndex
        <3> QED
            BY <1>5, <3>1 DEF LoopInv, RunsParted
    <2> QED
        BY <1>8, <2>1 DEF Parted
<1>10. d \in Stay(p)
    BY <1>1, <1>6, <1>7, <1>9 DEF Unbroken
<1> QED
    BY <1>1, <1>9, <1>10 DEF Stay

\* Nor after its end.
LEMMA NothingAfter ==
    ASSUME TypeOK, LoopInv, scanned = observed, NEW i \in DOMAIN Closed,
           NEW e \in Stay(PlaceOf(Closed[i].first)), Closed[i].last < e
    PROVE  ~Unbroken(Stay(PlaceOf(Closed[i].first)), Closed[i].first, e)
<1> DEFINE p == PlaceOf(Closed[i].first)
<1> SUFFICES ASSUME Unbroken(Stay(p), Closed[i].first, e) PROVE FALSE
    OBVIOUS
<1>1. e \in observed /\ e \in Nat /\ PlaceOf(e) = p /\ p # None /\ observed \subseteq Nat
    BY RunBounds, DerivationAssumption DEF Stay, TypeOK
<1>2. PICK j \in DOMAIN Closed : e \in Closed[j].items
    BY <1>1 DEF LoopInv, NothingLost
<1>3. Closed[j].first <= e /\ Closed[j].first \in Nat
    BY <1>2, RunBounds
<1>7. Closed[i].first \in Nat /\ Closed[i].last \in Nat /\ Closed[i].first <= Closed[i].last
    BY RunBounds
<1>4. i < j
    <2>1. ~(j < i) /\ j # i
        <3>1. j # i
            BY <1>1, <1>2, <1>7, RunBounds
        <3>2. j < i => e < Closed[i].first
            BY <1>1, <1>2, <1>7, RunBounds
        <3> QED
            BY <1>1, <1>7, <3>1, <3>2
    <2> QED
        BY <2>1, ClosedIndex
<1>5. i + 1 \in DOMAIN Closed /\ i + 1 <= j
    BY <1>4, ClosedIndex
<1> DEFINE s == Closed[i + 1]
<1>6. s.first \in observed /\ s.first \in Nat /\ Closed[i].last < s.first /\ s.first <= e
    <2>1. s.first \in observed /\ s.first \in Nat /\ s.last \in Nat /\ s.first <= s.last
        BY <1>5, RunBounds
    <2>2. Closed[i].last < s.first
        BY <1>5, RunBounds, ClosedIndex
    <2>3. CASE i + 1 = j
        BY <1>3, <2>1, <2>2, <2>3
    <2>4. CASE i + 1 # j
        <3>1. s.last < Closed[j].first
            BY <1>5, <2>4, RunBounds, ClosedIndex
        <3> QED
            BY <1>1, <1>3, <2>1, <2>2, <3>1
    <2> QED
        BY <2>3, <2>4
<1>8. PlaceOf(s.first) = p
    BY <1>1, <1>6, <1>7 DEF Unbroken, Stay
<1>9. PICK d \in observed : Closed[i].last < d /\ d < s.first /\ PlaceOf(d) = None
    <2>1. Parted(Closed[i], s)
        BY <1>5, ClosedIndex DEF LoopInv, RunsParted
    <2>2. PlaceOf(Closed[i].last) = p
        BY RunBounds
    <2> QED
        BY <1>8, <2>1, <2>2 DEF Parted
<1>10. d \in Stay(p)
    BY <1>1, <1>6, <1>7, <1>9 DEF Unbroken
<1> QED
    BY <1>1, <1>9, <1>10 DEF Stay

\* A run of the loop is a longest stretch.
LEMMA LoopRunIsRun ==
    ASSUME TypeOK, LoopInv, scanned = observed, NEW i \in DOMAIN Closed
    PROVE  Ends(Closed[i]) \in Runs
<1> DEFINE p == PlaceOf(Closed[i].first)
           r == Ends(Closed[i])
<1>1. /\ Closed[i].first \in Stay(p) /\ Closed[i].last \in Stay(p) /\ p \in Places
      /\ Closed[i].first <= Closed[i].last
    BY RunBounds DEF Stay
<1>2. r \in [first : Stay(p), last : Stay(p)] /\ r.first = Closed[i].first /\ r.last = Closed[i].last
    BY <1>1 DEF Ends
<1>3. Unbroken(Stay(p), r.first, r.last)
    <2>1. Whole(Closed[i])
        BY DEF LoopInv, RunsWhole
    <2> QED
        BY <1>2, <2>1 DEF Unbroken, Whole, Stay
<1>4. \A e \in Stay(p) : /\ e < r.first => ~Unbroken(Stay(p), e, r.last)
                         /\ r.last < e => ~Unbroken(Stay(p), r.first, e)
    BY <1>2, NothingBefore, NothingAfter
<1> HIDE DEF r
<1>5. r \in Stretches(Stay(p))
    BY <1>1, <1>2, <1>3, <1>4 DEF Stretches
<1> QED
    BY <1>1, <1>5 DEF Runs, Stay, r

\* Every longest stretch is one of the loop's runs.
LEMMA RunIsLoopRun ==
    ASSUME TypeOK, LoopInv, scanned = observed, NEW run \in Runs
    PROVE  \E i \in DOMAIN Closed : Ends(Closed[i]) = run
<1>1. /\ run.first \in observed /\ run.last \in observed /\ run.first <= run.last
      /\ PlaceOf(run.first) # None /\ observed \subseteq Events /\ observed \subseteq Nat
    BY RunType, DerivationAssumption DEF TypeOK
<1>2. PICK i \in DOMAIN Closed : run.first \in Closed[i].items
    BY <1>1 DEF LoopInv, NothingLost
<1>3. Ends(Closed[i]) \in Runs
    BY LoopRunIsRun
<1>4. Ends(Closed[i]).first <= run.first /\ run.first <= Ends(Closed[i]).last
    BY <1>2, RunBounds DEF Ends
<1>5. /\ ~(run.last < Ends(Closed[i]).first) /\ ~(Ends(Closed[i]).last < run.first)
    <2>1. Ends(Closed[i]).first \in Nat /\ Ends(Closed[i]).last \in Nat
        BY RunBounds DEF Ends
    <2>2. run.first \in Nat /\ run.last \in Nat
        BY <1>1
    <2>3. ASSUME NEW a \in Nat, NEW b \in Nat, NEW c \in Nat, NEW d \in Nat,
                 c <= a, a <= d, a <= b
          PROVE  ~(b < c) /\ ~(d < a)
        BY <2>3
    <2> QED
        BY <1>1, <1>4, <2>1, <2>2, <2>3
<1> QED
    BY <1>1, <1>3, <1>5, RunsApart

\* The runs found are the runs of Derivation, in their order.
LEMMA LoopFindsRuns == TypeOK /\ LoopInv => RunsFound
<1> SUFFICES ASSUME TypeOK, LoopInv, scanned = observed
             PROVE  /\ {Ends(Closed[i]) : i \in DOMAIN Closed} = Runs
                    /\ \A i, j \in DOMAIN Closed : i < j => Closed[i].last < Closed[j].first
    BY DEF RunsFound, Ends
<1> QED
    BY LoopRunIsRun, RunIsLoopRun DEF LoopInv, RunsOrdered

-----------------------------------------------------------------------------
(***************************************************************************)
(* What is derived from the runs found                                     *)
(***************************************************************************)

\* The visits of the loop are the visits of Derivation.
LEMMA LoopVisits ==
    ASSUME TypeOK, LoopInv, scanned = observed
    PROVE  {VisitOf(Closed[i]) : i \in DOMAIN Closed} = Visits
<1>1. ASSUME NEW i \in DOMAIN Closed PROVE VisitOf(Closed[i]) \in Visits
    <2>1. Ends(Closed[i]) \in Runs
        BY LoopRunIsRun
    <2> QED
        BY <2>1 DEF Visits, VisitOf, Ends
<1>2. ASSUME NEW run \in Runs
      PROVE  \E i \in DOMAIN Closed :
                VisitOf(Closed[i]) = Record("visit", run.first, run.last, PlaceOf(run.first))
    <2>1. PICK i \in DOMAIN Closed : Ends(Closed[i]) = run
        BY RunIsLoopRun
    <2>2. Closed[i].first = run.first /\ Closed[i].last = run.last
        BY <2>1 DEF Ends
    <2> QED
        BY <2>2 DEF VisitOf
<1> QED
    BY <1>1, <1>2 DEF Visits

\* Neighbours in the list are neighbours among the runs: there is none between.
LEMMA LoopMoveIsMove ==
    ASSUME TypeOK, LoopInv, scanned = observed, NEW m \in ConsecutiveMoves(Closed)
    PROVE  [from |-> Ends(m.from), to |-> Ends(m.to)] \in Moves
<1>1. PICK i \in DOMAIN Closed :
         /\ i < Len(Closed) /\ PlaceOf(Closed[i].last) # PlaceOf(Closed[i + 1].first)
         /\ m = [from |-> Closed[i], to |-> Closed[i + 1]]
    BY DEF ConsecutiveMoves
<1>2. i \in Nat /\ i + 1 \in DOMAIN Closed /\ DOMAIN Closed \subseteq Nat
    BY <1>1, ClosedIndex
<1>3. m.from = Closed[i] /\ m.to = Closed[i + 1]
    BY <1>1
<1>4. Ends(m.from) \in Runs /\ Ends(m.to) \in Runs
    BY <1>2, <1>3, LoopRunIsRun
<1>5. /\ Ends(m.from).last = Closed[i].last
      /\ Ends(m.to).first = Closed[i + 1].first
    BY <1>3 DEF Ends
<1>6. Closed[i].last < Closed[i + 1].first
    BY <1>2, RunBounds
<1>7. ASSUME NEW other \in Runs
      PROVE  other.last <= Closed[i].last \/ Closed[i + 1].first <= other.first
    <2>1. PICK k \in DOMAIN Closed : Ends(Closed[k]) = other
        BY RunIsLoopRun
    <2>2. other.first = Closed[k].first /\ other.last = Closed[k].last
        BY <2>1 DEF Ends
    <2>3. k < i \/ k = i \/ k = i + 1 \/ i + 1 < k
        BY <1>2
    <2>4. /\ Closed[k].first \in Nat /\ Closed[k].last \in Nat
          /\ Closed[k].first <= Closed[k].last
          /\ Closed[i].first \in Nat /\ Closed[i].last \in Nat
          /\ Closed[i].first <= Closed[i].last
          /\ Closed[i + 1].first \in Nat /\ Closed[i + 1].last \in Nat
          /\ Closed[i + 1].first <= Closed[i + 1].last
        BY <1>2, RunBounds
    <2>5. /\ k < i => Closed[k].last < Closed[i].first
          /\ i + 1 < k => Closed[i + 1].last < Closed[k].first
        BY <1>2, RunBounds
    <2> QED
        BY <2>2, <2>3, <2>4, <2>5
<1> QED
    BY <1>1, <1>4, <1>5, <1>6, <1>7 DEF Moves

LEMMA MoveIsLoopMove ==
    ASSUME TypeOK, LoopInv, scanned = observed, NEW n \in Moves
    PROVE  \E m \in ConsecutiveMoves(Closed) :
              m.from.last = n.from.last /\ m.to.first = n.to.first
<1>1. /\ n.from \in Runs /\ n.to \in Runs /\ n.from.last < n.to.first
      /\ \A other \in Runs : other.last <= n.from.last \/ n.to.first <= other.first
      /\ PlaceOf(n.from.last) # PlaceOf(n.to.first)
    BY DEF Moves
<1>2. PICK i \in DOMAIN Closed : Ends(Closed[i]) = n.from
    BY <1>1, RunIsLoopRun
<1>3. PICK j \in DOMAIN Closed : Ends(Closed[j]) = n.to
    BY <1>1, RunIsLoopRun
<1>4. Closed[i].last = n.from.last /\ Closed[j].first = n.to.first
    BY <1>2, <1>3 DEF Ends
<1>5. DOMAIN Closed = 1..Len(Closed) /\ Len(Closed) \in Nat /\ i \in Nat /\ j \in Nat
    BY ClosedIndex
<1>6. /\ Closed[i].first \in Nat /\ Closed[i].last \in Nat
      /\ Closed[i].first <= Closed[i].last
      /\ Closed[j].first \in Nat /\ Closed[j].last \in Nat
      /\ Closed[j].first <= Closed[j].last
      /\ j < i => Closed[j].last < Closed[i].first
    BY RunBounds
<1>7. i < j
    BY <1>1, <1>4, <1>5, <1>6
<1>8. j = i + 1
    <2> SUFFICES ASSUME i + 1 < j PROVE FALSE
        BY <1>5, <1>7
    <2>1. i + 1 \in DOMAIN Closed
        BY <1>5
    <2>2. /\ Closed[i].last < Closed[i + 1].first /\ Closed[i + 1].last < Closed[j].first
          /\ Closed[i + 1].first \in Nat /\ Closed[i + 1].last \in Nat
          /\ Closed[i + 1].first <= Closed[i + 1].last
        BY <1>5, <2>1, RunBounds
    <2>3. Ends(Closed[i + 1]) \in Runs
        BY <2>1, LoopRunIsRun
    <2>4. Closed[i + 1].last <= Closed[i].last \/ Closed[j].first <= Closed[i + 1].first
        BY <1>1, <1>4, <2>3 DEF Ends
    <2> QED
        BY <1>6, <2>2, <2>4
<1>9. [from |-> Closed[i], to |-> Closed[i + 1]] \in ConsecutiveMoves(Closed)
    BY <1>1, <1>4, <1>5, <1>8 DEF ConsecutiveMoves
<1> QED
    BY <1>4, <1>8, <1>9

\* So the transitions and trips are those of Derivation.
LEMMA LoopMoves ==
    ASSUME TypeOK, LoopInv, scanned = observed
    PROVE  /\ Transitions(ConsecutiveMoves(Closed)) = Transitions(Moves)
           /\ Trips(ConsecutiveMoves(Closed)) = Trips(Moves)
<1> DEFINE zipped == ConsecutiveMoves(Closed)
           moves == Moves
<1>1. \A m \in zipped : \E n \in moves : m.from.last = n.from.last /\ m.to.first = n.to.first
    <2> SUFFICES ASSUME NEW m \in zipped
                 PROVE  \E n \in moves : m.from.last = n.from.last /\ m.to.first = n.to.first
        OBVIOUS
    <2> DEFINE n == [from |-> Ends(m.from), to |-> Ends(m.to)]
    <2>1. n \in moves
        BY LoopMoveIsMove
    <2>2. n.from.last = m.from.last /\ n.to.first = m.to.first
        BY DEF Ends
    <2> QED
        BY <2>1, <2>2
<1>2. \A n \in moves : \E m \in zipped : m.from.last = n.from.last /\ m.to.first = n.to.first
    BY MoveIsLoopMove
<1> HIDE DEF zipped, moves
<1>3. Trips(zipped) = Trips(moves)
    BY <1>1, <1>2 DEF Trips
<1>4. Transitions(zipped) = Transitions(moves)
    <2>1. \A S, r : r \in Transitions(S) <=>
             \E m \in S :
                \/ r = Record("departure", m.from.last, m.from.last, PlaceOf(m.from.last))
                \/ r = Record("arrival", m.to.first, m.to.first, PlaceOf(m.to.first))
        BY DEF Transitions
    <2>2. \A r : r \in Transitions(zipped) <=> r \in Transitions(moves)
        BY <1>1, <1>2, <2>1
    <2> QED
        BY <2>2, Zenon DEF Transitions
<1> QED
    BY <1>3, <1>4 DEF zipped, moves

\* A run that is not the last one is followed by evidence of a place, and no other.
LEMMA CompleteIsFollowed ==
    ASSUME TypeOK, LoopInv, scanned = observed, NEW i \in DOMAIN Closed
    PROVE  i < Len(Closed)
              <=> \E e \in observed : Closed[i].last < e /\ PlaceOf(e) # None
<1>1. DOMAIN Closed = 1..Len(Closed) /\ Len(Closed) \in Nat /\ i \in Nat
    BY ClosedIndex
<1>2. ASSUME i < Len(Closed)
      PROVE  \E e \in observed : Closed[i].last < e /\ PlaceOf(e) # None
    <2>1. i + 1 \in DOMAIN Closed
        BY <1>1, <1>2
    <2>2. /\ Closed[i].last < Closed[i + 1].first
          /\ Closed[i + 1].first \in observed /\ PlaceOf(Closed[i + 1].first) # None
        BY <1>1, <2>1, RunBounds, DerivationAssumption
    <2> QED
        BY <2>2
<1>3. ASSUME NEW e \in observed, Closed[i].last < e, PlaceOf(e) # None
      PROVE  i < Len(Closed)
    <2>1. PICK j \in DOMAIN Closed : e \in Closed[j].items
        BY <1>3 DEF LoopInv, NothingLost
    <2>2. /\ Closed[j].first \in Nat /\ Closed[j].last \in Nat /\ e \in Nat /\ e <= Closed[j].last
          /\ Closed[i].first \in Nat /\ Closed[i].last \in Nat
          /\ Closed[i].first <= Closed[i].last
          /\ j < i => Closed[j].last < Closed[i].first
        BY <2>1, RunBounds
    <2>3. ~(j < i) /\ j # i
        BY <1>3, <2>2
    <2> QED
        BY <1>1, <2>3
<1> QED
    BY <1>2, <1>3

\* Which visits are confirmed.
LEMMA LoopSettled ==
    ASSUME TypeOK, LoopInv, scanned = observed
    PROVE  ConfirmedVisits(Closed) = {r \in Visits : Settled(r)}
<1>1. ASSUME NEW i \in DOMAIN Closed
      PROVE  Settled(VisitOf(Closed[i]))
                <=> i < Len(Closed) /\ Time[Closed[i].last] - Time[Closed[i].first] >= Dwell
    <2>1. /\ VisitOf(Closed[i]).kind = "visit" /\ VisitOf(Closed[i]).first = Closed[i].first
          /\ VisitOf(Closed[i]).last = Closed[i].last
        BY DEF VisitOf, Record
    <2> QED
        BY <2>1, CompleteIsFollowed DEF Settled
<1>2. Visits = {VisitOf(Closed[i]) : i \in DOMAIN Closed}
    BY LoopVisits
<1>3. \A r : r \in ConfirmedVisits(Closed) <=>
         \E i \in DOMAIN Closed :
            /\ r = VisitOf(Closed[i])
            /\ i < Len(Closed) /\ Time[Closed[i].last] - Time[Closed[i].first] >= Dwell
    BY DEF ConfirmedVisits
<1>4. \A r : r \in ConfirmedVisits(Closed) <=> r \in Visits /\ Settled(r)
    BY <1>1, <1>2, <1>3
<1> QED
    BY <1>4

\* The evidence filed for a visit is the list of its run.
LEMMA LoopEvidence ==
    ASSUME TypeOK, LoopInv, scanned = observed, NEW i \in DOMAIN Closed
    PROVE  Closed[i].items = Supports(VisitOf(Closed[i]))
<1>1. /\ VisitOf(Closed[i]).kind = "visit" /\ VisitOf(Closed[i]).first = Closed[i].first
      /\ VisitOf(Closed[i]).last = Closed[i].last
    BY DEF VisitOf, Record
<1>2. Supports(VisitOf(Closed[i]))
         = {e \in observed : Closed[i].first <= e /\ e <= Closed[i].last}
    BY <1>1 DEF Supports
<1>3. Whole(Closed[i])
    BY DEF LoopInv, RunsWhole
<1> QED
    BY <1>2, <1>3 DEF Whole

\* The end of the loop is one derivation.
LEMMA FinishDerives ==
    ASSUME TypeOK, LoopInv, Finish
    PROVE  Derive
<1> DEFINE visits == {VisitOf(Closed[i]) : i \in DOMAIN Closed}
           others == Gaps \cup Transitions(ConsecutiveMoves(Closed))
                          \cup Trips(ConsecutiveMoves(Closed))
           filed == DerivedEvidence(others)
                       \cup UNION {{VisitOf(Closed[i])} \X Closed[i].items : i \in DOMAIN Closed}
           settled == ConfirmedVisits(Closed) \cup others
<1>1. scanned = observed /\ Merge(visits \cup others, settled, filed)
    BY Zenon DEF Finish
<1>2. visits = Visits /\ others = Gaps \cup Transitions(Moves) \cup Trips(Moves)
    BY <1>1, LoopVisits, LoopMoves, Zenon
<1>3. visits \cup others = Derived
    BY <1>2, Zenon DEF Derived
<1>4. settled = {r \in Derived : Settled(r)}
    <2>1. \A r \in others : r.kind # "visit"
        BY <1>2 DEF Gaps, Transitions, Trips, Record
    <2>2. \A r \in others : Settled(r)
        BY <2>1 DEF Settled
    <2>3. ConfirmedVisits(Closed) = {r \in visits : Settled(r)}
        BY <1>1, <1>2, LoopSettled
    <2> QED
        BY <1>3, <2>2, <2>3
<1>5. filed = DerivedEvidence(Derived)
    <2>1. UNION {{VisitOf(Closed[i])} \X Closed[i].items : i \in DOMAIN Closed}
             = DerivedEvidence(visits)
        <3>1. \A i \in DOMAIN Closed : Closed[i].items = Supports(VisitOf(Closed[i]))
            BY <1>1, LoopEvidence
        <3> QED
            BY <3>1 DEF DerivedEvidence
    <2>2. DerivedEvidence(others) \cup DerivedEvidence(visits) = DerivedEvidence(visits \cup others)
        BY DEF DerivedEvidence
    <2> QED
        BY <1>3, <2>1, <2>2, Zenon
<1> HIDE DEF visits, others, filed, settled
<1>6. Merge(Derived, {r \in Derived : Settled(r)}, DerivedEvidence(Derived))
    BY <1>1, <1>3, <1>4, <1>5, Zenon
<1> QED
    BY <1>6, Zenon DEF Derive

-----------------------------------------------------------------------------
(***************************************************************************)
(* The theorems                                                            *)
(***************************************************************************)

\* Every step of the loop is a step of Derivation or leaves its tables as they are.
LEMMA LoopRefines ==
    ASSUME TypeOK, LoopInv, [SegmentationNext]_segmentationVars
    PROVE  [Next]_vars
<1>1. CASE Finish
    BY <1>1, FinishDerives DEF Next
<1>2. CASE Elsewhere
    BY <1>2 DEF Elsewhere, Next
<1>3. ASSUME NEW e \in observed, Interrupt(e) \/ Extend(e) \/ Begin(e) PROVE UNCHANGED vars
    BY <1>3 DEF Interrupt, Extend, Begin, Read
<1>4. CASE StartScan \/ RollBack \/ UNCHANGED segmentationVars
    BY <1>4 DEF StartScan, RollBack, segmentationVars
<1> QED
    BY <1>1, <1>2, <1>3, <1>4 DEF SegmentationNext

LEMMA LoopSpecInv == SegmentationSpec => [](TypeOK /\ LoopInv)
<1>1. SegmentationInit => TypeOK /\ LoopInv
    BY InitType, LoopInit DEF SegmentationInit
<1>2. TypeOK /\ LoopInv /\ [SegmentationNext]_segmentationVars => (TypeOK /\ LoopInv)'
    <2> SUFFICES ASSUME TypeOK, LoopInv, [SegmentationNext]_segmentationVars
                 PROVE  (TypeOK /\ LoopInv)'
        OBVIOUS
    <2>1. TypeOK'
        BY LoopRefines, TypeStep
    <2>2. LoopInv'
        BY LoopStep
    <2> QED
        BY <2>1, <2>2
<1> QED
    BY <1>1, <1>2, PTL DEF SegmentationSpec

\* All variables keep their types, and no list of the loop survives its transaction.
THEOREM LoopTypeCorrect == SegmentationSpec => []SegmentationTypeOK
<1>1. TypeOK /\ LoopInv => SegmentationTypeOK
    BY DEF LoopInv, SegmentationTypeOK
<1> QED
    BY <1>1, LoopSpecInv, PTL

\* The one pass over the ordered evidence finds all longest stretches at one place,
\* whatever the evidence.
THEOREM LoopCorrect == SegmentationSpec => []RunsFound
BY LoopSpecInv, LoopFindsRuns, PTL

\* The loop with its positions in a list, cut off at any point, implements the
\* derivation that Derivation states from all the evidence at once.
THEOREM LoopImplementsDerivation == SegmentationSpec => ImplementsDerivation
<1>1. TypeOK /\ LoopInv /\ [SegmentationNext]_segmentationVars => [Next]_vars
    BY LoopRefines
<1>2. SegmentationInit => Init
    BY DEF SegmentationInit
<1> QED
    BY <1>1, <1>2, LoopSpecInv, PTL DEF SegmentationSpec, ImplementsDerivation, Spec
=============================================================================
