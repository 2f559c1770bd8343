-------------------------- MODULE LifecycleProofs ---------------------------
(***************************************************************************)
(* Proofs about Lifecycle, for every set of events, plans, operators and   *)
(* ranges and every retention policy.  What the steps of Derivation keep   *)
(* is taken from DerivationProofs.                                         *)
(***************************************************************************)
EXTENDS Lifecycle, DerivationProofs, FiniteSetTheorems

-----------------------------------------------------------------------------
(***************************************************************************)
(* What a derivation files                                                 *)
(***************************************************************************)

\* The end points of what is derived are observed.
LEMMA DerivedEnds ==
    ASSUME NEW r \in Derived
    PROVE  r.first \in observed /\ r.last \in observed
<1>1. CASE r \in Gaps
    <2>1. PICK g \in observed \X observed : r = Record("coverage_gap", g[1], g[2], None)
        BY <1>1 DEF Gaps
    <2> QED
        BY <2>1 DEF Record
<1>2. CASE r \in Visits
    <2>1. PICK run \in Runs : r = Record("visit", run.first, run.last, PlaceOf(run.first))
        BY <1>2 DEF Visits
    <2> QED
        BY <2>1, RunType DEF Record
<1>3. CASE r \in Transitions(Moves)
    <2>1. PICK m \in Moves :
             \/ r = Record("departure", m.from.last, m.from.last, PlaceOf(m.from.last))
             \/ r = Record("arrival", m.to.first, m.to.first, PlaceOf(m.to.first))
        BY <1>3 DEF Transitions
    <2> QED
        BY <2>1, MoveType, RunType DEF Record
<1>4. CASE r \in Trips(Moves)
    <2>1. PICK m \in Moves : r = Record("trip", m.from.last, m.to.first, None)
        BY <1>4 DEF Trips
    <2> QED
        BY <2>1, MoveType, RunType DEF Record
<1> QED
    BY <1>1, <1>2, <1>3, <1>4 DEF Derived

\* What supports a derived record is observed.
LEMMA DerivedSupports ==
    ASSUME NEW r \in Derived
    PROVE  Supports(r) \subseteq observed
BY DerivedEnds DEF Supports

\* A visit is supported by its end points.
LEMMA VisitSupports ==
    ASSUME observed \subseteq Events, NEW r \in Derived, ~Settled(r)
    PROVE  r.first \in Supports(r) /\ r.last \in Supports(r)
<1>1. r.kind = "visit"
    BY DEF Settled
<1>2. PICK run \in Runs : r = Record("visit", run.first, run.last, PlaceOf(run.first))
    BY <1>1, DerivedKinds DEF Visits
<1>3. r.first = run.first /\ r.last = run.last
    BY <1>2 DEF Record
<1>4. r.first \in observed /\ r.last \in observed /\ r.first <= r.last
    BY <1>3, RunType
<1>5. r.first \in Nat /\ r.last \in Nat
    BY <1>4, DerivationAssumption
<1> QED
    BY <1>1, <1>4, <1>5 DEF Supports

-----------------------------------------------------------------------------
(***************************************************************************)
(* The inductive invariant                                                 *)
(***************************************************************************)

\* A selection holds the reports of the rows it holds.
SelectionClosed ==
    \A o \in Operators : chosen[o] # Nothing =>
        LET s == chosen[o].rows
        IN  /\ s.raw \subseteq Events
            /\ s.observed \subseteq s.raw /\ s.normalized \subseteq s.raw
            /\ s.records \subseteq Records
            /\ s.places \subseteq Places

\* What a provisional record begins and ends with is filed as its evidence: this
\* is what keeps retention away from it.
UnresolvedFiled ==
    \A r \in provisional : \A e \in {r.first, r.last} :
        e \in erased \/ (e \in observed /\ <<r, e>> \in evidence)

LifecycleInvariant ==
    /\ LifecycleTypeOK
    /\ SelectionClosed
    /\ NoDanglingEvidence
    /\ UnresolvedFiled
    /\ EventsTellHistory

\* Records and evidence of a derivation.
DerivationInvariant == NoDanglingEvidence /\ UnresolvedFiled /\ EventsTellHistory

\* The steps of Derivation keep its part.
LEMMA ObserveKeeps ==
    ASSUME TypeOK, DerivationInvariant, NEW e \in Events, Observe(e), erased' = erased
    PROVE  DerivationInvariant'
<1>1. EventsTellHistory'
    BY EventsStep DEF DerivationInvariant, Next
<1>2. /\ observed' = observed \cup {e}
      /\ confirmed' = confirmed /\ superseded' = superseded
    BY DEF Observe
<1>3. CASE Kind[e] \in {"arrival", "departure"}
    <2>1. /\ provisional' = provisional \cup ({SourceOf(e)} \ Rows)
          /\ evidence' = evidence \cup {<<SourceOf(e), e>>}
        BY <1>3 DEF Observe
    <2>2. SourceOf(e).first = e /\ SourceOf(e).last = e
        BY DEF SourceOf, Record
    <2>3. NoDanglingEvidence'
        BY <1>2, <2>1 DEF DerivationInvariant, NoDanglingEvidence, Rows
    <2>4. UnresolvedFiled'
        BY <1>2, <2>1, <2>2 DEF DerivationInvariant, UnresolvedFiled
    <2> QED
        BY <1>1, <2>3, <2>4 DEF DerivationInvariant
<1>4. CASE Kind[e] \notin {"arrival", "departure"}
    <2>1. provisional' = provisional /\ evidence' = evidence
        BY <1>4 DEF Observe
    <2>2. NoDanglingEvidence'
        BY <1>2, <2>1 DEF DerivationInvariant, NoDanglingEvidence, Rows
    <2>3. UnresolvedFiled'
        BY <1>2, <2>1 DEF DerivationInvariant, UnresolvedFiled
    <2> QED
        BY <1>1, <2>2, <2>3 DEF DerivationInvariant
<1> QED
    BY <1>3, <1>4

LEMMA DeriveKeeps ==
    ASSUME TypeOK, DerivationInvariant, Derive, erased' = erased
    PROVE  DerivationInvariant'
<1>1. EventsTellHistory'
    BY EventsStep DEF DerivationInvariant, Next
<1>2. PICK replaced \in SUBSET provisional :
         /\ confirmed' = (confirmed \ Unsupported(Derived))
                            \cup {r \in New(Derived) : Settled(r)}
         /\ provisional' = (provisional \ (Unsupported(Derived) \cup replaced))
                              \cup {r \in New(Derived) : ~Settled(r)}
         /\ superseded' = superseded \cup Unsupported(Derived) \cup replaced
    BY DeriveMoves
<1>3. observed' = observed /\ evidence' = evidence \cup DerivedEvidence(Derived)
    BY DeriveEffect, Zenon
<1>4. Rows \cup Derived \subseteq Rows'
    BY <1>2 DEF Rows, New, Unsupported
<1>5. \A r, e : <<r, e>> \in DerivedEvidence(Derived) <=> r \in Derived /\ e \in Supports(r)
    BY DEF DerivedEvidence
<1>6. NoDanglingEvidence'
    <2>1. DerivedEvidence(Derived) \subseteq Derived \X observed
        BY DerivedSupports DEF DerivedEvidence
    <2> QED
        BY <1>3, <1>4, <2>1 DEF DerivationInvariant, NoDanglingEvidence
<1>7. UnresolvedFiled'
    <2> SUFFICES ASSUME NEW r \in provisional', NEW e \in {r.first, r.last}
                 PROVE  e \in erased \/ (e \in observed /\ <<r, e>> \in evidence')
        BY <1>3 DEF UnresolvedFiled
    <2>1. CASE r \in provisional
        BY <1>3, <2>1 DEF DerivationInvariant, UnresolvedFiled
    <2>2. CASE r \in Derived /\ ~Settled(r)
        BY <1>3, <1>5, <2>2, VisitSupports, DerivedEnds DEF TypeOK
    <2> QED
        BY <1>2, <2>1, <2>2 DEF New
<1> QED
    BY <1>1, <1>6, <1>7 DEF DerivationInvariant

-----------------------------------------------------------------------------
(***************************************************************************)
(* Retention                                                               *)
(***************************************************************************)

\* What a retention run does, without how it chooses.
LEMMA RetainMoves ==
    ASSUME Retain
    PROVE  \E batch \in SUBSET Events, removable \in SUBSET observed :
              /\ \A e \in batch : raw[e] = "stored" /\ ~Held(e)
              /\ \A e \in removable : ~Held(e) /\ ~Unresolved(e)
              /\ raw' = [e \in Events |-> IF e \in batch THEN "scrubbed" ELSE raw[e]]
              /\ observed' = observed \ removable
              /\ evidence' = {pair \in evidence : pair[2] \notin removable}
              /\ normalized' = Needed(observed \ removable)
<1> DEFINE removable == Removable(FirstOf({e \in observed : Time[e] < now - NormAge}))
           due == {e \in Events : raw[e] = "stored" /\ Time[e] < now - RawAge /\ ~Held(e)}
<1>1. removable \in SUBSET observed /\ \A e \in removable : ~Held(e) /\ ~Unresolved(e)
    BY DEF Removable, FirstOf
<1>2. PICK batch \in SUBSET due :
         raw' = [e \in Events |-> IF e \in batch THEN "scrubbed" ELSE raw[e]]
    BY Zenon DEF Retain
<1>3. batch \in SUBSET Events /\ \A e \in batch : raw[e] = "stored" /\ ~Held(e)
    BY <1>2
<1>4. /\ observed' = observed \ removable
      /\ evidence' = {pair \in evidence : pair[2] \notin removable}
      /\ normalized' = Needed(observed \ removable)
    BY Zenon DEF Retain
<1> HIDE DEF removable, due
<1> QED
    BY <1>1, <1>2, <1>3, <1>4

LEMMA RetainKeeps ==
    ASSUME LifecycleInvariant, Retain
    PROVE  LifecycleInvariant'
<1>1. PICK batch \in SUBSET Events, removable \in SUBSET observed :
         /\ \A e \in batch : raw[e] = "stored" /\ ~Held(e)
         /\ \A e \in removable : ~Held(e) /\ ~Unresolved(e)
         /\ raw' = [e \in Events |-> IF e \in batch THEN "scrubbed" ELSE raw[e]]
         /\ observed' = observed \ removable
         /\ evidence' = {pair \in evidence : pair[2] \notin removable}
         /\ normalized' = Needed(observed \ removable)
    BY RetainMoves
<1>2. /\ UNCHANGED <<versions, confirmed, provisional, superseded, replacedBy, outbox, window>>
      /\ UNCHANGED <<job, tombstones, erased, now, holds, plan, chosen>>
    BY Zenon DEF Retain
<1>3. TypeOK'
    BY <1>1, <1>2 DEF LifecycleInvariant, LifecycleTypeOK, TypeOK
<1>4. normalized' \subseteq normalized /\ observed' \subseteq normalized'
    BY <1>1 DEF Needed, LifecycleInvariant, LifecycleTypeOK
<1>5. /\ raw' \in [Events -> {"absent", "stored", "scrubbed"}]
      /\ \A e \in Events : raw'[e] = "absent" <=> raw[e] = "absent"
    BY <1>1 DEF LifecycleInvariant, LifecycleTypeOK
<1>6. LifecycleTypeOK'
    <2>1. \A e \in normalized' : raw'[e] # "absent"
        BY <1>4, <1>5 DEF LifecycleInvariant, LifecycleTypeOK
    <2>2. \A e \in erased' : raw'[e] = "absent"
        BY <1>1, <1>2, <1>5 DEF LifecycleInvariant, LifecycleTypeOK
    <2> QED
        BY <1>2, <1>3, <1>4, <1>5, <2>1, <2>2 DEF LifecycleInvariant, LifecycleTypeOK
<1>7. SelectionClosed'
    BY <1>2 DEF LifecycleInvariant, SelectionClosed
<1>8. NoDanglingEvidence'
    BY <1>1, <1>2 DEF LifecycleInvariant, NoDanglingEvidence, Rows
<1>9. UnresolvedFiled'
    <2> SUFFICES ASSUME NEW r \in provisional, NEW e \in {r.first, r.last}, e \notin erased
                 PROVE  e \in observed' /\ <<r, e>> \in evidence'
        BY <1>2 DEF UnresolvedFiled
    <2>1. e \in observed /\ <<r, e>> \in evidence
        BY DEF LifecycleInvariant, UnresolvedFiled
    <2>2. e \notin removable
        BY <1>1, <2>1 DEF Unresolved
    <2> QED
        BY <1>1, <2>1, <2>2
<1>10. EventsTellHistory'
    BY <1>2 DEF LifecycleInvariant, EventsTellHistory, Rows
<1> QED
    BY <1>6, <1>7, <1>8, <1>9, <1>10 DEF LifecycleInvariant

-----------------------------------------------------------------------------
(***************************************************************************)
(* Deletion                                                                *)
(***************************************************************************)

LEMMA CommitKeeps ==
    ASSUME LifecycleInvariant, NEW o \in Operators, CommitDeletion(o)
    PROVE  LifecycleInvariant'
<1> DEFINE s == chosen[o].rows
<1>1. /\ s.raw \subseteq Events /\ s.observed \subseteq s.raw /\ s.normalized \subseteq s.raw
      /\ s.records \subseteq Records /\ s.places \subseteq Places
    BY DEF CommitDeletion, LifecycleInvariant, SelectionClosed
<1>2. /\ confirmed' = confirmed \ s.records
      /\ provisional' = provisional \ s.records
      /\ superseded' = superseded \ s.records
      /\ replacedBy' = {pair \in replacedBy : pair[1] \notin s.records}
      /\ outbox' = outbox \ EventsOf(s)
      /\ evidence' = evidence \ EvidenceOf(s)
    BY DEF CommitDeletion, EventsDeleted, EvidenceDeleted
<1>3. /\ observed' = observed \ s.observed
      /\ normalized' = normalized \ s.normalized
      /\ versions' = [p \in Places |-> IF p \in s.places THEN <<>> ELSE versions[p]]
      /\ raw' = [e \in Events |-> IF e \in s.raw THEN "absent" ELSE raw[e]]
      /\ job' = [e \in Events |-> IF e \in s.raw THEN "none" ELSE job[e]]
      /\ tombstones' = tombstones \cup s.records
      /\ erased' = erased \cup s.raw \cup s.observed
      /\ chosen' = [chosen EXCEPT ![o] = Nothing]
      /\ window' = window /\ now' = now /\ holds' = holds
    BY DEF CommitDeletion
<1>4. s.raw \cap ((observed \ s.observed) \cup (normalized \ s.normalized)) = {}
    BY DEF CommitDeletion, DependencyActive
<1> HIDE DEF s
<1>5. TypeOK'
    <2>1. versions' \in [Places -> Seq(Versions)]
        BY <1>3 DEF LifecycleInvariant, LifecycleTypeOK, TypeOK
    <2> QED
        BY <1>2, <1>3, <2>1 DEF LifecycleInvariant, LifecycleTypeOK, TypeOK
<1>6. LifecycleTypeOK'
    <2>1. observed' \subseteq normalized'
        BY <1>1, <1>3, <1>4 DEF LifecycleInvariant, LifecycleTypeOK
    <2>2. \A e \in normalized' : raw'[e] # "absent"
        BY <1>3, <1>4 DEF LifecycleInvariant, LifecycleTypeOK
    <2>3. \A e \in erased' : raw'[e] = "absent"
        <3> SUFFICES ASSUME NEW e \in erased' PROVE raw'[e] = "absent"
            OBVIOUS
        <3>1. e \in erased \/ e \in s.raw
            BY <1>1, <1>3
        <3> QED
            BY <3>1, <1>1, <1>3 DEF LifecycleInvariant, LifecycleTypeOK
    <2>4. /\ raw' \in [Events -> {"absent", "stored", "scrubbed"}]
          /\ \A e \in Events : raw'[e] = "absent" <=> job'[e] = "none"
        BY <1>3 DEF LifecycleInvariant, LifecycleTypeOK
    <2>5. job' \in [Events -> {"none", "pending", "processed", "failed", "quarantined"}]
        BY <1>3 DEF LifecycleInvariant, LifecycleTypeOK
    <2>6. /\ normalized' \subseteq Events /\ tombstones' \subseteq Records
          /\ erased' \subseteq Events
          /\ holds' \subseteq Ranges /\ now' \in 0..MaxClock
        BY <1>1, <1>3 DEF LifecycleInvariant, LifecycleTypeOK
    <2> QED
        BY <1>5, <2>1, <2>2, <2>3, <2>4, <2>5, <2>6 DEF LifecycleTypeOK
<1>7. SelectionClosed'
    BY <1>3 DEF LifecycleInvariant, SelectionClosed
<1>8. NoDanglingEvidence'
    <2> SUFFICES ASSUME NEW pair \in evidence, pair \notin EvidenceOf(s)
                 PROVE  pair \in Rows' \X observed'
        BY <1>2 DEF NoDanglingEvidence
    <2>1. pair \in Rows \X observed
        BY DEF LifecycleInvariant, NoDanglingEvidence
    <2>2. pair[1] \notin s.records /\ pair[2] \notin s.observed
        BY DEF EvidenceOf
    <2> QED
        BY <1>2, <1>3, <2>1, <2>2 DEF Rows
<1>9. UnresolvedFiled'
    <2> SUFFICES ASSUME NEW r \in provisional, r \notin s.records,
                        NEW e \in {r.first, r.last}, e \notin erased'
                 PROVE  e \in observed' /\ <<r, e>> \in evidence'
        BY <1>2 DEF UnresolvedFiled
    <2>1. e \in observed /\ <<r, e>> \in evidence
        BY <1>3 DEF LifecycleInvariant, UnresolvedFiled
    <2>2. e \notin s.observed
        BY <1>3
    <2> QED
        BY <1>2, <1>3, <2>1, <2>2 DEF EvidenceOf
<1>10. EventsTellHistory'
    <2>1. /\ Rows' = Rows \ s.records
          /\ superseded' = superseded \ s.records
        BY <1>2 DEF Rows
    <2>2. outbox' = {event \in outbox : event.about \notin s.records}
        BY <1>2 DEF EventsOf
    <2>3. \A r : Recorded(r).about = r /\ Superseded(r).about = r
        BY DEF Recorded, Superseded
    <2>4. outbox = {Recorded(r) : r \in Rows}
                      \cup {Superseded(r) : r \in {t \in superseded : t.kind # "source"}}
        BY DEF LifecycleInvariant, EventsTellHistory
    <2>5. outbox' = {Recorded(r) : r \in Rows \ s.records}
                       \cup {Superseded(r) : r \in {t \in superseded \ s.records : t.kind # "source"}}
        BY <2>2, <2>3, <2>4
    <2> QED
        BY <2>1, <2>5 DEF EventsTellHistory
<1> QED
    BY <1>6, <1>7, <1>8, <1>9, <1>10 DEF LifecycleInvariant

-----------------------------------------------------------------------------
(***************************************************************************)
(* The theorems                                                            *)
(***************************************************************************)

\* A selection holds the report of every row in it, and no record but those that
\* exist.
LEMMA SelectedClosed ==
    ASSUME LifecycleInvariant, NEW range
    PROVE  LET s == Selected(range)
           IN  /\ s.raw \subseteq Events
               /\ s.observed \subseteq s.raw /\ s.normalized \subseteq s.raw
               /\ s.records \subseteq Records /\ s.places \subseteq Places
BY DEF Selected, LifecycleInvariant, LifecycleTypeOK, TypeOK, Rows

\* A step that leaves the history and the reports alone keeps the invariant.
LEMMA QuietKeeps ==
    ASSUME LifecycleInvariant, UNCHANGED dataVars, now' \in 0..MaxClock, holds' \subseteq Ranges,
           SelectionClosed'
    PROVE  LifecycleInvariant'
<1>1. LifecycleTypeOK'
    BY DEF dataVars, vars, historyVars, LifecycleInvariant, LifecycleTypeOK, TypeOK
<1>2. NoDanglingEvidence' /\ UnresolvedFiled' /\ EventsTellHistory'
    BY DEF dataVars, vars, historyVars, LifecycleInvariant, NoDanglingEvidence, UnresolvedFiled,
           EventsTellHistory, Rows
<1> QED
    BY <1>1, <1>2 DEF LifecycleInvariant

LEMMA LifecycleStep == LifecycleInvariant /\ [LifecycleNext]_lifecycleVars => LifecycleInvariant'
<1> SUFFICES ASSUME LifecycleInvariant, [LifecycleNext]_lifecycleVars
             PROVE  LifecycleInvariant'
    OBVIOUS
<1>0. TypeOK /\ DerivationInvariant
    BY DEF LifecycleInvariant, LifecycleTypeOK, DerivationInvariant
<1>1. ASSUME NEW e \in Events, Receive(e) PROVE LifecycleInvariant'
    <2>1. /\ raw' = [raw EXCEPT ![e] = "stored"]
          /\ \E place \in {"pending", "quarantined"} : job' = [job EXCEPT ![e] = place]
          /\ UNCHANGED <<vars, normalized, tombstones, erased, now, holds, plan, chosen>>
          /\ e \notin erased
        BY <1>1 DEF Receive
    <2>2. LifecycleTypeOK'
        BY <2>1 DEF vars, historyVars, LifecycleInvariant, LifecycleTypeOK, TypeOK
    <2>3. SelectionClosed' /\ NoDanglingEvidence' /\ UnresolvedFiled' /\ EventsTellHistory'
        BY <2>1 DEF vars, historyVars, LifecycleInvariant, SelectionClosed, NoDanglingEvidence,
                    UnresolvedFiled, EventsTellHistory, Rows
    <2> QED
        BY <2>2, <2>3 DEF LifecycleInvariant
<1>2. ASSUME NEW e \in Events, Normalize(e) PROVE LifecycleInvariant'
    <2>1. /\ job[e] = "pending" /\ UNCHANGED <<raw, tombstones, erased, now, holds, plan, chosen>>
          /\ job' \in [Events -> {"none", "pending", "processed", "failed", "quarantined"}]
          /\ \A d \in Events : job'[d] = "none" <=> job[d] = "none"
        BY <1>2 DEF Normalize, LifecycleInvariant, LifecycleTypeOK
    <2>2. SelectionClosed'
        BY <2>1 DEF LifecycleInvariant, SelectionClosed
    <2>3. CASE UNCHANGED <<vars, normalized>>
        <3>1. LifecycleTypeOK'
            BY <2>1, <2>3 DEF vars, historyVars, LifecycleInvariant, LifecycleTypeOK, TypeOK
        <3>2. NoDanglingEvidence' /\ UnresolvedFiled' /\ EventsTellHistory'
            BY <2>1, <2>3 DEF vars, historyVars, LifecycleInvariant, NoDanglingEvidence,
                              UnresolvedFiled, EventsTellHistory, Rows
        <3> QED
            BY <2>2, <3>1, <3>2 DEF LifecycleInvariant
    <2>4. CASE normalized' = normalized \cup {e} /\ raw[e] # "scrubbed"
        <3>0. raw[e] # "absent"
            BY <2>1 DEF LifecycleInvariant, LifecycleTypeOK
        <3>1. (UNCHANGED vars \/ Observe(e)) /\ observed' \subseteq observed \cup {e}
            BY <1>2, <2>4 DEF Normalize, Observe, vars
        <3>2. TypeOK'
            BY <1>0, <3>1, TypeStep DEF Next
        <3>3. LifecycleTypeOK'
            BY <2>1, <2>4, <3>0, <3>1, <3>2 DEF LifecycleInvariant, LifecycleTypeOK
        <3>4. DerivationInvariant'
            <4>1. CASE UNCHANGED vars
                BY <1>0, <2>1, <4>1 DEF vars, historyVars, DerivationInvariant,
                                        NoDanglingEvidence, UnresolvedFiled, EventsTellHistory, Rows
            <4>2. CASE Observe(e)
                BY <1>0, <2>1, <4>2, ObserveKeeps
            <4> QED
                BY <3>1, <4>1, <4>2
        <3> QED
            BY <2>2, <3>3, <3>4 DEF LifecycleInvariant, DerivationInvariant
    <2> QED
        BY <1>2, <2>3, <2>4 DEF Normalize
<1>3. CASE Reprocess
    <2>1. Derive /\ UNCHANGED <<raw, job, normalized, tombstones, erased, now, holds, plan, chosen>>
        BY <1>3 DEF Reprocess
    <2>2. TypeOK'
        BY <1>0, <2>1, TypeStep DEF Next
    <2>6. observed' = observed
        BY <2>1, DeriveEffect, Zenon
    <2>3. LifecycleTypeOK'
        BY <2>1, <2>2, <2>6 DEF LifecycleInvariant, LifecycleTypeOK
    <2>4. DerivationInvariant'
        BY <1>0, <2>1, DeriveKeeps
    <2>5. SelectionClosed'
        BY <2>1 DEF LifecycleInvariant, SelectionClosed
    <2> QED
        BY <2>3, <2>4, <2>5 DEF LifecycleInvariant, DerivationInvariant
<1>4. CASE Retain
    BY <1>4, RetainKeeps
<1>5. CASE Tick
    <2>1. SelectionClosed'
        BY <1>5 DEF Tick, LifecycleInvariant, SelectionClosed
    <2> QED
        BY <1>5, <2>1, QuietKeeps, LifecycleAssumption
           DEF Tick, LifecycleInvariant, LifecycleTypeOK
<1>6. ASSUME NEW range \in Ranges, SetHold(range) PROVE LifecycleInvariant'
    <2>1. SelectionClosed'
        BY <1>6 DEF SetHold, LifecycleInvariant, SelectionClosed
    <2> QED
        BY <1>6, <2>1, QuietKeeps DEF SetHold, LifecycleInvariant, LifecycleTypeOK
<1>7. ASSUME NEW p \in Plans, NEW range \in Ranges, PlanDeletion(p, range)
      PROVE  LifecycleInvariant'
    <2>1. SelectionClosed'
        BY <1>7 DEF PlanDeletion, LifecycleInvariant, SelectionClosed
    <2> QED
        BY <1>7, <2>1, QuietKeeps DEF PlanDeletion, LifecycleInvariant, LifecycleTypeOK
<1>8. ASSUME NEW p \in Plans, ExpirePlan(p) PROVE LifecycleInvariant'
    <2>1. SelectionClosed'
        BY <1>8 DEF ExpirePlan, LifecycleInvariant, SelectionClosed
    <2> QED
        BY <1>8, <2>1, QuietKeeps DEF ExpirePlan, LifecycleInvariant, LifecycleTypeOK
<1>9. ASSUME NEW o \in Operators, NEW p \in Plans, SelectForDeletion(o, p)
      PROVE  LifecycleInvariant'
    <2> DEFINE s == Selected(plan[p].range)
               choice == [plan |-> p, rows |-> s, evidence |-> EvidenceOf(s), events |-> EventsOf(s)]
    <2>1. /\ chosen' = [chosen EXCEPT ![o] = choice]
          /\ UNCHANGED <<dataVars, now, holds, plan>>
        BY <1>9 DEF SelectForDeletion
    <2>2. choice.rows = s
        OBVIOUS
    <2>3. /\ s.raw \subseteq Events
          /\ s.observed \subseteq s.raw /\ s.normalized \subseteq s.raw
          /\ s.records \subseteq Records /\ s.places \subseteq Places
        BY SelectedClosed
    <2> HIDE DEF s, choice
    <2>4. SelectionClosed'
        BY <2>1, <2>2, <2>3 DEF LifecycleInvariant, SelectionClosed
    <2> QED
        BY <2>1, <2>4, QuietKeeps DEF LifecycleInvariant, LifecycleTypeOK
<1>10. ASSUME NEW o \in Operators, CommitDeletion(o) PROVE LifecycleInvariant'
    BY <1>10, CommitKeeps
<1>11. ASSUME NEW o \in Operators, RefuseDeletion(o) PROVE LifecycleInvariant'
    <2>1. SelectionClosed'
        BY <1>11 DEF RefuseDeletion, LifecycleInvariant, SelectionClosed
    <2> QED
        BY <1>11, <2>1, QuietKeeps DEF RefuseDeletion, LifecycleInvariant, LifecycleTypeOK
<1>12. CASE UNCHANGED lifecycleVars
    <2>1. SelectionClosed'
        BY <1>12 DEF lifecycleVars, LifecycleInvariant, SelectionClosed
    <2> QED
        BY <1>12, <2>1, QuietKeeps DEF lifecycleVars, LifecycleInvariant, LifecycleTypeOK
<1> QED
    BY <1>1, <1>2, <1>3, <1>4, <1>5, <1>6, <1>7, <1>8, <1>9, <1>10, <1>11, <1>12
       DEF LifecycleNext

LEMMA LifecycleStart == LifecycleInit => LifecycleInvariant
<1> SUFFICES ASSUME LifecycleInit PROVE LifecycleInvariant
    OBVIOUS
<1>1. TypeOK
    BY InitType DEF LifecycleInit
<1>2. LifecycleTypeOK
    BY <1>1, LifecycleAssumption DEF LifecycleInit, Init, LifecycleTypeOK
<1>3. SelectionClosed /\ NoDanglingEvidence /\ UnresolvedFiled /\ EventsTellHistory
    BY DEF LifecycleInit, Init, SelectionClosed, NoDanglingEvidence, UnresolvedFiled,
           EventsTellHistory, Rows
<1> QED
    BY <1>2, <1>3 DEF LifecycleInvariant

LEMMA LifecycleInvariantHolds == LifecycleSpec => []LifecycleInvariant
BY LifecycleStart, LifecycleStep, PTL DEF LifecycleSpec

\* Every variable has its type, nothing is observed without its report, and what
\* was deleted does not come back.
THEOREM LifecycleTypeCorrect == LifecycleSpec => []LifecycleTypeOK
<1>1. LifecycleInvariant => LifecycleTypeOK
    BY DEF LifecycleInvariant
<1> QED
    BY <1>1, LifecycleInvariantHolds, PTL

\* Whatever comes between the selection of a deletion and its transaction,
\* evidence joins rows and observations that exist.
THEOREM EvidenceNeverDangles == LifecycleSpec => []NoDanglingEvidence
<1>1. LifecycleInvariant => NoDanglingEvidence
    BY DEF LifecycleInvariant
<1> QED
    BY <1>1, LifecycleInvariantHolds, PTL

\* The stored events tell the tables under retention and deletion, too.
THEOREM DeletionTellsHistory == LifecycleSpec => []EventsTellHistory
<1>1. LifecycleInvariant => EventsTellHistory
    BY DEF LifecycleInvariant
<1> QED
    BY <1>1, LifecycleInvariantHolds, PTL

\* Retention never takes what an unresolved record begins or ends with.
THEOREM UnresolvedKept == LifecycleSpec => []UnresolvedKeepEvidence
<1>1. LifecycleInvariant => UnresolvedKeepEvidence
    BY DEF LifecycleInvariant, UnresolvedFiled, UnresolvedKeepEvidence
<1> QED
    BY <1>1, LifecycleInvariantHolds, PTL

\* What a step may do to a held event.
HoldRespected ==
    \A e \in Events : Held(e) =>
        /\ raw[e] = "stored" => raw'[e] # "scrubbed"
        /\ e \in observed => e \in observed' \cup erased'

LEMMA HoldStep == LifecycleInvariant /\ [LifecycleNext]_lifecycleVars => HoldRespected
<1> SUFFICES ASSUME LifecycleInvariant, [LifecycleNext]_lifecycleVars PROVE HoldRespected
    OBVIOUS
<1>1. CASE Retain
    BY <1>1, RetainMoves DEF HoldRespected, LifecycleInvariant, LifecycleTypeOK
<1>2. ASSUME NEW o \in Operators, CommitDeletion(o) PROVE HoldRespected
    BY <1>2 DEF CommitDeletion, HoldRespected, LifecycleInvariant, LifecycleTypeOK
<1>3. ASSUME observed \subseteq observed',
             \A e \in Events : raw[e] = "stored" => raw'[e] = "stored"
      PROVE  HoldRespected
    BY <1>3 DEF HoldRespected
<1>4. CASE UNCHANGED dataVars
    BY <1>3, <1>4 DEF dataVars, vars
<1>5. ASSUME NEW e \in Events, Receive(e) PROVE HoldRespected
    BY <1>3, <1>5 DEF Receive, vars, LifecycleInvariant, LifecycleTypeOK
<1>6. ASSUME NEW e \in Events, Normalize(e) PROVE HoldRespected
    BY <1>3, <1>6 DEF Normalize, Observe, vars
<1>7. CASE Reprocess
    <2>1. observed' = observed /\ raw' = raw
        BY <1>7, DeriveEffect, Zenon DEF Reprocess
    <2> QED
        BY <1>3, <2>1
<1> QED
    BY <1>1, <1>2, <1>4, <1>5, <1>6, <1>7
       DEF LifecycleNext, Tick, SetHold, PlanDeletion, ExpirePlan, SelectForDeletion,
           RefuseDeletion, lifecycleVars

\* Retention scrubs no payload and removes no observation of a held time
\* (apply_retention); the normalized events of a held time are not spoken of.
THEOREM HoldsKept == LifecycleSpec => HoldsKeep
<1>1. LifecycleInvariant /\ [LifecycleNext]_lifecycleVars => [HoldRespected]_lifecycleVars
    BY HoldStep
<1>2. LifecycleSpec => [][HoldRespected]_lifecycleVars
    BY <1>1, LifecycleInvariantHolds, PTL DEF LifecycleSpec
<1> QED
    BY <1>2 DEF HoldsKeep, HoldRespected

-----------------------------------------------------------------------------
(***************************************************************************)
(* What a deletion takes                                                   *)
(***************************************************************************)

\* A plan keeps its range and its counts; an operator's selection is within the
\* range of a plan, with as many rows of each table as the plan says.
SelectionApproved ==
    /\ plan = [p \in Plans |-> plan[p]]
    /\ chosen = [o \in Operators |-> chosen[o]]
    /\ \A p \in Plans : plan[p] # NoPlan =>
          plan[p] = [range |-> plan[p].range, counts |-> plan[p].counts,
                     status |-> plan[p].status, expires |-> plan[p].expires]
    /\ \A p \in Plans : plan[p] # NoPlan => plan[p].status # "none"
    /\ \A o \in Operators : chosen[o] # Nothing =>
          LET p == chosen[o].plan
              s == chosen[o].rows
          IN  /\ p \in Plans /\ plan[p] # NoPlan
              /\ \A r \in s.records : Within(plan[p].range, Time[r.first])
              /\ \A table \in Tables :
                    Cardinality(RowsIn(s.records, table)) = plan[p].counts.records[table]

\* A plan whose status alone changes is the same plan for every selection.
LEMMA StatusKeepsApproval ==
    ASSUME SelectionApproved, NEW p \in Plans, plan[p] # NoPlan,
           NEW status, status # "none", plan' = [plan EXCEPT ![p].status = status],
           chosen' = [o \in Operators |-> chosen'[o]],
           \A o \in Operators : chosen'[o] \in {chosen[o], Nothing}
    PROVE  SelectionApproved' /\ plan'[p].status = status
<1>1. /\ plan = [q \in Plans |-> plan[q]]
      /\ plan[p] = [range |-> plan[p].range, counts |-> plan[p].counts,
                    status |-> plan[p].status, expires |-> plan[p].expires]
    BY DEF SelectionApproved
<1>2. \A q \in Plans : plan'[q] = IF q = p THEN [plan[p] EXCEPT !.status = status] ELSE plan[q]
    BY <1>1
<1>3. [plan[p] EXCEPT !.status = status] =
        [range |-> plan[p].range, counts |-> plan[p].counts, status |-> status,
         expires |-> plan[p].expires]
    BY <1>1
<1>4. /\ plan'[p].range = plan[p].range /\ plan'[p].counts = plan[p].counts
      /\ plan'[p].status = status /\ plan'[p].expires = plan[p].expires
      /\ plan'[p] = [range |-> plan'[p].range, counts |-> plan'[p].counts,
                     status |-> plan'[p].status, expires |-> plan'[p].expires]
    BY <1>2, <1>3
<1>5. plan'[p] # NoPlan
    BY <1>4 DEF NoPlan
<1>6. plan' = [q \in Plans |-> plan'[q]]
    BY <1>1
<1>7. \A q \in Plans : /\ plan'[q].range = plan[q].range /\ plan'[q].counts = plan[q].counts
                       /\ plan'[q] # NoPlan <=> plan[q] # NoPlan
    BY <1>2, <1>4, <1>5
<1>8. \A o \in Operators : chosen'[o] # Nothing =>
        LET q == chosen'[o].plan
            s == chosen'[o].rows
        IN  /\ q \in Plans /\ plan'[q] # NoPlan
            /\ \A r \in s.records : Within(plan'[q].range, Time[r.first])
            /\ \A table \in Tables :
                  Cardinality(RowsIn(s.records, table)) = plan'[q].counts.records[table]
    BY <1>7 DEF SelectionApproved
<1>9. \A q \in Plans : plan'[q] # NoPlan =>
        /\ plan'[q] = [range |-> plan'[q].range, counts |-> plan'[q].counts,
                       status |-> plan'[q].status, expires |-> plan'[q].expires]
        /\ plan'[q].status # "none"
    BY <1>2, <1>4 DEF SelectionApproved
<1> QED
    BY <1>4, <1>6, <1>8, <1>9 DEF SelectionApproved

LEMMA ApprovalStart == LifecycleInit => SelectionApproved
BY DEF LifecycleInit, SelectionApproved

LEMMA ApprovalStep == SelectionApproved /\ [LifecycleNext]_lifecycleVars => SelectionApproved'
<1> SUFFICES ASSUME SelectionApproved, [LifecycleNext]_lifecycleVars
             PROVE  SelectionApproved'
    OBVIOUS
<1>1. ASSUME UNCHANGED <<plan, chosen>> PROVE SelectionApproved'
    BY <1>1 DEF SelectionApproved
<1>2. ASSUME NEW p \in Plans, NEW range \in Ranges, PlanDeletion(p, range)
      PROVE  SelectionApproved'
    <2> DEFINE new == [range |-> range, counts |-> Counts(Selected(range)),
                       status |-> "planned", expires |-> now + PlanLife]
    <2>1. /\ plan[p] = NoPlan /\ plan' = [plan EXCEPT ![p] = new] /\ chosen' = chosen
        BY <1>2 DEF PlanDeletion
    <2>2. /\ plan'[p] = new
          /\ \A q \in Plans \ {p} : plan'[q] = plan[q]
          /\ plan' = [q \in Plans |-> plan'[q]]
        BY <2>1 DEF SelectionApproved
    <2>3. /\ new = [range |-> new.range, counts |-> new.counts, status |-> new.status,
                    expires |-> new.expires]
          /\ new.status # "none"
        OBVIOUS
    <2> HIDE DEF new
    <2> QED
        BY <2>1, <2>2, <2>3 DEF SelectionApproved
<1>3. ASSUME NEW p \in Plans, ExpirePlan(p) PROVE SelectionApproved'
    <2>1. /\ plan[p] # NoPlan /\ plan' = [plan EXCEPT ![p].status = "expired"]
          /\ chosen' = chosen
        BY <1>3 DEF ExpirePlan, Planned
    <2>2. chosen' = [o \in Operators |-> chosen'[o]]
        BY <2>1 DEF SelectionApproved
    <2> QED
        BY <2>1, <2>2, StatusKeepsApproval
<1>4. ASSUME NEW o \in Operators, NEW p \in Plans, SelectForDeletion(o, p)
      PROVE  SelectionApproved'
    <2> DEFINE s == Selected(plan[p].range)
               choice == [plan |-> p, rows |-> s, evidence |-> EvidenceOf(s),
                          events |-> EventsOf(s)]
    <2>1. /\ plan[p] # NoPlan /\ Counts(s) = plan[p].counts
          /\ chosen' = [chosen EXCEPT ![o] = choice] /\ plan' = plan
        BY <1>4 DEF SelectForDeletion, Planned, AsPlanned
    <2>2. \A r \in s.records : Within(plan[p].range, Time[r.first])
        BY DEF Selected
    <2>3. \A table \in Tables :
            Cardinality(RowsIn(s.records, table)) = plan[p].counts.records[table]
        <3>1. Counts(s).records = [table \in Tables |-> Cardinality(RowsIn(s.records, table))]
            BY DEF Counts
        <3> HIDE DEF s
        <3> QED
            BY <2>1, <3>1
    <2>4. choice.plan = p /\ choice.rows = s
        OBVIOUS
    <2> HIDE DEF s, choice
    <2>5. /\ chosen'[o] = choice
          /\ \A other \in Operators \ {o} : chosen'[other] = chosen[other]
          /\ chosen' = [other \in Operators |-> chosen'[other]]
        BY <2>1 DEF SelectionApproved
    <2> QED
        BY <2>1, <2>2, <2>3, <2>4, <2>5 DEF SelectionApproved
<1>5. ASSUME NEW o \in Operators, CommitDeletion(o) PROVE SelectionApproved'
    <2>1. /\ chosen[o] # Nothing /\ plan' = [plan EXCEPT ![chosen[o].plan].status = "applied"]
          /\ chosen' = [chosen EXCEPT ![o] = Nothing]
        BY <1>5 DEF CommitDeletion
    <2>2. chosen[o].plan \in Plans /\ plan[chosen[o].plan] # NoPlan
        BY <2>1 DEF SelectionApproved
    <2>3. /\ chosen' = [other \in Operators |-> chosen'[other]]
          /\ \A other \in Operators : chosen'[other] \in {chosen[other], Nothing}
        BY <2>1 DEF SelectionApproved
    <2> QED
        BY <2>1, <2>2, <2>3, StatusKeepsApproval
<1>6. ASSUME NEW o \in Operators, RefuseDeletion(o) PROVE SelectionApproved'
    <2>1. chosen' = [chosen EXCEPT ![o] = Nothing] /\ plan' = plan
        BY <1>6 DEF RefuseDeletion
    <2>2. /\ chosen' = [other \in Operators |-> chosen'[other]]
          /\ \A other \in Operators : chosen'[other] \in {chosen[other], Nothing}
        BY <2>1 DEF SelectionApproved
    <2> QED
        BY <2>1, <2>2 DEF SelectionApproved
<1> QED
    BY <1>1, <1>2, <1>3, <1>4, <1>5, <1>6
       DEF LifecycleNext, Receive, Normalize, Reprocess, Retain, Tick, SetHold, lifecycleVars

\* There are finitely many records, so that the rows of a table can be counted.
LEMMA FinitelyManyRecords == IsFiniteSet(Records)
<1> DEFINE Ps == Places \cup {None}
           Tuples == (RecordKinds \X Events) \X (Events \X Ps)
           f == [t \in Tuples |-> [kind |-> t[1][1], first |-> t[1][2],
                                   last |-> t[2][1], place |-> t[2][2]]]
<1>1. IsFiniteSet(Events) /\ IsFiniteSet(Ps)
    BY DerivationAssumption, LifecycleAssumption, FS_AddElement
       DEF DerivationAssumption, LifecycleAssumption
<1>2. IsFiniteSet(RecordKinds)
    <2>1. IsFiniteSet({} \cup {"coverage_gap"})
        BY FS_EmptySet, FS_AddElement
    <2>2. IsFiniteSet({} \cup {"coverage_gap"} \cup {"visit"})
        BY <2>1, FS_AddElement
    <2>3. IsFiniteSet({} \cup {"coverage_gap"} \cup {"visit"} \cup {"departure"})
        BY <2>2, FS_AddElement
    <2>4. IsFiniteSet({} \cup {"coverage_gap"} \cup {"visit"} \cup {"departure"} \cup {"arrival"})
        BY <2>3, FS_AddElement
    <2>5. IsFiniteSet({} \cup {"coverage_gap"} \cup {"visit"} \cup {"departure"} \cup {"arrival"}
                         \cup {"trip"})
        BY <2>4, FS_AddElement
    <2>6. IsFiniteSet({} \cup {"coverage_gap"} \cup {"visit"} \cup {"departure"} \cup {"arrival"}
                         \cup {"trip"} \cup {"source"})
        BY <2>5, FS_AddElement
    <2>7. RecordKinds = {} \cup {"coverage_gap"} \cup {"visit"} \cup {"departure"} \cup {"arrival"}
                         \cup {"trip"} \cup {"source"}
        BY DEF RecordKinds
    <2> QED
        BY <2>6, <2>7
<1>3. IsFiniteSet(Tuples)
    <2> HIDE DEF Ps
    <2>1. IsFiniteSet(RecordKinds \X Events) /\ IsFiniteSet(Events \X Ps)
        BY <1>1, <1>2, FS_Product
    <2> QED
        BY <2>1, FS_Product
<1>4. f \in Surjection(Tuples, Records)
    <2>1. f \in [Tuples -> Records]
        BY DEF Records
    <2>2. ASSUME NEW r \in Records PROVE \E t \in Tuples : f[t] = r
        <3>1. <<<<r.kind, r.first>>, <<r.last, r.place>>>> \in Tuples
            BY DEF Records
        <3>2. f[<<<<r.kind, r.first>>, <<r.last, r.place>>>>] = r
            BY <3>1 DEF Records
        <3> QED
            BY <3>1, <3>2
    <2> HIDE DEF f
    <2> QED
        BY <2>1, <2>2 DEF Surjection
<1> HIDE DEF f, Tuples
<1> QED
    BY <1>3, <1>4, FS_Surjection

\* What a step may remove.
RemovalApproved ==
    LET gone == Rows \ Rows'
    IN  gone # {} =>
           \E p \in Plans :
               /\ plan[p] # NoPlan /\ plan'[p].status = "applied"
               /\ \A r \in gone : Within(plan[p].range, Time[r.first])
               /\ \A table \in Tables :
                     Cardinality(RowsIn(gone, table)) <= plan[p].counts.records[table]

LEMMA RemovalStep ==
    LifecycleInvariant /\ SelectionApproved /\ [LifecycleNext]_lifecycleVars => RemovalApproved
<1> SUFFICES ASSUME LifecycleInvariant, SelectionApproved, [LifecycleNext]_lifecycleVars
             PROVE  RemovalApproved
    OBVIOUS
<1>1. ASSUME Rows \subseteq Rows' PROVE RemovalApproved
    BY <1>1 DEF RemovalApproved
<1>2. CASE UNCHANGED vars
    BY <1>1, <1>2 DEF vars, historyVars, Rows
<1>3. ASSUME NEW e \in Events, Observe(e) PROVE RemovalApproved
    BY <1>1, <1>3 DEF Observe, Rows
<1>4. CASE Derive
    <2>1. PICK replaced \in SUBSET provisional :
             /\ confirmed' = (confirmed \ Unsupported(Derived))
                                \cup {r \in New(Derived) : Settled(r)}
             /\ provisional' = (provisional \ (Unsupported(Derived) \cup replaced))
                                  \cup {r \in New(Derived) : ~Settled(r)}
             /\ superseded' = superseded \cup Unsupported(Derived) \cup replaced
        BY <1>4, DeriveMoves DEF LifecycleInvariant, LifecycleTypeOK
    <2> QED
        BY <1>1, <2>1 DEF Rows
<1>5. CASE Retain
    BY <1>1, <1>5 DEF Retain, Rows
<1>6. ASSUME NEW o \in Operators, CommitDeletion(o) PROVE RemovalApproved
    <2> DEFINE p == chosen[o].plan
               s == chosen[o].rows
               gone == Rows \ Rows'
    <2>1. /\ chosen[o] # Nothing /\ plan' = [plan EXCEPT ![p].status = "applied"]
          /\ chosen' = [chosen EXCEPT ![o] = Nothing]
          /\ confirmed' = confirmed \ s.records
          /\ provisional' = provisional \ s.records
          /\ superseded' = superseded \ s.records
        BY <1>6 DEF CommitDeletion
    <2>2. /\ p \in Plans /\ plan[p] # NoPlan
          /\ \A r \in s.records : Within(plan[p].range, Time[r.first])
          /\ \A table \in Tables :
                Cardinality(RowsIn(s.records, table)) = plan[p].counts.records[table]
        BY <2>1 DEF SelectionApproved
    <2>3. gone \subseteq s.records
        BY <2>1 DEF Rows
    <2>4. plan'[p].status = "applied"
        <3>1. /\ chosen' = [other \in Operators |-> chosen'[other]]
              /\ \A other \in Operators : chosen'[other] \in {chosen[other], Nothing}
            BY <2>1 DEF SelectionApproved
        <3> QED
            BY <2>1, <2>2, <3>1, StatusKeepsApproval
    <2>5. ASSUME NEW table \in Tables
          PROVE  Cardinality(RowsIn(gone, table)) <= plan[p].counts.records[table]
        <3>1. RowsIn(gone, table) \subseteq RowsIn(s.records, table)
            BY <2>3 DEF RowsIn
        <3>2. RowsIn(s.records, table) \subseteq Records
            BY <2>1 DEF RowsIn, LifecycleInvariant, SelectionClosed
        <3>3. IsFiniteSet(RowsIn(s.records, table))
            BY <3>2, FinitelyManyRecords, FS_Subset
        <3>4. Cardinality(RowsIn(gone, table)) <= Cardinality(RowsIn(s.records, table))
            BY <3>1, <3>3, FS_Subset
        <3> QED
            BY <2>2, <3>4
    <2> HIDE DEF p
    <2> QED
        BY <2>2, <2>3, <2>4, <2>5 DEF RemovalApproved
<1> QED
    BY <1>2, <1>3, <1>4, <1>5, <1>6
       DEF LifecycleNext, Receive, Normalize, Reprocess, Tick, SetHold, PlanDeletion, ExpirePlan,
           SelectForDeletion, RefuseDeletion, lifecycleVars, dataVars

\* Rows disappear only when a deletion is applied, from the range of its plan, and
\* from each table at most as many as the owner has seen in the plan, although
\* the deletion selects what it takes before its transaction begins.
THEOREM RemovalsAreApproved == LifecycleSpec => OnlyApprovedRemoved
<1>1. LifecycleSpec => []SelectionApproved
    BY ApprovalStart, ApprovalStep, PTL DEF LifecycleSpec
<1>2. LifecycleInvariant /\ SelectionApproved /\ [LifecycleNext]_lifecycleVars
        => [RemovalApproved]_lifecycleVars
    BY RemovalStep
<1>3. LifecycleSpec => [][RemovalApproved]_lifecycleVars
    BY <1>1, <1>2, LifecycleInvariantHolds, PTL DEF LifecycleSpec
<1> QED
    BY <1>3 DEF OnlyApprovedRemoved, RemovalApproved

-----------------------------------------------------------------------------
(***************************************************************************)
(* The timeline and its evidence under retention and deletion              *)
(***************************************************************************)

\* Rows, observations and evidence are taken, and evidence only with its row or its
\* observation.
Shrinks ==
    /\ observed' \subseteq observed /\ window' = window
    /\ Active' \subseteq Active
    /\ evidence' \subseteq evidence
    /\ \A r \in Active', e \in observed' : <<r, e>> \in evidence => <<r, e>> \in evidence'

\* Retention and deletion do that; every other step is one of Derivation, or of none.
LEMMA StepsOfLifecycle ==
    ASSUME LifecycleInvariant, [LifecycleNext]_lifecycleVars
    PROVE  [Next]_vars \/ Shrinks
<1>1. ASSUME NEW e \in Events, Normalize(e) PROVE [Next]_vars
    BY <1>1 DEF Normalize, Next
<1>2. CASE Reprocess
    BY <1>2 DEF Reprocess, Next
<1>3. CASE Retain
    BY <1>3 DEF Retain, Shrinks, Active
<1>4. ASSUME NEW o \in Operators, CommitDeletion(o) PROVE Shrinks
    <2> DEFINE s == chosen[o].rows
    <2>1. /\ confirmed' = confirmed \ s.records /\ provisional' = provisional \ s.records
          /\ observed' = observed \ s.observed /\ window' = window
          /\ evidence' = evidence \ EvidenceOf(s)
        BY <1>4 DEF CommitDeletion, EvidenceDeleted
    <2> HIDE DEF s
    <2>2. \A r \in Active', e \in observed' : <<r, e>> \in evidence => <<r, e>> \in evidence'
        BY <2>1 DEF EvidenceOf, Active
    <2> QED
        BY <2>1, <2>2 DEF Shrinks, Active
<1> QED
    BY <1>1, <1>2, <1>3, <1>4
       DEF LifecycleNext, Receive, Tick, SetHold, PlanDeletion, ExpirePlan, SelectForDeletion,
           RefuseDeletion, lifecycleVars, dataVars

LEMMA LifecycleTimelineStep ==
    LifecycleInvariant /\ TimelineConsistent /\ [LifecycleNext]_lifecycleVars
        => TimelineConsistent'
<1> SUFFICES ASSUME LifecycleInvariant, TimelineConsistent, [LifecycleNext]_lifecycleVars
             PROVE  TimelineConsistent'
    OBVIOUS
<1>1. TypeOK
    BY DEF LifecycleInvariant, LifecycleTypeOK
<1>2. CASE Shrinks
    <2>1. \A kind : ActiveOf(kind)' \subseteq ActiveOf(kind)
        BY <1>2 DEF Shrinks, ActiveOf
    <2> QED
        BY <2>1 DEF TimelineConsistent, Disjoint
<1> QED
    BY <1>1, <1>2, StepsOfLifecycle, TimelineStep

\* The active records are one consistent timeline also while retention and deletion
\* take away what they were derived from.
THEOREM TimelineSurvives == LifecycleSpec => []TimelineConsistent
<1>1. LifecycleInit => TimelineConsistent
    BY DEF LifecycleInit, Init, TimelineConsistent, ActiveOf, Active
<1> QED
    BY <1>1, LifecycleTimelineStep, LifecycleInvariantHolds, PTL DEF LifecycleSpec

\* The evidence filed for a derived record never is more than what the record rests on.
RemainingInvariant == OnlySupports /\ RemainingEvidenceFiled

LEMMA RemainingStep ==
    LifecycleInvariant /\ RemainingInvariant /\ [LifecycleNext]_lifecycleVars
        => RemainingInvariant'
<1> SUFFICES ASSUME LifecycleInvariant, RemainingInvariant, [LifecycleNext]_lifecycleVars
             PROVE  OnlySupports' /\ RemainingEvidenceFiled'
    BY DEF RemainingInvariant
<1>0. /\ TypeOK /\ NoDanglingEvidence /\ OnlySupports /\ RemainingEvidenceFiled
      /\ TypeOK' /\ NoDanglingEvidence'
    BY LifecycleStep DEF LifecycleInvariant, LifecycleTypeOK, RemainingInvariant
<1>1. ASSUME NEW e \in Events, Observe(e) PROVE OnlySupports' /\ RemainingEvidenceFiled'
    <2>1. /\ observed \subseteq observed' /\ window' = TRUE
          /\ evidence' \subseteq evidence \cup {<<SourceOf(e), e>>}
        BY <1>1 DEF Observe
    <2>2. OnlySupports'
        BY <1>0, <2>1, SupportsGrow, SourceType DEF OnlySupports
    <2> QED
        BY <2>1, <2>2 DEF RemainingEvidenceFiled
<1>2. CASE Derive
    <2>1. /\ evidence' = evidence \cup DerivedEvidence(Derived)
          /\ observed' = observed
        BY <1>2, DeriveEffect, Zenon
    <2>2. \A r : Supports(r)' = Supports(r)
        BY <2>1 DEF Supports
    <2>3. \A r, e : <<r, e>> \in DerivedEvidence(Derived)
                       <=> r \in Derived /\ e \in Supports(r)
        BY DEF DerivedEvidence
    <2>4. OnlySupports'
        BY <1>0, <2>1, <2>2, <2>3 DEF OnlySupports
    <2>5. \A r \in Active' : r.kind # "source" => r \in Derived
        BY <1>0, <1>2, DeriveMoves DEF Active, Unsupported, New
    <2>6. ASSUME NEW r \in Active', r.kind # "source"
          PROVE  {e \in Events : <<r, e>> \in evidence'} = Supports(r)' \cap observed'
        <3>1. r \in Derived /\ r \in Records
            BY <1>0, <2>5, <2>6 DEF Active, TypeOK
        <3>2. \A e \in Events : <<r, e>> \in evidence' => e \in Supports(r) /\ e \in observed'
            BY <1>0, <2>1, <2>3, <2>6, <3>1 DEF OnlySupports, NoDanglingEvidence
        <3>3. \A e \in Supports(r) : <<r, e>> \in evidence'
            BY <2>1, <2>3, <3>1
        <3>4. Supports(r) \subseteq Events
            BY <1>0, <3>1, SupportsType DEF TypeOK
        <3> QED
            BY <2>2, <3>2, <3>3, <3>4
    <2> QED
        BY <2>4, <2>6 DEF RemainingEvidenceFiled
<1>3. CASE Shrinks
    <2>1. /\ observed' \subseteq observed /\ window' = window /\ Active' \subseteq Active
          /\ evidence' \subseteq evidence /\ observed' \subseteq Events
          /\ \A r \in Active', e \in observed' : <<r, e>> \in evidence => <<r, e>> \in evidence'
        BY <1>0, <1>3 DEF Shrinks, TypeOK
    <2>2. \A r, e : <<r, e>> \in evidence' => e \in observed'
        BY <1>0 DEF NoDanglingEvidence
    <2>3. \A r, e : e \in observed' => (e \in Supports(r)' <=> e \in Supports(r))
        BY <2>1 DEF Supports
    <2>4. OnlySupports'
        BY <1>0, <2>1, <2>2, <2>3 DEF OnlySupports
    <2>5. ASSUME ~window, NEW r \in Active', r.kind # "source"
          PROVE  {e \in Events : <<r, e>> \in evidence'} = Supports(r)' \cap observed'
        <3>1. {e \in Events : <<r, e>> \in evidence} = Supports(r) \cap observed
            BY <1>0, <2>1, <2>5 DEF RemainingEvidenceFiled
        <3>2. \A e \in Events : <<r, e>> \in evidence' <=> e \in Supports(r) /\ e \in observed'
            BY <2>1, <2>2, <3>1
        <3> QED
            BY <2>1, <2>3, <3>2
    <2> QED
        BY <2>1, <2>4, <2>5 DEF RemainingEvidenceFiled
<1>4. ASSUME observed' = observed, evidence' = evidence, window' = window, Active' = Active
      PROVE  OnlySupports' /\ RemainingEvidenceFiled'
    BY <1>0, <1>4 DEF OnlySupports, RemainingEvidenceFiled, Supports
<1>5. CASE UNCHANGED vars
    BY <1>4, <1>5 DEF vars, historyVars, Active
<1>6. ASSUME NEW p \in Places, NEW from \in Reviews, NEW approved \in BOOLEAN,
             RegisterPlace(p, from, approved)
      PROVE  OnlySupports' /\ RemainingEvidenceFiled'
    BY <1>4, <1>6 DEF RegisterPlace, historyVars, Active
<1> QED
    BY <1>1, <1>2, <1>3, <1>5, <1>6, StepsOfLifecycle DEF Next

\* A record whose observations go in part keeps the evidence of those that remain,
\* and no other.
THEOREM RemainingEvidenceKept == LifecycleSpec => []RemainingEvidenceFiled
<1>1. LifecycleInit => RemainingInvariant
    BY DEF LifecycleInit, Init, RemainingInvariant, OnlySupports, RemainingEvidenceFiled, Active
<1>2. RemainingInvariant => RemainingEvidenceFiled
    BY DEF RemainingInvariant
<1> QED
    BY <1>1, <1>2, RemainingStep, LifecycleInvariantHolds, PTL DEF LifecycleSpec
=============================================================================
