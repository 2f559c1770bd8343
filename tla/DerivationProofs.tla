-------------------------- MODULE DerivationProofs --------------------------
(***************************************************************************)
(* Proofs about Derivation, for every set of events, whatever their times, *)
(* kinds and places, and every configuration.                              *)
(***************************************************************************)
EXTENDS Derivation, TLAPS

-----------------------------------------------------------------------------
(***************************************************************************)
(* Type correctness                                                        *)
(***************************************************************************)

\* An observation counts for a place or for none.
LEMMA PlaceType ==
    ASSUME NEW e \in Events
    PROVE  PlaceOf(e) \in Places \cup {None}
<1>1. Spot[e] \in Places \cup {None}
    BY DerivationAssumption
<1> QED
    BY <1>1 DEF PlaceOf

\* A record of typed parts is a record of the history.
LEMMA RecordType ==
    ASSUME NEW kind \in RecordKinds, NEW a \in Events, NEW b \in Events,
           NEW p \in Places \cup {None}
    PROVE  /\ Record(kind, a, b, p) \in Records
           /\ Record(kind, a, b, p).kind = kind
           /\ Record(kind, a, b, p).first = a
           /\ Record(kind, a, b, p).last = b
           /\ Record(kind, a, b, p).place = p
BY DEF Record, Records

\* A run goes from an observation of its place to a later one of the same place.
LEMMA RunType ==
    ASSUME NEW run \in Runs
    PROVE  /\ run = [first |-> run.first, last |-> run.last]
           /\ run.first \in observed /\ run.last \in observed
           /\ run.first <= run.last
           /\ PlaceOf(run.first) \in Places
           /\ PlaceOf(run.last) = PlaceOf(run.first)
<1>1. PICK p \in Places : run \in Stretches({e \in observed : PlaceOf(e) = p})
    BY DEF Runs
<1> DEFINE stay == {e \in observed : PlaceOf(e) = p}
<1>2. run \in [first : stay, last : stay] /\ run.first <= run.last
    BY <1>1 DEF Stretches
<1>3. run.first \in stay /\ run.last \in stay
    BY <1>2
<1> QED
    BY <1>2, <1>3

\* The runs of a move are runs.
LEMMA MoveType ==
    ASSUME NEW m \in Moves
    PROVE  m.from \in Runs /\ m.to \in Runs
BY DEF Moves

\* What is derived are records, none of them the phone's own.
LEMMA DerivedType ==
    ASSUME observed \subseteq Events
    PROVE  /\ Derived \subseteq Records
           /\ \A r \in Derived : r.kind # "source"
<1> SUFFICES ASSUME NEW r \in Derived PROVE r \in Records /\ r.kind # "source"
    OBVIOUS
<1>0. {"coverage_gap", "visit", "departure", "arrival", "trip"} \subseteq RecordKinds
    BY DEF RecordKinds
<1>1. CASE r \in Gaps
    <2>1. PICK g \in observed \X observed : r = Record("coverage_gap", g[1], g[2], None)
        BY <1>1 DEF Gaps
    <2> QED
        BY <2>1, <1>0, RecordType
<1>2. CASE r \in Visits
    <2>1. PICK run \in Runs : r = Record("visit", run.first, run.last, PlaceOf(run.first))
        BY <1>2 DEF Visits
    <2> QED
        BY <2>1, <1>0, RunType, RecordType
<1>3. CASE r \in Transitions(Moves)
    <2>1. PICK m \in Moves :
             \/ r = Record("departure", m.from.last, m.from.last, PlaceOf(m.from.last))
             \/ r = Record("arrival", m.to.first, m.to.first, PlaceOf(m.to.first))
        BY <1>3 DEF Transitions
    <2>2. m.from.last \in Events /\ m.to.first \in Events
        BY RunType, MoveType
    <2>3. /\ PlaceOf(m.from.last) \in Places \cup {None}
          /\ PlaceOf(m.to.first) \in Places \cup {None}
        BY <2>2, PlaceType
    <2> QED
        BY <2>1, <2>2, <2>3, <1>0, RecordType
<1>4. CASE r \in Trips(Moves)
    <2>1. PICK m \in Moves : r = Record("trip", m.from.last, m.to.first, None)
        BY <1>4 DEF Trips
    <2>2. m.from.last \in Events /\ m.to.first \in Events
        BY RunType, MoveType
    <2> QED
        BY <2>1, <2>2, <1>0, RecordType
<1> QED
    BY <1>1, <1>2, <1>3, <1>4 DEF Derived

\* A record rests on events.
LEMMA SupportsType ==
    ASSUME observed \subseteq Events, NEW r \in Records
    PROVE  Supports(r) \subseteq Events
BY DEF Supports, Records

\* The phone's own transition is a record of its kind.
LEMMA SourceType ==
    ASSUME NEW e \in Events
    PROVE  SourceOf(e) \in Records /\ SourceOf(e).kind = "source"
BY RecordType DEF SourceOf, RecordKinds

\* A new version of a place is one more.
LEMMA VersionsType ==
    ASSUME versions \in [Places -> Seq(Versions)], NEW p \in Places, NEW from \in Nat,
           NEW approved \in BOOLEAN, AddVersion(p, from, approved)
    PROVE  versions' \in [Places -> Seq(Versions)]
BY DEF AddVersion, Versions

\* Who is reconciled is the phone's own provisional transition, by a derived one.
LEMMA ReconciledType ==
    ASSUME NEW derived, NEW pair \in Reconciled(derived)
    PROVE  /\ pair[1] \in provisional /\ pair[1].kind = "source" /\ pair[2] \in derived
           /\ pair = <<pair[1], pair[2]>>
BY DEF Reconciled

\* What a derivation changes, variable by variable.
LEMMA DeriveEffect ==
    ASSUME Derive
    PROVE  /\ confirmed' = (confirmed \ Unsupported(Derived))
                               \cup {r \in New(Derived) : Settled(r)}
           /\ provisional' = (provisional \ (Unsupported(Derived)
                                               \cup {pair[1] : pair \in Reconciled(Derived)}))
                                 \cup {r \in New(Derived) : ~Settled(r)}
           /\ superseded' = superseded \cup Unsupported(Derived)
                                \cup {pair[1] : pair \in Reconciled(Derived)}
           /\ replacedBy' = replacedBy \cup Reconciled(Derived)
           /\ evidence' = evidence \cup DerivedEvidence(Derived)
           /\ outbox' = outbox \cup DerivationEvents(Derived)
           /\ window' = FALSE
           /\ observed' = observed /\ versions' = versions
<1> DEFINE settled == {r \in Derived : Settled(r)}
<1>1. Merge(Derived, settled, DerivedEvidence(Derived))
    BY Zenon DEF Derive
<1>2. /\ New(Derived) \cap settled = {r \in New(Derived) : Settled(r)}
      /\ New(Derived) \ settled = {r \in New(Derived) : ~Settled(r)}
    BY DEF New
<1> HIDE DEF settled
<1> QED
    BY <1>1, <1>2, Zenon DEF Merge

\* What a derivation does to the rows, without how it chooses them.
LEMMA DeriveMoves ==
    ASSUME TypeOK, Derive
    PROVE  \E replaced \in SUBSET provisional :
              /\ replaced = {pair[1] : pair \in Reconciled(Derived)}
              /\ \A r \in replaced : r.kind = "source"
              /\ confirmed' = (confirmed \ Unsupported(Derived))
                                 \cup {r \in New(Derived) : Settled(r)}
              /\ provisional' = (provisional \ (Unsupported(Derived) \cup replaced))
                                   \cup {r \in New(Derived) : ~Settled(r)}
              /\ superseded' = superseded \cup Unsupported(Derived) \cup replaced
<1> DEFINE replaced == {pair[1] : pair \in Reconciled(Derived)}
<1>1. replaced \in SUBSET provisional /\ \A r \in replaced : r.kind = "source"
    BY ReconciledType
<1>2. /\ confirmed' = (confirmed \ Unsupported(Derived))
                         \cup {r \in New(Derived) : Settled(r)}
      /\ provisional' = (provisional \ (Unsupported(Derived) \cup replaced))
                           \cup {r \in New(Derived) : ~Settled(r)}
      /\ superseded' = superseded \cup Unsupported(Derived) \cup replaced
    BY DeriveEffect, Zenon
<1> QED
    BY <1>1, <1>2

\* Every step keeps the types, and a row keeps having one status.
LEMMA TypeStep == TypeOK /\ [Next]_vars => TypeOK'
<1> SUFFICES ASSUME TypeOK, [Next]_vars PROVE TypeOK'
    OBVIOUS
<1>1. ASSUME NEW e \in Events, Observe(e) PROVE TypeOK'
    <2>1. SourceOf(e) \in Records
        BY SourceType
    <2>2. versions' \in [Places -> Seq(Versions)]
        <3>1. CASE Kind[e] = "waypoint" /\ Spot[e] # None
            BY <1>1, <3>1, VersionsType, DerivationAssumption DEF Observe, TypeOK
        <3>2. CASE ~(Kind[e] = "waypoint" /\ Spot[e] # None)
            BY <1>1, <3>2 DEF Observe, TypeOK
        <3> QED
            BY <3>1, <3>2
    <2>3. /\ observed' \subseteq Events /\ window' \in BOOLEAN
          /\ confirmed' = confirmed /\ superseded' = superseded /\ replacedBy' = replacedBy
        BY <1>1 DEF Observe, TypeOK
    <2>4. /\ provisional' \subseteq provisional \cup ({SourceOf(e)} \ Rows)
          /\ evidence' \subseteq evidence \cup {<<SourceOf(e), e>>}
          /\ outbox' \subseteq outbox \cup {Recorded(SourceOf(e))}
        BY <1>1 DEF Observe
    <2>5. outbox' \subseteq [type : {"recorded", "superseded"}, about : Records]
        BY <2>1, <2>4 DEF TypeOK, Recorded
    <2> QED
        BY <2>1, <2>2, <2>3, <2>4, <2>5 DEF TypeOK, Rows
<1>2. ASSUME NEW p \in Places, NEW from \in Reviews, NEW approved \in BOOLEAN,
             RegisterPlace(p, from, approved)
      PROVE  TypeOK'
    BY <1>2, VersionsType, DerivationAssumption DEF RegisterPlace, TypeOK, historyVars
<1>3. CASE Derive
    <2>1. PICK replaced \in SUBSET provisional :
             /\ replaced = {pair[1] : pair \in Reconciled(Derived)}
             /\ confirmed' = (confirmed \ Unsupported(Derived))
                                \cup {r \in New(Derived) : Settled(r)}
             /\ provisional' = (provisional \ (Unsupported(Derived) \cup replaced))
                                  \cup {r \in New(Derived) : ~Settled(r)}
             /\ superseded' = superseded \cup Unsupported(Derived) \cup replaced
        BY <1>3, DeriveMoves
    <2>2. Derived \subseteq Records
        BY DerivedType DEF TypeOK
    <2>3. Unsupported(Derived) \subseteq confirmed \cup provisional
        BY DEF Unsupported
    <2>4. New(Derived) \subseteq Records /\ New(Derived) \cap Rows = {}
        BY <2>2 DEF New
    <2>5. /\ confirmed' \subseteq Records /\ provisional' \subseteq Records
          /\ superseded' \subseteq Records
          /\ confirmed' \cap provisional' = {}
          /\ (confirmed' \cup provisional') \cap superseded' = {}
        BY <2>1, <2>3, <2>4 DEF TypeOK, Rows
    <2>6. replacedBy' \subseteq Records \X Records
        <3>1. Reconciled(Derived) \subseteq Records \X Records
            BY <2>2 DEF Reconciled, TypeOK
        <3>2. replacedBy' = replacedBy \cup Reconciled(Derived)
            BY <1>3, DeriveEffect, Zenon
        <3> QED
            BY <3>1, <3>2 DEF TypeOK
    <2>7. evidence' \subseteq Records \X Events
        <3>1. DerivedEvidence(Derived) \subseteq Records \X Events
            BY <2>2, SupportsType DEF DerivedEvidence, TypeOK
        <3>2. evidence' = evidence \cup DerivedEvidence(Derived)
            BY <1>3, DeriveEffect, Zenon
        <3> QED
            BY <3>1, <3>2 DEF TypeOK
    <2>8. outbox' \subseteq [type : {"recorded", "superseded"}, about : Records]
        <3>1. DerivationEvents(Derived)
                 \subseteq [type : {"recorded", "superseded"}, about : Records]
            BY <2>2, <2>3 DEF DerivationEvents, Recorded, Superseded, TypeOK
        <3>2. outbox' = outbox \cup DerivationEvents(Derived)
            BY <1>3, DeriveEffect, Zenon
        <3> QED
            BY <3>1, <3>2 DEF TypeOK
    <2> QED
        BY <1>3, <2>5, <2>6, <2>7, <2>8, DeriveEffect DEF TypeOK
<1>4. CASE UNCHANGED vars
    BY <1>4 DEF TypeOK, vars, historyVars
<1> QED
    BY <1>1, <1>2, <1>3, <1>4 DEF Next

LEMMA InitType == Init => TypeOK
<1> SUFFICES ASSUME Init PROVE TypeOK
    OBVIOUS
<1>1. << [from |-> 0, approved |-> TRUE] >> \in Seq(Versions)
    BY DEF Versions
<1> QED
    BY <1>1 DEF Init, TypeOK

\* Every variable has its type, and a row has one status.
THEOREM TypeCorrect == Spec => []TypeOK
BY InitType, TypeStep, PTL DEF Spec

-----------------------------------------------------------------------------
(***************************************************************************)
(* The events tell the tables                                              *)
(***************************************************************************)

\* The rows that were withdrawn by a derivation.
Withdrawn == {r \in superseded : r.kind # "source"}

\* Every step writes the events of what it changes.
LEMMA EventsStep == TypeOK /\ EventsTellHistory /\ [Next]_vars => EventsTellHistory'
<1> SUFFICES ASSUME TypeOK, EventsTellHistory, [Next]_vars PROVE EventsTellHistory'
    OBVIOUS
<1>1. ASSUME NEW e \in Events, Observe(e) PROVE EventsTellHistory'
    <2>1. CASE Kind[e] \in {"arrival", "departure"}
        <3>1. Rows' = Rows \cup {SourceOf(e)} /\ superseded' = superseded
              /\ outbox' = outbox \cup {Recorded(SourceOf(e))}
            BY <1>1, <2>1 DEF Observe, Rows
        <3> QED
            BY <3>1 DEF EventsTellHistory
    <2>2. CASE Kind[e] \notin {"arrival", "departure"}
        <3>1. Rows' = Rows /\ superseded' = superseded /\ outbox' = outbox
            BY <1>1, <2>2 DEF Observe, Rows
        <3> QED
            BY <3>1 DEF EventsTellHistory
    <2> QED
        BY <2>1, <2>2
<1>2. ASSUME NEW p \in Places, NEW from \in Reviews, NEW approved \in BOOLEAN,
             RegisterPlace(p, from, approved)
      PROVE  EventsTellHistory'
    BY <1>2 DEF RegisterPlace, historyVars, EventsTellHistory, Rows
<1>3. CASE Derive
    <2>1. PICK replaced \in SUBSET provisional :
             /\ \A r \in replaced : r.kind = "source"
             /\ confirmed' = (confirmed \ Unsupported(Derived))
                                \cup {r \in New(Derived) : Settled(r)}
             /\ provisional' = (provisional \ (Unsupported(Derived) \cup replaced))
                                  \cup {r \in New(Derived) : ~Settled(r)}
             /\ superseded' = superseded \cup Unsupported(Derived) \cup replaced
        BY <1>3, DeriveMoves
    <2>2. /\ Unsupported(Derived) \subseteq confirmed \cup provisional
          /\ \A r \in Unsupported(Derived) : r.kind # "source"
        BY DEF Unsupported
    <2>3. Rows' = Rows \cup Derived
        BY <2>1, <2>2 DEF Rows, New
    <2>4. {r \in superseded' : r.kind # "source"} = Withdrawn \cup Unsupported(Derived)
        BY <2>1, <2>2 DEF Withdrawn
    <2>5. outbox' = outbox \cup DerivationEvents(Derived)
        BY <1>3, DeriveEffect, Zenon
    <2>6. outbox = {Recorded(r) : r \in Rows} \cup {Superseded(r) : r \in Withdrawn}
        BY DEF EventsTellHistory, Withdrawn
    <2>7. outbox' = {Recorded(r) : r \in Rows \cup Derived}
                       \cup {Superseded(r) : r \in Withdrawn \cup Unsupported(Derived)}
        BY <2>5, <2>6 DEF DerivationEvents
    <2> QED
        BY <2>3, <2>4, <2>7 DEF EventsTellHistory
<1>4. CASE UNCHANGED vars
    BY <1>4 DEF vars, historyVars, EventsTellHistory, Rows
<1> QED
    BY <1>1, <1>2, <1>3, <1>4 DEF Next

\* The stored events announce every row and withdraw exactly the superseded rows
\* of the algorithm.
THEOREM EventsTell == Spec => []EventsTellHistory
<1>1. Init => EventsTellHistory
    BY DEF Init, EventsTellHistory, Rows
<1> QED
    BY <1>1, TypeCorrect, EventsStep, PTL DEF Spec

-----------------------------------------------------------------------------
(***************************************************************************)
(* Provenance                                                              *)
(***************************************************************************)

\* Evidence is filed for what supports a derived record, and never for more: with
\* it, an observation in the middle is the only evidence that can be missing.
OnlySupports ==
    \A r \in Records, e \in Events :
        <<r, e>> \in evidence /\ r.kind # "source" => e \in Supports(r)

ProvenanceInvariant == TypeOK /\ OnlySupports /\ ProvenanceComplete

\* With more observations a record has no less support.
LEMMA SupportsGrow ==
    ASSUME observed \subseteq observed', NEW r
    PROVE  Supports(r) \subseteq Supports(r)'
BY DEF Supports

LEMMA ProvenanceStep == ProvenanceInvariant /\ [Next]_vars => ProvenanceInvariant'
<1> SUFFICES ASSUME ProvenanceInvariant, [Next]_vars PROVE ProvenanceInvariant'
    OBVIOUS
<1>0. TypeOK'
    BY TypeStep DEF ProvenanceInvariant
<1>1. ASSUME NEW e \in Events, Observe(e) PROVE OnlySupports' /\ ProvenanceComplete'
    <2>1. observed \subseteq observed' /\ window' = TRUE
        BY <1>1 DEF Observe
    <2>2. evidence' \subseteq evidence \cup {<<SourceOf(e), e>>}
        BY <1>1 DEF Observe
    <2>3. OnlySupports'
        BY <2>1, <2>2, SupportsGrow, SourceType DEF OnlySupports, ProvenanceInvariant
    <2> QED
        BY <2>1, <2>3 DEF ProvenanceComplete
<1>2. ASSUME NEW p \in Places, NEW from \in Reviews, NEW approved \in BOOLEAN,
             RegisterPlace(p, from, approved)
      PROVE  OnlySupports' /\ ProvenanceComplete'
    BY <1>2 DEF RegisterPlace, historyVars, ProvenanceInvariant, OnlySupports,
                ProvenanceComplete, Active, Supports
<1>3. CASE Derive
    <2>1. /\ evidence' = evidence \cup DerivedEvidence(Derived)
          /\ observed' = observed
        BY <1>3, DeriveEffect, Zenon
    <2>2. \A r : Supports(r)' = Supports(r)
        BY <2>1 DEF Supports
    <2>3. \A r, e : <<r, e>> \in DerivedEvidence(Derived)
                       <=> r \in Derived /\ e \in Supports(r)
        BY DEF DerivedEvidence
    <2>4. OnlySupports'
        BY <2>1, <2>2, <2>3 DEF OnlySupports, ProvenanceInvariant
    <2>5. \A r \in Active' : r.kind # "source" => r \in Derived
        BY <1>3, DeriveMoves DEF Active, Unsupported, New, ProvenanceInvariant
    <2>6. Active' \subseteq Records /\ \A r \in Records : Supports(r) \subseteq Events
        BY <1>0, SupportsType DEF Active, TypeOK, ProvenanceInvariant
    <2>7. ASSUME NEW r \in Active', r.kind # "source"
          PROVE  {e \in Events : <<r, e>> \in evidence'} = Supports(r)'
        <3>1. r \in Derived /\ r \in Records /\ Supports(r) \subseteq Events
            BY <2>5, <2>6, <2>7
        <3>2. \A e \in Events : <<r, e>> \in evidence' => e \in Supports(r)
            BY <2>1, <2>3, <2>7, <3>1 DEF OnlySupports, ProvenanceInvariant
        <3>3. \A e \in Supports(r) : <<r, e>> \in evidence'
            BY <2>1, <2>3, <3>1
        <3> QED
            BY <2>2, <3>1, <3>2, <3>3
    <2> QED
        BY <1>0, <2>4, <2>7 DEF ProvenanceComplete, ProvenanceInvariant
<1>4. CASE UNCHANGED vars
    <2>1. OnlySupports' /\ ProvenanceComplete'
        BY <1>4 DEF vars, historyVars, ProvenanceInvariant, OnlySupports,
                    ProvenanceComplete, Active, Supports
    <2> QED
        BY <1>0, <2>1 DEF ProvenanceInvariant
<1> QED
    BY <1>0, <1>1, <1>2, <1>3, <1>4 DEF Next, ProvenanceInvariant

\* The evidence filed for an active record is all there is, once it is derived
\* anew.
THEOREM ProvenanceKept == Spec => []ProvenanceComplete
<1>1. Init => ProvenanceInvariant
    <2>1. Init => OnlySupports /\ ProvenanceComplete
        BY DEF Init, OnlySupports, ProvenanceComplete, Active
    <2>2. Init => TypeOK
        BY InitType
    <2> QED
        BY <2>1, <2>2 DEF ProvenanceInvariant
<1>2. ProvenanceInvariant => ProvenanceComplete
    BY DEF ProvenanceInvariant
<1> QED
    BY <1>1, <1>2, ProvenanceStep, PTL DEF Spec

-----------------------------------------------------------------------------
(***************************************************************************)
(* One timeline                                                            *)
(***************************************************************************)

Stay(p) == {e \in observed : PlaceOf(e) = p}

\* The two runs share no observation unless they are the same: a longer one would
\* continue the other.
LEMMA RunsApart ==
    ASSUME observed \subseteq Events, NEW v \in Runs, NEW w \in Runs, v # w
    PROVE  v.last < w.first \/ w.last < v.first
<1> SUFFICES ASSUME w.first <= v.last, v.first <= w.last PROVE FALSE
    BY RunType, DerivationAssumption
<1>1. PICK p \in Places : v \in Stretches(Stay(p))
    BY DEF Runs, Stay
<1>2. PICK q \in Places : w \in Stretches(Stay(q))
    BY DEF Runs, Stay
<1>3. /\ v.first \in Stay(p) /\ v.last \in Stay(p) /\ v.first <= v.last
      /\ Unbroken(Stay(p), v.first, v.last)
      /\ \A e \in Stay(p) : /\ e < v.first => ~Unbroken(Stay(p), e, v.last)
                            /\ v.last < e => ~Unbroken(Stay(p), v.first, e)
    BY <1>1 DEF Stretches
<1>4. /\ w.first \in Stay(q) /\ w.last \in Stay(q) /\ w.first <= w.last
      /\ Unbroken(Stay(q), w.first, w.last)
      /\ \A e \in Stay(q) : /\ e < w.first => ~Unbroken(Stay(q), e, w.last)
                            /\ w.last < e => ~Unbroken(Stay(q), w.first, e)
    BY <1>2 DEF Stretches
<1>5. Stay(p) \subseteq observed /\ Stay(q) \subseteq observed /\ observed \subseteq Nat
    BY DerivationAssumption DEF Stay
<1>6. v.first \in Nat /\ v.last \in Nat /\ w.first \in Nat /\ w.last \in Nat
    BY <1>3, <1>4, <1>5
<1>7. p = q
    <2>1. CASE v.first <= w.first
        <3>1. w.first \in Stay(p)
            BY <1>3, <1>4, <1>5, <2>1 DEF Unbroken
        <3> QED
            BY <3>1, <1>4 DEF Stay
    <2>2. CASE w.first <= v.first
        <3>1. v.first \in Stay(q)
            BY <1>3, <1>4, <1>5, <2>2 DEF Unbroken
        <3> QED
            BY <3>1, <1>3 DEF Stay
    <2> QED
        BY <2>1, <2>2, <1>6
<1>8. ASSUME NEW a \in observed, NEW e \in observed, a <= e, e <= w.last,
             Unbroken(Stay(p), a, v.last), w.first <= v.last
      PROVE  e \in Stay(p)
    <2>1. CASE e <= v.last
        BY <1>8, <2>1 DEF Unbroken
    <2>2. CASE w.first <= e
        BY <1>4, <1>7, <1>8, <2>2 DEF Unbroken
    <2> QED
        BY <2>1, <2>2, <1>5, <1>6, <1>8
<1>9. ASSUME NEW a \in observed, NEW e \in observed, a <= e, e <= v.last,
             Unbroken(Stay(p), a, w.last), v.first <= w.last
      PROVE  e \in Stay(p)
    <2>1. CASE e <= w.last
        BY <1>9, <2>1 DEF Unbroken
    <2>2. CASE v.first <= e
        BY <1>3, <1>9, <2>2 DEF Unbroken
    <2> QED
        BY <2>1, <2>2, <1>5, <1>6, <1>9
<1>10. ~(v.first < w.first)
    <2> SUFFICES ASSUME v.first < w.first PROVE Unbroken(Stay(p), v.first, w.last)
        BY <1>3, <1>4, <1>7
    <2> QED
        BY <1>3, <1>5, <1>8 DEF Unbroken
<1>11. ~(w.first < v.first)
    <2> SUFFICES ASSUME w.first < v.first PROVE Unbroken(Stay(p), w.first, v.last)
        BY <1>3, <1>4, <1>7
    <2> QED
        BY <1>4, <1>5, <1>7, <1>9 DEF Unbroken
<1>12. v.first = w.first
    BY <1>6, <1>10, <1>11
<1>13. v.last = w.last
    BY <1>3, <1>4, <1>6, <1>7, <1>12
<1> QED
    BY <1>12, <1>13, RunType

\* Whatever is observed, the records derived from it are one timeline.
LEMMA VisitsApart ==
    ASSUME observed \subseteq Events, NEW v \in Visits, NEW w \in Visits, v # w
    PROVE  v.last < w.first \/ w.last < v.first
<1>1. PICK a \in Runs : v = Record("visit", a.first, a.last, PlaceOf(a.first))
    BY DEF Visits
<1>2. PICK b \in Runs : w = Record("visit", b.first, b.last, PlaceOf(b.first))
    BY DEF Visits
<1>3. a # b
    BY <1>1, <1>2
<1>4. v.first = a.first /\ v.last = a.last /\ w.first = b.first /\ w.last = b.last
    BY <1>1, <1>2 DEF Record
<1> QED
    BY <1>3, <1>4, RunsApart

\* A trip meets any run at most at its ends.
LEMMA TripBetween ==
    ASSUME observed \subseteq Events, NEW m \in Moves, NEW run \in Runs
    PROVE  run.last <= m.from.last \/ m.to.first <= run.first
BY DEF Moves

LEMMA TripsApart ==
    ASSUME observed \subseteq Events, NEW t \in Trips(Moves),
           NEW r \in Trips(Moves) \cup Visits, t # r
    PROVE  Disjoint(t, r)
<1>1. PICK m \in Moves : t = Record("trip", m.from.last, m.to.first, None)
    BY DEF Trips
<1>2. t.first = m.from.last /\ t.last = m.to.first
    BY <1>1 DEF Record
<1>3. CASE r \in Visits
    <2>1. PICK run \in Runs : r = Record("visit", run.first, run.last, PlaceOf(run.first))
        BY <1>3 DEF Visits
    <2>2. r.first = run.first /\ r.last = run.last
        BY <2>1 DEF Record
    <2> QED
        BY <1>2, <2>2, TripBetween DEF Disjoint
<1>4. CASE r \in Trips(Moves)
    <2>1. PICK n \in Moves : r = Record("trip", n.from.last, n.to.first, None)
        BY <1>4 DEF Trips
    <2>2. r.first = n.from.last /\ r.last = n.to.first
        BY <2>1 DEF Record
    <2>3. /\ m.from.first <= m.from.last /\ m.to.first <= m.to.last
          /\ n.from.first <= n.from.last /\ n.to.first <= n.to.last
          /\ {m.from.first, m.from.last, m.to.first, m.to.last} \subseteq Nat
          /\ {n.from.first, n.from.last, n.to.first, n.to.last} \subseteq Nat
        BY MoveType, RunType, DerivationAssumption
    <2>4. /\ n.from.last <= m.from.last \/ m.to.first <= n.from.first
          /\ n.to.last <= m.from.last \/ m.to.first <= n.to.first
          /\ m.from.last <= n.from.last \/ n.to.first <= m.from.first
          /\ m.to.last <= n.from.last \/ n.to.first <= m.to.first
        BY MoveType, TripBetween
    <2>5. m.from.last # n.from.last \/ m.to.first # n.to.first
        BY <1>1, <2>1
    <2> QED
        BY <1>2, <2>2, <2>3, <2>4, <2>5 DEF Disjoint
<1> QED
    BY <1>3, <1>4

LEMMA GapsApart ==
    ASSUME observed \subseteq Events, NEW g \in Gaps, NEW h \in Gaps, g # h
    PROVE  Disjoint(g, h)
<1>1. PICK a \in observed, b \in observed :
         /\ g = Record("coverage_gap", a, b, None)
         /\ a < b /\ ~ \E e \in observed : a < e /\ e < b
    BY DEF Gaps
<1>2. PICK c \in observed, d \in observed :
         /\ h = Record("coverage_gap", c, d, None)
         /\ c < d /\ ~ \E e \in observed : c < e /\ e < d
    BY DEF Gaps
<1>3. g.first = a /\ g.last = b /\ h.first = c /\ h.last = d
    BY <1>1, <1>2 DEF Record
<1>4. a # c \/ b # d
    BY <1>1, <1>2
<1>5. a \in Nat /\ b \in Nat /\ c \in Nat /\ d \in Nat
    BY DerivationAssumption
<1>6. ~(a < c /\ c < b) /\ ~(c < a /\ a < d) /\ ~(a < d /\ d < b) /\ ~(c < b /\ b < d)
    BY <1>1, <1>2
<1>7. b <= c \/ d <= a
    BY <1>1, <1>2, <1>4, <1>5, <1>6
<1> QED
    BY <1>3, <1>7 DEF Disjoint

\* The kind of what is derived.
LEMMA DerivedKinds ==
    ASSUME NEW r \in Derived
    PROVE  /\ r.kind = "visit" => r \in Visits
           /\ r.kind = "trip" => r \in Trips(Moves)
           /\ r.kind = "coverage_gap" => r \in Gaps
BY DEF Derived, Gaps, Visits, Transitions, Trips, Record

\* The records of a timeline come and go in a derivation only.
LEMMA TimelineStep == TypeOK /\ TimelineConsistent /\ [Next]_vars => TimelineConsistent'
<1> SUFFICES ASSUME TypeOK, TimelineConsistent, [Next]_vars PROVE TimelineConsistent'
    OBVIOUS
<1>1. ASSUME \A kind \in {"visit", "trip", "coverage_gap"} :
                ActiveOf(kind)' \subseteq ActiveOf(kind)
      PROVE  TimelineConsistent'
    BY <1>1 DEF TimelineConsistent, Disjoint
<1>2. ASSUME NEW e \in Events, Observe(e) PROVE TimelineConsistent'
    <2>1. Active' \subseteq Active \cup {SourceOf(e)}
        BY <1>2 DEF Observe, Active
    <2> QED
        BY <1>1, <2>1, SourceType DEF ActiveOf
<1>3. ASSUME NEW p \in Places, NEW from \in Reviews, NEW approved \in BOOLEAN,
             RegisterPlace(p, from, approved)
      PROVE  TimelineConsistent'
    BY <1>1, <1>3 DEF RegisterPlace, historyVars, ActiveOf, Active
<1>4. CASE Derive
    <2>1. \A r \in Active' : r.kind # "source" => r \in Derived
        BY <1>4, DeriveMoves DEF Active, Unsupported, New
    <2>2. /\ ActiveOf("visit")' \subseteq Visits
          /\ ActiveOf("trip")' \subseteq Trips(Moves)
          /\ ActiveOf("coverage_gap")' \subseteq Gaps
        BY <2>1, DerivedKinds DEF ActiveOf
    <2>3. observed \subseteq Events
        BY DEF TypeOK
    <2>4. \A v, w \in ActiveOf("visit")' : v # w => v.last < w.first \/ w.last < v.first
        BY <2>2, <2>3, VisitsApart
    <2>5. \A t \in ActiveOf("trip")', r \in ActiveOf("trip")' \cup ActiveOf("visit")' :
             t # r => Disjoint(t, r)
        BY <2>2, <2>3, TripsApart
    <2>6. \A g, h \in ActiveOf("coverage_gap")' : g # h => Disjoint(g, h)
        BY <2>2, <2>3, GapsApart
    <2> QED
        BY <2>4, <2>5, <2>6 DEF TimelineConsistent, Disjoint
<1>5. CASE UNCHANGED vars
    BY <1>1, <1>5 DEF vars, historyVars, ActiveOf, Active
<1> QED
    BY <1>2, <1>3, <1>4, <1>5 DEF Next

\* At every moment the active records are one consistent timeline.
THEOREM OneTimeline == Spec => []TimelineConsistent
<1>1. Init => TimelineConsistent
    BY DEF Init, TimelineConsistent, ActiveOf, Active
<1> QED
    BY <1>1, TypeCorrect, TimelineStep, PTL DEF Spec
=============================================================================
