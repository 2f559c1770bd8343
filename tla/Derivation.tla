----------------------------- MODULE Derivation -----------------------------
(***************************************************************************)
(* Derivation of a subject's history (src/hermodr/derivation.py).  Every   *)
(* run orders all observations that exist, cuts them into runs at one      *)
(* place, derives gaps, visits, transitions and trips, and merges them     *)
(* into the tables that earlier runs have filled: what is there already    *)
(* stays as it is, what is derived no longer is superseded.                *)
(*                                                                         *)
(* Observations arrive in any order (src/hermodr/processor.py); a waypoint *)
(* proposes a new version of its place.  A derivation is one transaction.  *)
(***************************************************************************)
EXTENDS Integers, FiniteSets, Sequences

CONSTANTS
    Events,      \* what the phone reports, numbered in the order of _evidence
    Time,        \* Time[e]: captured_at_ms
    Kind,        \* Kind[e]: the source type
    Spot,        \* Spot[e]: the one place whose circle e falls into, or None
    Places,
    None,        \* no place
    Dwell,       \* visit_dwell_ms
    Silence,     \* coverage_gap_ms
    Tolerance,   \* how far apart the phone's and the derived transition may be
    Reviews,     \* bound: the moments from which a review of a place takes effect
    MaxVersions  \* bound: versions of a place that the owner registers

SourceKinds == {"location", "arrival", "departure", "waypoint", "status"}

ASSUME DerivationAssumption ==
    /\ Events \subseteq Nat /\ IsFiniteSet(Events)
    /\ Time \in [Events -> Nat]
    /\ \A d, e \in Events : d < e => Time[d] <= Time[e]
    /\ Kind \in [Events -> SourceKinds]
    /\ None \notin Places
    /\ Spot \in [Events -> Places \cup {None}]
    /\ Dwell \in Nat /\ Silence \in Nat /\ Tolerance \in Nat
    /\ Reviews \subseteq Nat /\ MaxVersions \in Nat

\* An identifier is computed from the end points of a record and its place.
RecordKinds == {"coverage_gap", "visit", "departure", "arrival", "trip", "source"}
Records == [kind : RecordKinds, first : Events, last : Events, place : Places \cup {None}]
Record(kind, a, b, p) == [kind |-> kind, first |-> a, last |-> b, place |-> p]

\* The transition the phone reports itself, owntracks-transition-v1.
SourceOf(e) == Record("source", e, e, None)

VARIABLES
    observed,     \* observations
    versions,     \* versions[p]: places.effective_from_ms and approval, by version
    confirmed,    \* the derived tables by status
    provisional,
    superseded,
    replacedBy,   \* superseded_by, as pairs
    evidence,     \* record_evidence
    outbox,       \* events of outbox_records about derived records, by event_id
    window        \* a recompute window of the subject is pending

historyVars == <<confirmed, provisional, superseded, replacedBy, evidence, outbox>>
vars == <<observed, versions, historyVars, window>>

Versions == [from : Nat, approved : BOOLEAN]
Rows == confirmed \cup provisional \cup superseded
Recorded(r) == [type |-> "recorded", about |-> r]
Superseded(r) == [type |-> "superseded", about |-> r]

\* Every place has been approved from the beginning.
Init ==
    /\ observed = {}
    /\ versions = [p \in Places |-> << [from |-> 0, approved |-> TRUE] >>]
    /\ confirmed = {} /\ provisional = {} /\ superseded = {}
    /\ replacedBy = {} /\ evidence = {} /\ outbox = {}
    /\ window = FALSE

-----------------------------------------------------------------------------
(***************************************************************************)
(* Places and runs                                                         *)
(***************************************************************************)

\* The place an observation counts for: the latest version in effect at its
\* time must be an approved one.
PlaceOf(e) ==
    LET p == Spot[e]
        effective == {i \in DOMAIN versions[p] : versions[p][i].from <= Time[e]}
    IN  IF p # None /\ \E i \in effective :
                          versions[p][i].approved /\ \A j \in effective : j <= i
        THEN p ELSE None

\* The evidence from a to b is all from one stay.
Unbroken(stay, a, b) == \A e \in observed : a <= e /\ e <= b => e \in stay

\* Its longest unbroken stretches.
Stretches(stay) ==
    {run \in [first : stay, last : stay] :
        /\ run.first <= run.last
        /\ Unbroken(stay, run.first, run.last)
        /\ \A e \in stay : /\ e < run.first => ~Unbroken(stay, e, run.last)
                           /\ run.last < e => ~Unbroken(stay, run.first, e)}

Runs == UNION {Stretches({e \in observed : PlaceOf(e) = p}) : p \in Places}

\* Consecutive runs at different places, between which the subject has moved.
Moves ==
    LET runs == Runs
    IN  {move \in [from : runs, to : runs] :
            /\ move.from.last < move.to.first
            /\ \A other \in runs : other.last <= move.from.last \/ move.to.first <= other.first
            /\ PlaceOf(move.from.last) # PlaceOf(move.to.first)}

-----------------------------------------------------------------------------
(***************************************************************************)
(* The records derived from what is observed                               *)
(***************************************************************************)

Gaps ==
    {Record("coverage_gap", g[1], g[2], None) :
        g \in {g \in observed \X observed :
                  /\ g[1] < g[2]
                  /\ ~ \E e \in observed : g[1] < e /\ e < g[2]
                  /\ Time[g[2]] - Time[g[1]] > Silence}}

Visits == {Record("visit", run.first, run.last, PlaceOf(run.first)) : run \in Runs}

Transitions(moves) ==
    UNION {{Record("departure", m.from.last, m.from.last, PlaceOf(m.from.last)),
            Record("arrival", m.to.first, m.to.first, PlaceOf(m.to.first))} : m \in moves}

Trips(moves) == {Record("trip", m.from.last, m.to.first, None) : m \in moves}

Derived ==
    LET moves == Moves IN Gaps \cup Visits \cup Transitions(moves) \cup Trips(moves)

\* Every record but a visit is confirmed from the start; a visit if another run
\* follows and it is long enough.
Settled(r) ==
    r.kind = "visit" =>
        /\ \E e \in observed : r.last < e /\ PlaceOf(e) # None
        /\ Time[r.last] - Time[r.first] >= Dwell

\* The observations a derived record rests on.
Supports(r) ==
    IF r.kind = "coverage_gap" THEN {r.first, r.last}
    ELSE IF r.kind = "trip"
    THEN {e \in observed : Time[r.first] <= Time[e] /\ Time[e] <= Time[r.last]}
    ELSE {e \in observed : r.first <= e /\ e <= r.last}

-----------------------------------------------------------------------------
(***************************************************************************)
(* Operations                                                              *)
(***************************************************************************)

\* register_place adds a version to a place.
AddVersion(p, from, approved) ==
    versions' = [versions EXCEPT ![p] = Append(@, [from |-> from, approved |-> approved])]

\* The part of normalize_claimed that writes canonical rows and schedules the
\* recompute window: a transition of the phone is stored as a provisional one, a
\* waypoint proposes a version of its place.
Observe(e) ==
    /\ e \notin observed
    /\ Kind[e] # "status"
    /\ observed' = observed \cup {e}
    /\ IF Kind[e] \in {"arrival", "departure"}
       THEN /\ provisional' = provisional \cup ({SourceOf(e)} \ Rows)
            /\ evidence' = evidence \cup {<<SourceOf(e), e>>}
            /\ outbox' = outbox \cup {Recorded(SourceOf(e))}
       ELSE UNCHANGED <<provisional, evidence, outbox>>
    /\ IF Kind[e] = "waypoint" /\ Spot[e] # None
       THEN AddVersion(Spot[e], Time[e], FALSE)
       ELSE UNCHANGED versions
    /\ window' = TRUE
    /\ UNCHANGED <<confirmed, superseded, replacedBy>>

\* The owner approves or rejects a place from some time on.
RegisterPlace(p, from, approved) ==
    /\ Len(versions[p]) < MaxVersions
    /\ AddVersion(p, from, approved)
    /\ UNCHANGED <<observed, historyVars, window>>

\* The phone's transition s is close to the derived transition t.
Matches(s, t) ==
    /\ s.kind = "source" /\ t.kind = Kind[s.first]
    /\ Time[s.first] - Time[t.first] \in -Tolerance..Tolerance

\* The pairs of transitions that are reconciled: the first match counts.
Reconciled(derived) ==
    {pair \in {r \in provisional : r.kind = "source"} \X derived :
        /\ Matches(pair[1], pair[2])
        /\ \A t \in derived : Matches(pair[1], t) => pair[2].first <= t.first}

\* Mutant: the trips of earlier derivations stay.
UnsupportedButTrips(derived) ==
    {r \in (confirmed \cup provisional) \ derived : r.kind \notin {"source", "trip"}}

\* _supersede_missing: the active records of the algorithm that are derived no
\* longer.
Unsupported(derived) == {r \in (confirmed \cup provisional) \ derived : r.kind # "source"}

\* INSERT OR IGNORE: a row that exists stays as it is, whatever its status.
New(derived) == derived \ Rows

\* Mutant: evidence is recorded with a new row only.
EvidenceOfNewRows(derived) == UNION {{r} \X Supports(r) : r \in derived \ Rows}

\* _record_evidence, for every record that is derived.
DerivedEvidence(derived) == UNION {{r} \X Supports(r) : r \in derived}

\* The events of a derivation; those that are stored already are ignored.
DerivationEvents(derived) ==
    {Recorded(r) : r \in derived} \cup {Superseded(r) : r \in Unsupported(derived)}

\* What derive_subject writes, in the transaction of reprocess_subject: the derived
\* records, which of them are confirmed, and their evidence.
Merge(derived, settled, filed) ==
    LET pairs == Reconciled(derived)
        replaced == {pair[1] : pair \in pairs}
    IN  /\ confirmed' = (confirmed \ Unsupported(derived)) \cup (New(derived) \cap settled)
        /\ provisional' = (provisional \ (Unsupported(derived) \cup replaced))
                             \cup (New(derived) \ settled)
        /\ superseded' = superseded \cup Unsupported(derived) \cup replaced
        /\ replacedBy' = replacedBy \cup pairs
        /\ evidence' = evidence \cup filed
        /\ outbox' = outbox \cup DerivationEvents(derived)
        /\ window' = FALSE
        /\ UNCHANGED <<observed, versions>>

\* derive_subject.
Derive ==
    LET derived == Derived
    IN  Merge(derived, {r \in derived : Settled(r)}, DerivedEvidence(derived))

-----------------------------------------------------------------------------
Next ==
    \/ \E e \in Events : Observe(e)
    \/ \E p \in Places, from \in Reviews, approved \in BOOLEAN :
          RegisterPlace(p, from, approved)
    \/ Derive

Spec == Init /\ [][Next]_vars

-----------------------------------------------------------------------------
(***************************************************************************)
(* Properties                                                              *)
(***************************************************************************)

\* Every variable has its type, and a row has one status.
TypeOK ==
    /\ observed \subseteq Events
    /\ versions \in [Places -> Seq(Versions)]
    /\ confirmed \subseteq Records /\ provisional \subseteq Records
    /\ superseded \subseteq Records
    /\ confirmed \cap provisional = {}
    /\ (confirmed \cup provisional) \cap superseded = {}
    /\ replacedBy \subseteq Records \X Records
    /\ evidence \subseteq Records \X Events
    /\ outbox \subseteq [type : {"recorded", "superseded"}, about : Records]
    /\ window \in BOOLEAN

\* What is shown: the rows that are not superseded.
Active == confirmed \cup provisional
ActiveOf(kind) == {r \in Active : r.kind = kind}

Disjoint(r, s) == r.last <= s.first \/ s.last <= r.first

\* At every moment the active records are one consistent timeline, however many
\* derivations over late evidence and changed places have merged into the tables:
\* no two visits share an observation, trips lie between visits, and trips and
\* gaps at most meet.
TimelineConsistent ==
    /\ \A v, w \in ActiveOf("visit") : v # w => v.last < w.first \/ w.last < v.first
    /\ \A t \in ActiveOf("trip"), r \in ActiveOf("trip") \cup ActiveOf("visit") :
          t # r => Disjoint(t, r)
    /\ \A g, h \in ActiveOf("coverage_gap") : g # h => Disjoint(g, h)

\* Once no window is pending, the evidence filed for an active derived record is
\* all there is, also if an observation has come in the middle of it after the
\* row was written.
ProvenanceComplete ==
    ~window => \A r \in Active : r.kind # "source" =>
                  {e \in Events : <<r, e>> \in evidence} = Supports(r)

\* The events tell the tables: a row was announced once it exists, and withdrawn
\* exactly if it is superseded and was not the phone's own.
EventsTellHistory ==
    outbox = {Recorded(r) : r \in Rows}
                \cup {Superseded(r) : r \in {s \in superseded : s.kind # "source"}}

-----------------------------------------------------------------------------
\* IMPLEMENTATION_DESIGN.md, 8.3: "changed record: old version becomes
\* superseded and a replacement plus supersession event is appended".  A visit
\* that is derived while it is the last one is inserted as provisional; once it is
\* over it has the same identifier, and the row that exists is ignored.
SettledIsConfirmed ==
    ~window => \A r \in Visits : Settled(r) => r \in confirmed
=============================================================================
