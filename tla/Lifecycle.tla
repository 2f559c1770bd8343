----------------------------- MODULE Lifecycle ------------------------------
(***************************************************************************)
(* Retention and reviewed deletion (src/hermodr/lifecycle.py) around the   *)
(* derivation of a subject's history.  Reports are received, normalized    *)
(* and derived from; retention scrubs old payloads and removes old         *)
(* observations and normalized events; the owner plans a deletion and      *)
(* applies it.                                                             *)
(*                                                                         *)
(* Retention is one transaction.  A deletion is not: apply_deletion reads  *)
(* the plan and selects the rows before BEGIN IMMEDIATE, so that every     *)
(* other operation can come in between.                                    *)
(***************************************************************************)
EXTENDS Derivation

CONSTANTS
    Plans,       \* deletion plans that can be made
    Operators,   \* who applies them
    Ranges,      \* the ranges of time of plans and holds
    RawAge,      \* retention_policies.raw_days
    NormAge,     \* retention_policies.normalized_days
    PlanLife,    \* DAY_MS
    BatchSize,   \* batch_size of a retention run
    SortsLast,   \* events whose reported transition sorts after its replacement
    Nothing,     \* no selection
    MaxClock     \* bound: the clock stops here

ASSUME LifecycleAssumption ==
    /\ IsFiniteSet(Places)
    /\ Ranges \subseteq [from : Nat, to : Nat]
    /\ RawAge \in Nat /\ NormAge \in Nat /\ PlanLife \in Nat
    /\ BatchSize \in Nat \ {0}
    /\ SortsLast \subseteq Events
    /\ MaxClock \in Nat

VARIABLES
    now,
    raw,         \* raw_events and their payloads
    job,         \* processing_jobs and quarantine
    normalized,  \* normalized_events
    holds,       \* retention_holds that are not released
    plan,        \* deletion_plans
    chosen,      \* what apply_deletion has selected, by operator
    tombstones,  \* records with a record.tombstoned event
    erased       \* history: events that a deletion has removed

dataVars == <<vars, raw, job, normalized, tombstones, erased>>
lifecycleVars == <<dataVars, now, holds, plan, chosen>>

\* A plan that has not been made.
NoPlan == [status |-> "none"]

LifecycleInit ==
    /\ Init
    /\ now = 0
    /\ raw = [e \in Events |-> "absent"]
    /\ job = [e \in Events |-> "none"]
    /\ normalized = {} /\ holds = {} /\ tombstones = {} /\ erased = {}
    /\ plan = [p \in Plans |-> NoPlan]
    /\ chosen = [o \in Operators |-> Nothing]

Within(range, t) == range.from <= t /\ t <= range.to
Held(e) == \E range \in holds : Within(range, Time[e])

-----------------------------------------------------------------------------
(***************************************************************************)
(* The pipeline                                                            *)
(***************************************************************************)

\* The receiver stores a report with its job, or in quarantine if it is from the
\* future.  A report that is sent again after its deletion has new identifiers: it
\* is another event.
Receive(e) ==
    /\ job[e] = "none" /\ e \notin erased
    /\ raw' = [raw EXCEPT ![e] = "stored"]
    /\ job' = [job EXCEPT ![e] = IF Time[e] <= now THEN "pending" ELSE "quarantined"]
    /\ UNCHANGED <<vars, normalized, tombstones, erased, now, holds, plan, chosen>>

\* normalize_claimed; a job whose payload has been scrubbed fails for good.
Normalize(e) ==
    /\ job[e] = "pending"
    /\ IF raw[e] = "scrubbed"
       THEN /\ job' = [job EXCEPT ![e] = "failed"]
            /\ UNCHANGED <<vars, normalized>>
       ELSE /\ job' = [job EXCEPT ![e] = "processed"]
            /\ normalized' = normalized \cup {e}
            /\ IF Kind[e] = "status" THEN UNCHANGED vars ELSE Observe(e)
    /\ UNCHANGED <<raw, tombstones, erased, now, holds, plan, chosen>>

Reprocess ==
    /\ Derive
    /\ UNCHANGED <<raw, job, normalized, tombstones, erased, now, holds, plan, chosen>>

\* The owner holds a range or releases it; no code of the repository does.
SetHold(range) ==
    /\ holds' = IF range \in holds THEN holds \ {range} ELSE holds \cup {range}
    /\ UNCHANGED <<dataVars, now, plan, chosen>>

Tick ==
    /\ now < MaxClock
    /\ now' = now + 1
    /\ UNCHANGED <<dataVars, holds, plan, chosen>>

-----------------------------------------------------------------------------
(***************************************************************************)
(* Retention                                                               *)
(***************************************************************************)

\* Mutant: evidence of unresolved records is removed like any other.
NothingUnresolved(e) == FALSE

\* A provisional record rests on the observation.
Unresolved(e) == \E r \in provisional : <<r, e>> \in evidence

\* Mutant: holds are looked at when payloads are scrubbed, not afterwards.
OldEvenIfHeld(batch) == {e \in batch : ~Unresolved(e)}

\* The observations of a batch that are removed.
Removable(batch) == {e \in batch : ~Held(e) /\ ~Unresolved(e)}

\* Mutant: normalized events go by their age alone.
OnlyRecent(kept) == {e \in normalized : Time[e] >= now - NormAge}

\* The normalized events that are recent or whose observation is kept.
Needed(kept) == {e \in normalized : Time[e] >= now - NormAge \/ e \in kept}

\* The first observations in the order of their times, before the held and the
\* unresolved ones are taken out.
FirstOf(old) == {e \in old : Cardinality({d \in old : d < e}) < BatchSize}

\* apply_retention.  The order of receipt in which payloads are scrubbed is left
\* open.
Retain ==
    LET due == {e \in Events : raw[e] = "stored" /\ Time[e] < now - RawAge /\ ~Held(e)}
        old == {e \in observed : Time[e] < now - NormAge}
        removable == Removable(FirstOf(old))
    IN  /\ \E batch \in SUBSET due :
              /\ Cardinality(batch) <= BatchSize
              /\ Cardinality(batch) = BatchSize \/ batch = due
              /\ raw' = [e \in Events |-> IF e \in batch THEN "scrubbed" ELSE raw[e]]
        /\ observed' = observed \ removable
        /\ evidence' = {pair \in evidence : pair[2] \notin removable}
        /\ normalized' = Needed(observed \ removable)
        /\ UNCHANGED <<versions, confirmed, provisional, superseded, replacedBy, outbox, window>>
        /\ UNCHANGED <<job, tombstones, erased, now, holds, plan, chosen>>

-----------------------------------------------------------------------------
(***************************************************************************)
(* Deletion                                                                *)
(***************************************************************************)

\* _selected_records: what begins in the range.
Selected(range) ==
    [range |-> range,
     raw |-> {e \in Events : raw[e] # "absent" /\ Within(range, Time[e])},
     normalized |-> {e \in normalized : Within(range, Time[e])},
     observed |-> {e \in observed : Within(range, Time[e])},
     records |-> {r \in Rows : Within(range, Time[r.first])},
     places |-> {p \in Places : \E i \in DOMAIN versions[p] : Within(range, versions[p][i].from)}]

\* The table a record is in.
Table(r) == IF r.kind \in {"departure", "arrival", "source"} THEN "transition" ELSE r.kind
Tables == {"transition", "visit", "trip", "coverage_gap"}

\* The evidence and the events that go with a selection when they are read.
EvidenceOf(s) == {pair \in evidence : pair[1] \in s.records \/ pair[2] \in s.observed}
EventsOf(s) == {event \in outbox : event.about \in s.records}

RowsIn(records, table) == {r \in records : Table(r) = table}

\* _plan_counts.
Counts(s) ==
    [raw |-> Cardinality(s.raw), normalized |-> Cardinality(s.normalized),
     observed |-> Cardinality(s.observed),
     records |-> [table \in Tables |-> Cardinality(RowsIn(s.records, table))],
     versions |-> Cardinality({pair \in Places \X (1..MaxVersions) :
                       /\ pair[2] \in DOMAIN versions[pair[1]]
                       /\ Within(s.range, versions[pair[1]][pair[2]].from)}),
     jobs |-> Cardinality({e \in s.raw : job[e] \in {"pending", "processed", "failed"}}),
     quarantine |-> Cardinality({e \in s.raw : job[e] = "quarantined"}),
     evidence |-> Cardinality(EvidenceOf(s)),
     outbox |-> Cardinality(EventsOf(s)) + Cardinality(tombstones \cap s.records)]

\* plan_deletion; two plans for a range at one moment would be the same.
PlanDeletion(p, range) ==
    /\ plan[p] = NoPlan
    /\ \A q \in Plans : plan[q] # NoPlan =>
          ~(plan[q].range = range /\ plan[q].expires = now + PlanLife)
    /\ plan' = [plan EXCEPT ![p] =
                   [range |-> range, counts |-> Counts(Selected(range)),
                    status |-> "planned", expires |-> now + PlanLife]]
    /\ UNCHANGED <<dataVars, now, holds, chosen>>

Planned(p) == plan[p] # NoPlan /\ plan[p].status = "planned"

\* apply_deletion finds a plan that is too old.
ExpirePlan(p) ==
    /\ Planned(p) /\ plan[p].expires < now
    /\ plan' = [plan EXCEPT ![p].status = "expired"]
    /\ UNCHANGED <<dataVars, now, holds, chosen>>

\* Mutant: the counts are not compared.
AnySelection(p, s) == TRUE

\* The selection has the size the owner has seen.
AsPlanned(p, s) == Counts(s) = plan[p].counts

\* apply_deletion up to BEGIN IMMEDIATE; otherwise it ends as deletion_plan_stale.
SelectForDeletion(o, p) ==
    /\ chosen[o] = Nothing
    /\ Planned(p) /\ plan[p].expires >= now
    /\ AsPlanned(p, Selected(plan[p].range))
    /\ chosen' = [chosen EXCEPT ![o] =
                     [plan |-> p, rows |-> Selected(plan[p].range),
                      evidence |-> EvidenceOf(Selected(plan[p].range)),
                      events |-> EventsOf(Selected(plan[p].range))]]
    /\ UNCHANGED <<dataVars, now, holds, plan>>

\* A foreign key stops the deletion: a normalized event or an observation that has
\* come since refers to a report, or a transition of the phone that stays, or
\* that is deleted later, refers to its replacement.
DependencyActive(s) ==
    \/ s.raw \cap ((observed \ s.observed) \cup (normalized \ s.normalized)) # {}
    \/ \E pair \in replacedBy :
          /\ pair[2] \in s.records
          /\ pair[1] \in s.records => pair[1].first \in SortsLast

\* Mutants: evidence and events as they were when the rows were selected.
EvidenceAsSelected(choice) == choice.evidence
EventsAsSelected(choice) == choice.events

\* Evidence and events are read in the transaction.
EvidenceDeleted(choice) == EvidenceOf(choice.rows)
EventsDeleted(choice) == EventsOf(choice.rows)

\* The transaction of apply_deletion.  A place loses all its versions.
CommitDeletion(o) ==
    LET choice == chosen[o]
        s == choice.rows
    IN  /\ choice # Nothing
        /\ ~DependencyActive(s)
        /\ outbox' = outbox \ EventsDeleted(choice)
        /\ evidence' = evidence \ EvidenceDeleted(choice)
        /\ confirmed' = confirmed \ s.records
        /\ provisional' = provisional \ s.records
        /\ superseded' = superseded \ s.records
        /\ replacedBy' = {pair \in replacedBy : pair[1] \notin s.records}
        /\ observed' = observed \ s.observed
        /\ normalized' = normalized \ s.normalized
        /\ versions' = [p \in Places |-> IF p \in s.places THEN <<>> ELSE versions[p]]
        /\ raw' = [e \in Events |-> IF e \in s.raw THEN "absent" ELSE raw[e]]
        /\ job' = [e \in Events |-> IF e \in s.raw THEN "none" ELSE job[e]]
        /\ tombstones' = tombstones \cup s.records
        /\ erased' = erased \cup s.raw \cup s.observed
        /\ plan' = [plan EXCEPT ![choice.plan].status = "applied"]
        /\ chosen' = [chosen EXCEPT ![o] = Nothing]
        /\ UNCHANGED <<window, now, holds>>

\* The transaction is rolled back as deletion_dependency_active.
RefuseDeletion(o) ==
    /\ chosen[o] # Nothing
    /\ DependencyActive(chosen[o].rows)
    /\ chosen' = [chosen EXCEPT ![o] = Nothing]
    /\ UNCHANGED <<dataVars, now, holds, plan>>

-----------------------------------------------------------------------------
LifecycleNext ==
    \/ \E e \in Events : Receive(e) \/ Normalize(e)
    \/ Reprocess
    \/ Retain
    \/ Tick
    \/ \E range \in Ranges : SetHold(range)
    \/ \E p \in Plans, range \in Ranges : PlanDeletion(p, range)
    \/ \E p \in Plans : ExpirePlan(p)
    \/ \E o \in Operators, p \in Plans : SelectForDeletion(o, p)
    \/ \E o \in Operators : CommitDeletion(o) \/ RefuseDeletion(o)

LifecycleSpec == LifecycleInit /\ [][LifecycleNext]_lifecycleVars

-----------------------------------------------------------------------------
(***************************************************************************)
(* Properties                                                              *)
(***************************************************************************)

\* Every variable has its type; what is observed or normalized has its report,
\* and what was deleted does not come back.
LifecycleTypeOK ==
    /\ TypeOK
    /\ raw \in [Events -> {"absent", "stored", "scrubbed"}]
    /\ job \in [Events -> {"none", "pending", "processed", "failed", "quarantined"}]
    /\ normalized \subseteq Events /\ erased \subseteq Events /\ tombstones \subseteq Records
    /\ holds \subseteq Ranges /\ now \in 0..MaxClock
    /\ observed \subseteq normalized
    /\ \A e \in Events : raw[e] = "absent" <=> job[e] = "none"
    /\ \A e \in normalized : raw[e] # "absent"
    /\ \A e \in erased : raw[e] = "absent"

\* Evidence joins rows that exist with observations that exist, also when a
\* derivation files more of it between the selection and the transaction.
NoDanglingEvidence == evidence \subseteq Rows \X observed

\* Retention and deletion take evidence and observations together: once no window is
\* pending, the evidence filed for an active derived record is all that remains of
\* what it rests on, also for one whose other evidence is gone.
RemainingEvidenceFiled ==
    ~window => \A r \in Active : r.kind # "source" =>
                  {e \in Events : <<r, e>> \in evidence} = Supports(r) \cap observed

\* However old, what a provisional record begins and ends with stays until the
\* record is resolved or the owner deletes it.
UnresolvedKeepEvidence ==
    \A r \in provisional : {r.first, r.last} \subseteq observed \cup erased

\* Retention scrubs no payload and removes no observation of a held time, in however
\* many batches it runs (apply_retention).  Normalized events that have no observation
\* go by their age alone, held or not.
HoldsKeep ==
    [][\A e \in Events : Held(e) =>
          /\ raw[e] = "stored" => raw'[e] # "scrubbed"
          /\ e \in observed => e \in observed' \cup erased']_lifecycleVars

\* Rows are removed by a deletion only, and by none that takes more of a table
\* than the owner has seen in the plan, or what is outside its range.
OnlyApprovedRemoved ==
    [][LET gone == Rows \ Rows'
       IN  gone # {} =>
              \E p \in Plans :
                  /\ plan[p] # NoPlan /\ plan'[p].status = "applied"
                  /\ \A r \in gone : Within(plan[p].range, Time[r.first])
                  /\ \A table \in Tables :
                        Cardinality(RowsIn(gone, table)) <= plan[p].counts.records[table]
      ]_lifecycleVars

-----------------------------------------------------------------------------
\* HERMODR_PRD.md, 11.1: "Confirmed visits, places, trips, and coverage gaps:
\* retained until user deletion."  While no report comes and no deletion is made,
\* confirmed records stay confirmed; a reprocessing after retention supersedes those
\* whose observations it has removed.
ConfirmedRetained ==
    [][~window /\ erased' = erased => confirmed \subseteq confirmed']_lifecycleVars
=============================================================================
