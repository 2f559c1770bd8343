------------------------------- MODULE Outbox -------------------------------
(***************************************************************************)
(* The canonical outbox: _outbox (src/hermodr/processor.py) appends to it, *)
(* apply_deletion (src/hermodr/lifecycle.py) cuts records out of it, and   *)
(* consumers read it in batches, project it and acknowledge it record by   *)
(* record (src/hermodr/outbox.py).                                         *)
(*                                                                         *)
(* A producer's action is one transaction.  A consumer reads a batch, then *)
(* for each item applies it and acknowledges it in a transaction of its    *)
(* own; producers, deletions and errors come between any two of them.      *)
(***************************************************************************)
EXTENDS Naturals, FiniteSets, FiniteSetsExt

CONSTANTS
    Aggregates,   \* the canonical records that events are about
    Consumers,    \* registered consumer identities
    None,         \* no record, no projection
    Kind,         \* Kind[a]: what aggregate a is
    PlaceOf,      \* PlaceOf[a]: the place of visit a
    Limit,        \* the batch size of read_batch
    MaxSequence,  \* bound: sequence numbers
    MaxFaults     \* bound: interrupted calls of consume

(***************************************************************************)
(* derived: a derived transition, trip or coverage gap.                    *)
(* visit: a visit.                                                         *)
(* source: a provisional transition reported by the phone.                 *)
(* place: a place registered as approved.                                  *)
(* observation: an observation, which is published but never projected.    *)
(***************************************************************************)
Kinds == {"derived", "visit", "source", "place", "observation"}

EventTypes == {"recorded", "rejected", "superseded", "tombstoned"}
Events == [type : EventTypes, about : Aggregates]

ASSUME OutboxAssumption ==
    /\ None \notin Aggregates \cup Events
    /\ IsFiniteSet(Consumers)
    /\ Kind \in [Aggregates -> Kinds]
    /\ PlaceOf \in [Aggregates -> Aggregates]
    /\ \A a \in Aggregates : Kind[a] = "visit" => Kind[PlaceOf[a]] = "place"
    /\ Limit \in Nat \ {0}
    /\ MaxSequence \in Nat
    /\ MaxFaults \in Nat

VARIABLES
    record,      \* record[n]: the event stored under sequence n, or None
    highWater,   \* sqlite_sequence of outbox_records
    canonical,   \* the state of the aggregate's row in its own table
    checkpoint,  \* outbox_consumers.last_sequence
    receipts,    \* receipts[c]: sequences in outbox_receipts
    batch,       \* what is left of the batch consumer c has read, by sequence
    applied,     \* the next item of the batch has been applied
    projection,  \* FakeImporter.projection, from keys to aggregates
    used,        \* history: sequence numbers ever assigned
    faults       \* interrupted calls so far

tableVars == <<record, highWater, canonical, used>>
ledgerVars == <<checkpoint, receipts>>
memoryVars == <<batch, applied, projection>>
vars == <<tableVars, ledgerVars, memoryVars, faults>>

Sequences == 1..MaxSequence
Items == [sequence : Sequences, event : Events]
CanonicalStates == {"absent", "active", "superseded", "rejected"}

Event(type, a) == [type |-> type, about |-> a]

Init ==
    /\ record = [n \in Sequences |-> None]
    /\ highWater = 0
    /\ canonical = [a \in Aggregates |-> "absent"]
    /\ checkpoint = [c \in Consumers |-> 0]
    /\ receipts = [c \in Consumers |-> {}]
    /\ batch = [c \in Consumers |-> {}]
    /\ applied = [c \in Consumers |-> FALSE]
    /\ projection = [c \in Consumers |-> [k \in Aggregates |-> None]]
    /\ used = {}
    /\ faults = 0

-----------------------------------------------------------------------------
(***************************************************************************)
(* Producers                                                               *)
(***************************************************************************)

Stored(table) == {n \in Sequences : table[n] # None}

\* Mutant: the successor of the newest stored record.
NextAfterStored(table) == 1 + Max(Stored(table) \cup {0})

\* The sequence _outbox computes: past every record, every checkpoint and
\* every number SQLite remembers.
NextSequence(table) ==
    1 + Max(Stored(table) \cup {checkpoint[c] : c \in Consumers} \cup {highWater, 0})

\* _outbox on the given table: an event whose id is stored is ignored.
Publish(table, event) ==
    LET n == NextSequence(table)
    IN  IF \E m \in Sequences : table[m] = event
        THEN record' = table /\ UNCHANGED <<highWater, used>>
        ELSE /\ n <= MaxSequence
             /\ record' = [table EXCEPT ![n] = event]
             /\ highWater' = n
             /\ used' = used \cup {n}

\* A derivation or normalization yields record a, or a place is registered.  The
\* row is inserted unless it exists, whatever its state, and the event emitted.
Record(a) ==
    /\ Kind[a] = "place" => canonical[a] = "absent"
    /\ Publish(record, Event("recorded", a))
    /\ canonical' = [canonical EXCEPT ![a] = IF @ = "absent" THEN "active" ELSE @]
    /\ UNCHANGED <<ledgerVars, memoryVars, faults>>

\* A derivation no longer yields a: _supersede_missing.
Supersede(a) ==
    /\ Kind[a] \in {"derived", "visit"}
    /\ canonical[a] = "active"
    /\ canonical' = [canonical EXCEPT ![a] = "superseded"]
    /\ Publish(record, Event("superseded", a))
    /\ UNCHANGED <<ledgerVars, memoryVars, faults>>

\* A derived transition replaces the phone's: the row is updated, no event.
Reconcile(a) ==
    /\ Kind[a] = "source"
    /\ canonical[a] = "active"
    /\ canonical' = [canonical EXCEPT ![a] = "superseded"]
    /\ UNCHANGED <<record, highWater, used, ledgerVars, memoryVars, faults>>

\* A new version of a place is registered as rejected.
Reject(a) ==
    /\ Kind[a] = "place"
    /\ canonical[a] = "active"
    /\ canonical' = [canonical EXCEPT ![a] = "rejected"]
    /\ Publish(record, Event("rejected", a))
    /\ UNCHANGED <<ledgerVars, memoryVars, faults>>

\* Mutant: the receipts of deleted records stay.
DeleteKeepingReceipts(a) ==
    LET remaining == [n \in Sequences |-> IF record[n] \in [type : EventTypes, about : {a}]
                                         THEN None ELSE record[n]]
    IN  /\ canonical[a] # "absent"
        /\ canonical' = [canonical EXCEPT ![a] = "absent"]
        /\ Publish(remaining, Event("tombstoned", a))
        /\ UNCHANGED <<receipts, checkpoint, memoryVars, faults>>

\* Mutant: no tombstone is appended.
DeleteSilently(a) ==
    LET doomed == {n \in Stored(record) : record[n].about = a}
    IN  /\ canonical[a] # "absent"
        /\ canonical' = [canonical EXCEPT ![a] = "absent"]
        /\ receipts' = [c \in Consumers |-> receipts[c] \ doomed]
        /\ record' = [n \in Sequences |-> IF n \in doomed THEN None ELSE record[n]]
        /\ UNCHANGED <<highWater, used, checkpoint, memoryVars, faults>>

\* apply_deletion removes a with all its outbox records and their receipts and
\* appends a tombstone, in one transaction.
Delete(a) ==
    LET doomed == {n \in Stored(record) : record[n].about = a}
        remaining == [n \in Sequences |-> IF n \in doomed THEN None ELSE record[n]]
    IN  /\ canonical[a] # "absent"
        /\ canonical' = [canonical EXCEPT ![a] = "absent"]
        /\ receipts' = [c \in Consumers |-> receipts[c] \ doomed]
        /\ Publish(remaining, Event("tombstoned", a))
        /\ UNCHANGED <<checkpoint, memoryVars, faults>>

-----------------------------------------------------------------------------
(***************************************************************************)
(* Consumers                                                               *)
(***************************************************************************)

\* The records past a checkpoint.
Pending(c) == {n \in Stored(record) : n > checkpoint[c]}

\* read_batch: the first Limit of them.
ReadBatch(c) ==
    LET first == {n \in Pending(c) : Cardinality({m \in Pending(c) : m < n}) < Limit}
    IN  /\ batch[c] = {}
        /\ first # {}
        /\ batch' = [batch EXCEPT ![c] =
                        {[sequence |-> n, event |-> record[n]] : n \in first}]
        /\ UNCHANGED <<tableVars, ledgerVars, applied, projection, faults>>

\* The items of a batch are handled in the order of their sequences.
IsNext(c, item) ==
    item \in batch[c] /\ \A other \in batch[c] : item.sequence <= other.sequence

\* The key under which FakeImporter files a record: the first field of its data
\* whose name ends in _id, in the sorted order of the payload.  For a visit
\* that is place_id.
KeyOf(a) == IF Kind[a] = "visit" THEN PlaceOf[a] ELSE a

\* FakeImporter.apply, for what consume finds projectable.
Projected(shown, event) ==
    LET a == event.about
    IN  IF event.type \in {"superseded", "tombstoned"} THEN [shown EXCEPT ![a] = None]
        ELSE IF event.type = "rejected" \/ Kind[a] = "observation" THEN shown
        ELSE [shown EXCEPT ![KeyOf(a)] = a]

\* consume applies the next item, unless it has a receipt for the event.
Apply(c) ==
    /\ ~applied[c]
    /\ \E item \in batch[c] :
        LET unseen == \A n \in receipts[c] : record[n] # item.event
        IN  /\ IsNext(c, item)
            /\ projection' = IF unseen
                             THEN [projection EXCEPT ![c] = Projected(@, item.event)]
                             ELSE projection
    /\ applied' = [applied EXCEPT ![c] = TRUE]
    /\ UNCHANGED <<tableVars, ledgerVars, batch, faults>>

\* Mutant: only the successor of the checkpoint is accepted.
AcknowledgeableInSuccession(c, item) ==
    /\ record[item.sequence] = item.event
    /\ item.sequence = checkpoint[c] + 1

\* The checks of acknowledge: the item is still stored, and no stored record
\* lies between it and the checkpoint.
Acknowledgeable(c, item) ==
    /\ record[item.sequence] = item.event
    /\ \A n \in Stored(record) : ~(checkpoint[c] < n /\ n < item.sequence)

\* acknowledge commits the receipt, unless there is one for the event, and the
\* checkpoint.
Acknowledge(c) ==
    /\ applied[c]
    /\ \E item \in batch[c] :
        LET received == \E n \in receipts[c] : record[n] = item.event
        IN  /\ IsNext(c, item)
            /\ Acknowledgeable(c, item)
            /\ receipts' = IF received THEN receipts
                           ELSE [receipts EXCEPT ![c] = @ \cup {item.sequence}]
            /\ checkpoint' = [checkpoint EXCEPT ![c] = Max({@, item.sequence})]
            /\ batch' = [batch EXCEPT ![c] = @ \ {item}]
    /\ applied' = [applied EXCEPT ![c] = FALSE]
    /\ UNCHANGED <<tableVars, projection, faults>>

\* Mutant: the importer goes on believing that it has applied an item.
AbandonBatchOnly(c) ==
    /\ batch' = [batch EXCEPT ![c] = {}]
    /\ UNCHANGED <<tableVars, ledgerVars, projection, applied>>

\* consume is abandoned: the rest of the batch is forgotten.
Abandon(c) ==
    /\ batch' = [batch EXCEPT ![c] = {}]
    /\ applied' = [applied EXCEPT ![c] = FALSE]
    /\ UNCHANGED <<tableVars, ledgerVars, projection>>

\* acknowledge raises OutboxError.
AcknowledgeRefused(c) ==
    /\ applied[c]
    /\ \E item \in batch[c] : IsNext(c, item) /\ ~Acknowledgeable(c, item)
    /\ Abandon(c)
    /\ UNCHANGED faults

\* A database error or an interruption anywhere in consume.
ConsumeFails(c) ==
    /\ batch[c] # {}
    /\ faults < MaxFaults
    /\ faults' = faults + 1
    /\ Abandon(c)

-----------------------------------------------------------------------------
Produce(a) == Record(a) \/ Supersede(a) \/ Reconcile(a) \/ Reject(a) \/ Delete(a)
Consume(c) == ReadBatch(c) \/ Apply(c) \/ Acknowledge(c) \/ AcknowledgeRefused(c)

Next ==
    \/ \E a \in Aggregates : Produce(a)
    \/ \E c \in Consumers : Consume(c) \/ ConsumeFails(c)

Spec == Init /\ [][Next]_vars

\* Consumers call consume again and again; producers promise nothing.
FairSpec == Spec /\ \A c \in Consumers : WF_vars(Consume(c))

-----------------------------------------------------------------------------
(***************************************************************************)
(* Properties                                                              *)
(***************************************************************************)

\* Every variable has its type; an item is applied only out of a batch.
TypeOK ==
    /\ record \in [Sequences -> Events \cup {None}]
    /\ highWater \in 0..MaxSequence
    /\ canonical \in [Aggregates -> CanonicalStates]
    /\ checkpoint \in [Consumers -> 0..MaxSequence]
    /\ receipts \in [Consumers -> SUBSET Sequences]
    /\ batch \in [Consumers -> SUBSET Items]
    /\ applied \in [Consumers -> BOOLEAN]
    /\ \A c \in Consumers : applied[c] => batch[c] # {}
    /\ projection \in [Consumers -> [Aggregates -> Aggregates \cup {None}]]
    /\ used \subseteq Sequences
    /\ faults \in 0..MaxFaults

\* A record is written only under a number above all that were ever assigned,
\* even when deletion has removed the newest records, so a number identifies an
\* event for good and no event appears behind a checkpoint.
SequencesNeverReused ==
    [][\A n \in Sequences :
          record'[n] \notin {None, record[n]} => \A m \in used : m < n]_vars

\* Whatever lies behind a consumer's checkpoint and still exists has been
\* received, one by one: nothing is skipped by batches, failures or deletions.
NothingSkipped ==
    \A c \in Consumers : \A n \in Stored(record) : n <= checkpoint[c] => n \in receipts[c]

\* A receipt belongs to a stored record behind the checkpoint, and the consumer
\* has one receipt for an event: replays are recognised as such.
ReceiptsMeaningful ==
    \A c \in Consumers : \A n \in receipts[c] :
        /\ record[n] # None /\ n <= checkpoint[c]
        /\ \A m \in receipts[c] : record[m] = record[n] => m = n

\* Consumer c has seen everything.
CaughtUp(c) == Pending(c) = {} /\ batch[c] = {}

\* A consumer that has caught up shows a record of the given kinds exactly if
\* it is active, although it may have applied items that were deleted under it
\* or applied them again after a failure.
Mirrors(c, kinds) ==
    CaughtUp(c) =>
        \A a \in Aggregates : Kind[a] \in kinds =>
            (projection[c][KeyOf(a)] = a <=> canonical[a] = "active")

\* Derived transitions, trips and gaps are mirrored, observations never shown.
ProjectionMirrors ==
    \A c \in Consumers :
        /\ Mirrors(c, {"derived"})
        /\ \A a \in Aggregates : Kind[a] = "observation" => projection[c][a] = None

\* A consumer catches up with whatever is published, in spite of holes left by
\* deletions, items deleted under it and failures.
ConsumersCatchUp == \A c \in Consumers : []<>CaughtUp(c)
=============================================================================
