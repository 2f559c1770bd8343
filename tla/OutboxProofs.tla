---------------------------- MODULE OutboxProofs ----------------------------
(***************************************************************************)
(* Proofs about Outbox.  The three safety properties rest on one inductive *)
(* invariant, OutboxInv: SQLite's memory of the largest sequence bounds    *)
(* every number that was ever assigned and every checkpoint, which makes   *)
(* the maximum in _outbox equal to that memory, and an event is stored     *)
(* under one number only, which makes a receipt for an event a receipt for *)
(* its record.  A second one, MirrorInv, relates what consumers show to    *)
(* the newest event about each record; with nothing ahead of a checkpoint  *)
(* it is ProjectionMirrors.                                                *)
(***************************************************************************)
EXTENDS Outbox, TLAPS

\* highWater bounds every sequence number there ever was.
Bounded ==
    /\ \A n \in used : n <= highWater
    /\ Stored(record) \subseteq used
    /\ \A c \in Consumers : checkpoint[c] <= highWater

\* The UNIQUE constraint on event_id: an event is stored under one number.
OneRecordPerEvent ==
    \A m, n \in Stored(record) : record[m] = record[n] => m = n

\* Every receipt belongs to a stored record behind the checkpoint.
ReceiptsStored ==
    \A c \in Consumers : \A n \in receipts[c] :
        n \in Stored(record) /\ n <= checkpoint[c]

OutboxInv ==
    /\ TypeOK
    /\ Bounded
    /\ OneRecordPerEvent
    /\ ReceiptsStored
    /\ NothingSkipped

-----------------------------------------------------------------------------
(***************************************************************************)
(* The sequence numbers                                                    *)
(***************************************************************************)

\* The maximum of a set that has a greatest member is that member.
LEMMA GreatestIsMax ==
    ASSUME NEW S, S \subseteq Nat, NEW m \in S, \A x \in S : x <= m
    PROVE  Max(S) = m
<1>1. \A y \in S : m >= y
  OBVIOUS
<1>2. /\ Max(S) \in S
      /\ \A y \in S : Max(S) >= y
  BY <1>1 DEF Max
<1>3. Max(S) >= m /\ m >= Max(S)
  BY <1>1, <1>2
<1>4. Max(S) \in Nat /\ m \in Nat
  BY <1>2
<1> QED
  BY <1>3, <1>4

\* _outbox always takes the number after SQLite's, on the table as it is or
\* with some records already deleted.
LEMMA NextIsAfterHighWater ==
    ASSUME TypeOK, Bounded, NEW table, Stored(table) \subseteq Stored(record)
    PROVE  NextSequence(table) = highWater + 1
<1> DEFINE S == Stored(table) \cup {checkpoint[c] : c \in Consumers} \cup {highWater, 0}
<1>1. highWater \in Nat /\ (\A c \in Consumers : checkpoint[c] \in Nat)
  BY OutboxAssumption DEF OutboxAssumption, TypeOK
<1>2. S \subseteq Nat
  BY <1>1 DEF Stored, Sequences
<1>3. \A x \in S : x <= highWater
  BY <1>1 DEF Bounded
<1>4. Max(S) = highWater
  <2> HIDE DEF S
  <2>1. highWater \in S
    BY DEF S
  <2> QED
    BY <1>2, <1>3, <2>1, GreatestIsMax
<1> QED
  BY <1>1, <1>4 DEF NextSequence

\* What _outbox does to a table from which records may have been deleted.
LEMMA Published ==
    ASSUME TypeOK, Bounded, OneRecordPerEvent,
           NEW table \in [Sequences -> Events \cup {None}],
           \A n \in Sequences : table[n] # None => table[n] = record[n],
           NEW e \in Events, Publish(table, e)
    PROVE  /\ record' \in [Sequences -> Events \cup {None}]
           /\ highWater' \in 0..MaxSequence
           /\ highWater <= highWater'
           /\ used' \subseteq Sequences
           /\ \A n \in used' \ used : n = highWater + 1
           /\ \A n \in used' : n <= highWater'
           /\ Stored(record)' \subseteq used'
           /\ \A n \in Sequences : n <= highWater => record'[n] = table[n]
           /\ OneRecordPerEvent'
<1>1. Stored(table) \subseteq Stored(record)
  BY DEF Stored
<1>2. NextSequence(table) = highWater + 1
  BY <1>1, NextIsAfterHighWater
<1>3. highWater \in Nat /\ highWater <= MaxSequence /\ MaxSequence \in Nat
  BY OutboxAssumption DEF OutboxAssumption, TypeOK
<1>4. used \subseteq Sequences /\ (\A n \in used : n <= highWater) /\ Stored(table) \subseteq used
  BY <1>1 DEF TypeOK, Bounded
<1>5. \A m, n \in Stored(table) : table[m] = table[n] => m = n
  BY <1>1 DEF Stored, OneRecordPerEvent
<1>6. None \notin Events
  BY OutboxAssumption DEF OutboxAssumption
<1>7. CASE \E m \in Sequences : table[m] = e
  <2>1. record' = table /\ highWater' = highWater /\ used' = used
    BY <1>7 DEF Publish
  <2> QED
    BY <2>1, <1>3, <1>4, <1>5 DEF Stored, OneRecordPerEvent, TypeOK
<1>8. CASE ~\E m \in Sequences : table[m] = e
  <2> DEFINE n == highWater + 1
  <2>1. /\ n <= MaxSequence
        /\ record' = [table EXCEPT ![n] = e]
        /\ highWater' = n
        /\ used' = used \cup {n}
    BY <1>2, <1>8 DEF Publish
  <2>2. n \in Sequences /\ n \in Nat
    BY <1>3, <2>1 DEF Sequences
  <2>3. record' \in [Sequences -> Events \cup {None}]
    BY <2>1, <2>2
  <2>4. \A m \in Sequences : record'[m] = IF m = n THEN e ELSE table[m]
    BY <2>1, <2>2
  <2>5. Stored(record)' \subseteq used'
    BY <2>1, <2>4, <1>4 DEF Stored
  <2>6. \A m \in Sequences : m <= highWater => record'[m] = table[m]
    BY <2>4, <1>3 DEF Sequences
  <2>7. OneRecordPerEvent'
    BY <2>4, <1>5, <1>8 DEF OneRecordPerEvent, Stored
  <2>8. \A m \in used' : m <= highWater'
    BY <2>1, <1>3, <1>4 DEF Sequences
  <2>9. highWater' \in 0..MaxSequence /\ highWater <= highWater' /\ used' \subseteq Sequences
    BY <2>1, <2>2, <1>3, <1>4
  <2> QED
    BY <2>1, <2>3, <2>5, <2>6, <2>7, <2>8, <2>9
<1> QED
  BY <1>7, <1>8

-----------------------------------------------------------------------------
(***************************************************************************)
(* Every step preserves the invariant                                      *)
(***************************************************************************)

\* A transaction that may delete records with their receipts, and then publishes
\* an event.
LEMMA ProducerStep ==
    ASSUME OutboxInv,
           NEW table \in [Sequences -> Events \cup {None}],
           \A n \in Sequences : table[n] # None => table[n] = record[n],
           NEW e \in Events, Publish(table, e),
           canonical' \in [Aggregates -> CanonicalStates],
           receipts' \in [Consumers -> SUBSET Sequences],
           \A c \in Consumers : receipts'[c] = {n \in receipts[c] : table[n] # None},
           UNCHANGED <<checkpoint, memoryVars, faults>>
    PROVE  OutboxInv'
<1>1. /\ record' \in [Sequences -> Events \cup {None}]
      /\ highWater' \in 0..MaxSequence
      /\ highWater <= highWater'
      /\ used' \subseteq Sequences
      /\ \A n \in used' \ used : n = highWater + 1
      /\ \A n \in used' : n <= highWater'
      /\ Stored(record)' \subseteq used'
      /\ \A n \in Sequences : n <= highWater => record'[n] = table[n]
      /\ OneRecordPerEvent'
  BY Published DEF OutboxInv
<1>2. /\ highWater \in Nat
      /\ \A c \in Consumers : checkpoint[c] \in Nat /\ checkpoint[c] <= highWater
  BY OutboxAssumption DEF OutboxAssumption, OutboxInv, TypeOK, Bounded
<1>3. TypeOK'
  BY <1>1 DEF OutboxInv, TypeOK, memoryVars
<1>4. Bounded'
  BY <1>1, <1>2 DEF Bounded
<1>5. ReceiptsStored'
  <2> SUFFICES ASSUME NEW c \in Consumers, NEW n \in receipts'[c]
               PROVE  n \in Stored(record)' /\ n <= checkpoint'[c]
    BY DEF ReceiptsStored
  <2>1. n \in receipts[c] /\ table[n] # None
    OBVIOUS
  <2>2. n \in Sequences /\ n <= checkpoint[c]
    BY <2>1 DEF OutboxInv, ReceiptsStored, Stored
  <2>3. n <= highWater
    BY <1>2, <2>2 DEF Sequences
  <2> QED
    BY <1>1, <2>1, <2>2, <2>3 DEF Stored
<1>6. NothingSkipped'
  <2> SUFFICES ASSUME NEW c \in Consumers, NEW n \in Stored(record)', n <= checkpoint'[c]
               PROVE  n \in receipts'[c]
    BY DEF NothingSkipped
  <2>1. n \in Sequences /\ n <= checkpoint[c]
    BY DEF Stored
  <2>2. n <= highWater
    BY <1>2, <2>1 DEF Sequences
  <2>3. table[n] # None /\ n \in Stored(record)
    BY <1>1, <2>1, <2>2 DEF Stored
  <2> QED
    BY <2>1, <2>3 DEF OutboxInv, NothingSkipped
<1> QED
  BY <1>1, <1>3, <1>4, <1>5, <1>6 DEF OutboxInv

\* A producer's action preserves the invariant.
LEMMA ProduceStep ==
    ASSUME OutboxInv, NEW a \in Aggregates, Produce(a)
    PROVE  OutboxInv'
<1>1. /\ record \in [Sequences -> Events \cup {None}]
      /\ receipts \in [Consumers -> SUBSET Sequences]
      /\ canonical \in [Aggregates -> CanonicalStates]
      /\ \A c \in Consumers : receipts[c] = {n \in receipts[c] : record[n] # None}
  BY DEF OutboxInv, TypeOK, ReceiptsStored, Stored
<1>2. \A type \in EventTypes : Event(type, a) \in Events
  BY DEF Event, Events
<1>3. CASE Record(a)
  <2>1. Publish(record, Event("recorded", a)) /\ canonical' \in [Aggregates -> CanonicalStates]
    BY <1>1, <1>3 DEF Record, CanonicalStates
  <2>2. UNCHANGED <<receipts, checkpoint, memoryVars, faults>>
    BY <1>3 DEF Record, ledgerVars
  <2>3. Event("recorded", a) \in Events
    BY <1>2 DEF EventTypes
  <2> QED
    BY <1>1, <2>1, <2>2, <2>3, ProducerStep
<1>4. CASE Supersede(a)
  <2>1. Publish(record, Event("superseded", a)) /\ canonical' \in [Aggregates -> CanonicalStates]
    BY <1>1, <1>4 DEF Supersede, CanonicalStates
  <2>2. UNCHANGED <<receipts, checkpoint, memoryVars, faults>>
    BY <1>4 DEF Supersede, ledgerVars
  <2>3. Event("superseded", a) \in Events
    BY <1>2 DEF EventTypes
  <2> QED
    BY <1>1, <2>1, <2>2, <2>3, ProducerStep
<1>5. CASE Reconcile(a)
  <2>1. canonical' \in [Aggregates -> CanonicalStates]
    BY <1>1, <1>5 DEF Reconcile, CanonicalStates
  <2> QED
    BY <2>1, <1>5 DEF Reconcile, OutboxInv, TypeOK, Bounded, OneRecordPerEvent,
         ReceiptsStored, NothingSkipped, Stored, ledgerVars, memoryVars
<1>6. CASE Reject(a)
  <2>1. Publish(record, Event("rejected", a)) /\ canonical' \in [Aggregates -> CanonicalStates]
    BY <1>1, <1>6 DEF Reject, CanonicalStates
  <2>2. UNCHANGED <<receipts, checkpoint, memoryVars, faults>>
    BY <1>6 DEF Reject, ledgerVars
  <2>3. Event("rejected", a) \in Events
    BY <1>2 DEF EventTypes
  <2> QED
    BY <1>1, <2>1, <2>2, <2>3, ProducerStep
<1>7. CASE Delete(a)
  <2> DEFINE doomed == {n \in Stored(record) : record[n].about = a}
             remaining == [n \in Sequences |-> IF n \in doomed THEN None ELSE record[n]]
  <2>1. /\ Publish(remaining, Event("tombstoned", a))
        /\ canonical' \in [Aggregates -> CanonicalStates]
        /\ receipts' = [c \in Consumers |-> receipts[c] \ doomed]
        /\ UNCHANGED <<checkpoint, memoryVars, faults>>
    BY <1>1, <1>7 DEF Delete, CanonicalStates
  <2>2. /\ remaining \in [Sequences -> Events \cup {None}]
        /\ \A n \in Sequences : remaining[n] # None => remaining[n] = record[n]
    BY <1>1
  <2>3. \A c \in Consumers : receipts'[c] = {n \in receipts[c] : remaining[n] # None}
    <3> SUFFICES ASSUME NEW c \in Consumers, NEW n \in receipts[c]
                 PROVE  n \notin doomed <=> remaining[n] # None
      BY <2>1
    <3> QED
      BY <1>1 DEF Stored
  <2>4. receipts' \in [Consumers -> SUBSET Sequences]
    BY <1>1, <2>1
  <2>5. Event("tombstoned", a) \in Events
    BY <1>2 DEF EventTypes
  <2> HIDE DEF remaining, doomed
  <2> QED
    BY <2>1, <2>2, <2>3, <2>4, <2>5, ProducerStep
<1> QED
  BY <1>3, <1>4, <1>5, <1>6, <1>7 DEF Produce

\* Reading a batch, applying an item and giving a batch up touch only the
\* importer's memory.
LEMMA MemoryStep ==
    ASSUME OutboxInv, NEW c \in Consumers,
           ReadBatch(c) \/ Apply(c) \/ AcknowledgeRefused(c) \/ ConsumeFails(c)
    PROVE  OutboxInv'
<1>1. UNCHANGED <<tableVars, ledgerVars>>
  BY DEF ReadBatch, Apply, AcknowledgeRefused, ConsumeFails, Abandon
<1>2. TypeOK'
  <2>1. CASE ReadBatch(c)
    <3>1. PICK first \in SUBSET Pending(c) :
            /\ first # {}
            /\ batch[c] = {}
            /\ batch' = [batch EXCEPT ![c] = {[sequence |-> n, event |-> record[n]] : n \in first}]
            /\ UNCHANGED <<applied, projection, faults>>
      BY <2>1 DEF ReadBatch
    <3>2. {[sequence |-> n, event |-> record[n]] : n \in first} \in SUBSET Items
      BY <3>1 DEF OutboxInv, TypeOK, Pending, Stored, Items
    <3>3. {[sequence |-> n, event |-> record[n]] : n \in first} # {}
      BY <3>1
    <3> QED
      BY <3>1, <3>2, <3>3, <1>1 DEF OutboxInv, TypeOK, tableVars, ledgerVars
  <2>2. CASE Apply(c)
    <3>1. batch[c] # {} /\ UNCHANGED <<batch, faults>> /\ applied' = [applied EXCEPT ![c] = TRUE]
      BY <2>2 DEF Apply
    <3>2. projection' \in [Consumers -> [Aggregates -> Aggregates \cup {None}]]
      <4>1. PICK item \in batch[c] :
              projection' = projection
              \/ projection' = [projection EXCEPT ![c] = Projected(@, item.event)]
        BY <2>2 DEF Apply
      <4>2. item.event \in Events
        BY DEF OutboxInv, TypeOK, Items
      <4>3. item.event.about \in Aggregates
        BY <4>2 DEF Events
      <4>4. KeyOf(item.event.about) \in Aggregates
        BY <4>3, OutboxAssumption DEF OutboxAssumption, KeyOf
      <4>5. projection \in [Consumers -> [Aggregates -> Aggregates \cup {None}]]
        BY DEF OutboxInv, TypeOK
      <4>6. Projected(projection[c], item.event) \in [Aggregates -> Aggregates \cup {None}]
        BY <4>3, <4>4, <4>5 DEF Projected
      <4> QED
        BY <4>1, <4>5, <4>6
    <3> QED
      BY <3>1, <3>2, <1>1 DEF OutboxInv, TypeOK, tableVars, ledgerVars
  <2>3. CASE AcknowledgeRefused(c)
    BY <2>3, <1>1 DEF AcknowledgeRefused, Abandon, OutboxInv, TypeOK, tableVars, ledgerVars
  <2>4. CASE ConsumeFails(c)
    <3>1. faults' \in 0..MaxFaults
      BY <2>4, OutboxAssumption DEF ConsumeFails, OutboxInv, TypeOK, OutboxAssumption
    <3> QED
      BY <2>4, <3>1, <1>1 DEF ConsumeFails, Abandon, OutboxInv, TypeOK, tableVars, ledgerVars
  <2> QED
    BY <2>1, <2>2, <2>3, <2>4
<1> QED
  BY <1>1, <1>2 DEF OutboxInv, Bounded, OneRecordPerEvent, ReceiptsStored, NothingSkipped,
       Stored, tableVars, ledgerVars
\* acknowledge moves the checkpoint to a stored record with no stored record in
\* between, and the record then has its receipt: one that was there for the same
\* event is its own, because an event has one number.
LEMMA AcknowledgeStep ==
    ASSUME OutboxInv, NEW c \in Consumers, Acknowledge(c)
    PROVE  OutboxInv'
<1>1. PICK item \in batch[c] :
        /\ Acknowledgeable(c, item)
        /\ receipts' = IF \E n \in receipts[c] : record[n] = item.event THEN receipts
                       ELSE [receipts EXCEPT ![c] = @ \cup {item.sequence}]
        /\ checkpoint' = [checkpoint EXCEPT ![c] = Max({@, item.sequence})]
        /\ batch' = [batch EXCEPT ![c] = @ \ {item}]
  BY DEF Acknowledge
<1>2. applied' = [applied EXCEPT ![c] = FALSE] /\ UNCHANGED <<tableVars, projection, faults>>
  BY DEF Acknowledge
<1> DEFINE s == item.sequence
<1>3. s \in Sequences /\ s \in Nat /\ item.event \in Events
  BY DEF OutboxInv, TypeOK, Items, Sequences
<1>4. s \in Stored(record) /\ record[s] = item.event
  BY <1>1, <1>3, OutboxAssumption DEF Acknowledgeable, Stored, OutboxAssumption
<1>5. \A n \in Stored(record) : ~(checkpoint[c] < n /\ n < s)
  BY <1>1 DEF Acknowledgeable
<1>6. highWater \in Nat /\ s <= highWater /\ s <= MaxSequence /\ MaxSequence \in Nat
  BY <1>3, <1>4, OutboxAssumption DEF OutboxAssumption, OutboxInv, TypeOK, Bounded, Sequences
<1>7. checkpoint[c] \in 0..MaxSequence
  BY DEF OutboxInv, TypeOK
<1> DEFINE later == Max({checkpoint[c], s})
<1>8. later = IF checkpoint[c] <= s THEN s ELSE checkpoint[c]
  <2>1. checkpoint[c] \in Nat
    BY <1>7
  <2>2. CASE checkpoint[c] <= s
    BY <1>3, <2>1, <2>2, GreatestIsMax
  <2>3. CASE ~(checkpoint[c] <= s)
    <3>1. \A x \in {checkpoint[c], s} : x <= checkpoint[c]
      BY <1>3, <2>1, <2>3
    <3> QED
      BY <1>3, <2>1, <2>3, <3>1, GreatestIsMax
  <2> QED
    BY <2>2, <2>3
<1>9. checkpoint' = [checkpoint EXCEPT ![c] = later]
  BY <1>1
<1>10. /\ later \in 0..MaxSequence /\ later <= highWater
       /\ checkpoint[c] <= later /\ s <= later
       /\ \A n \in Stored(record) : n <= later => n <= checkpoint[c] \/ n = s
  BY <1>3, <1>5, <1>6, <1>7, <1>8 DEF OutboxInv, Bounded, Stored, Sequences
<1> HIDE DEF s, later
<1>11. s \in receipts'[c] /\ receipts' = [receipts EXCEPT ![c] = receipts[c] \cup {s}]
  <2>1. receipts \in [Consumers -> SUBSET Sequences]
    BY DEF OutboxInv, TypeOK
  <2>2. CASE \E n \in receipts[c] : record[n] = item.event
    <3>1. PICK n \in receipts[c] : record[n] = item.event
      BY <2>2
    <3>2. n = s
      BY <3>1, <1>4 DEF OutboxInv, ReceiptsStored, OneRecordPerEvent
    <3> QED
      BY <1>1, <2>1, <2>2, <3>2
  <2>3. CASE ~\E n \in receipts[c] : record[n] = item.event
    BY <1>1, <2>1, <2>3 DEF s
  <2> QED
    BY <2>2, <2>3
<1>12. TypeOK'
  BY <1>1, <1>2, <1>3, <1>9, <1>10, <1>11 DEF OutboxInv, TypeOK, tableVars
<1>13. \A d \in Consumers :
         /\ checkpoint'[d] = IF d = c THEN later ELSE checkpoint[d]
         /\ receipts'[d] = IF d = c THEN receipts[c] \cup {s} ELSE receipts[d]
  BY <1>9, <1>11 DEF OutboxInv, TypeOK
<1>14. Bounded' /\ OneRecordPerEvent'
  BY <1>2, <1>10, <1>13 DEF OutboxInv, Bounded, OneRecordPerEvent, Stored, tableVars
<1>15. ReceiptsStored'
  <2> SUFFICES ASSUME NEW d \in Consumers, NEW n \in receipts'[d]
               PROVE  n \in Stored(record) /\ n <= checkpoint'[d]
    BY <1>2 DEF ReceiptsStored, Stored, tableVars
  <2>1. CASE d = c /\ n = s
    BY <2>1, <1>4, <1>10, <1>13
  <2>2. CASE ~(d = c /\ n = s)
    <3>1. n \in receipts[d]
      BY <2>2, <1>13
    <3>2. n \in Stored(record) /\ n <= checkpoint[d]
      BY <3>1 DEF OutboxInv, ReceiptsStored
    <3>3. n \in Nat
      BY <3>2 DEF Stored, Sequences
    <3> QED
      BY <3>2, <3>3, <1>7, <1>10, <1>13
  <2> QED
    BY <2>1, <2>2
<1>16. NothingSkipped'
  <2> SUFFICES ASSUME NEW d \in Consumers, NEW n \in Stored(record), n <= checkpoint'[d]
               PROVE  n \in receipts'[d]
    BY <1>2 DEF NothingSkipped, Stored, tableVars
  <2> QED
    BY <1>10, <1>13 DEF OutboxInv, NothingSkipped
<1> QED
  BY <1>12, <1>14, <1>15, <1>16 DEF OutboxInv

\* The invariant holds at the start ...
LEMMA OutboxInvInit == Init => OutboxInv
<1> SUFFICES ASSUME Init PROVE OutboxInv
  OBVIOUS
<1>1. MaxSequence \in Nat /\ MaxFaults \in Nat
  BY OutboxAssumption DEF OutboxAssumption
<1>2. TypeOK
  BY <1>1 DEF Init, TypeOK, CanonicalStates
<1>3. Stored(record) = {}
  BY DEF Init, Stored
<1> QED
  BY <1>2, <1>3 DEF Init, OutboxInv, Bounded, OneRecordPerEvent, ReceiptsStored, NothingSkipped

\* ... and every step preserves it.
LEMMA OutboxInvStep == OutboxInv /\ [Next]_vars => OutboxInv'
<1> SUFFICES ASSUME OutboxInv, [Next]_vars PROVE OutboxInv'
  OBVIOUS
<1>1. CASE \E a \in Aggregates : Produce(a)
  BY <1>1, ProduceStep
<1>2. ASSUME NEW c \in Consumers, Consume(c) \/ ConsumeFails(c)
      PROVE  OutboxInv'
  BY <1>2, MemoryStep, AcknowledgeStep DEF Consume
<1>3. CASE UNCHANGED vars
  BY <1>3 DEF vars, tableVars, ledgerVars, memoryVars, OutboxInv, TypeOK, Bounded,
     OneRecordPerEvent, ReceiptsStored, NothingSkipped, Stored
<1> QED
  BY <1>1, <1>2, <1>3 DEF Next

-----------------------------------------------------------------------------
(***************************************************************************)
(* The theorems                                                            *)
(***************************************************************************)

\* The invariant the theorems below are read off from.
THEOREM OutboxInvariant == Spec => []OutboxInv
<1> QED
  BY OutboxInvInit, OutboxInvStep, PTL DEF Spec

\* The types of the outbox, its consumers and their memory.
THEOREM OutboxTypeCorrect == Spec => []TypeOK
<1>1. OutboxInv => TypeOK
  BY DEF OutboxInv
<1> QED
  BY <1>1, OutboxInvariant, PTL

\* However batches, deletions, failures and other consumers interleave, every
\* stored record behind a consumer's checkpoint has been received by it.
THEOREM ConsumersSkipNothing == Spec => []NothingSkipped
<1>1. OutboxInv => NothingSkipped
  BY DEF OutboxInv
<1> QED
  BY <1>1, OutboxInvariant, PTL

\* A receipt names a stored record behind the checkpoint, and an event has one.
THEOREM ReceiptsAreMeaningful == Spec => []ReceiptsMeaningful
<1>1. OutboxInv => ReceiptsMeaningful
  <2> SUFFICES ASSUME OutboxInv, NEW c \in Consumers, NEW n \in receipts[c]
               PROVE  /\ record[n] # None /\ n <= checkpoint[c]
                      /\ \A m \in receipts[c] : record[m] = record[n] => m = n
    BY DEF ReceiptsMeaningful
  <2> QED
    BY DEF OutboxInv, ReceiptsStored, OneRecordPerEvent, Stored
<1> QED
  BY <1>1, OutboxInvariant, PTL

\* A transaction writes a record only under a number larger than all before it.
LEMMA NewRecordIsLast ==
    ASSUME OutboxInv, NEW a \in Aggregates, Produce(a),
           NEW n \in Sequences, record'[n] \notin {None, record[n]}, NEW m \in used
    PROVE  m < n
<1>1. /\ record \in [Sequences -> Events \cup {None}]
      /\ highWater \in Nat /\ m \in Nat /\ m <= highWater /\ n \in Nat
  <2>1. record \in [Sequences -> Events \cup {None}] /\ used \subseteq Sequences
    BY DEF OutboxInv, TypeOK
  <2>2. MaxSequence \in Nat /\ highWater \in 0..MaxSequence
    BY OutboxAssumption DEF OutboxAssumption, OutboxInv, TypeOK
  <2>3. m <= highWater
    BY DEF OutboxInv, Bounded
  <2> QED
    BY <2>1, <2>2, <2>3 DEF Sequences
<1>2. ASSUME NEW table \in [Sequences -> Events \cup {None}],
             \A k \in Sequences : table[k] # None => table[k] = record[k],
             NEW type \in EventTypes, Publish(table, Event(type, a))
      PROVE  ~(n <= highWater)
  <2>1. Event(type, a) \in Events
    BY DEF Event, Events
  <2>2. \A k \in Sequences : k <= highWater => record'[k] = table[k]
    BY <1>2, <2>1, Published DEF OutboxInv
  <2> QED
    BY <1>2, <2>2
<1>3. ~(n <= highWater)
  <2>1. CASE Record(a) \/ Supersede(a) \/ Reject(a)
    <3>1. \E type \in EventTypes : Publish(record, Event(type, a))
      BY <2>1 DEF Record, Supersede, Reject, EventTypes
    <3> QED
      BY <1>1, <1>2, <3>1
  <2>2. CASE Reconcile(a)
    BY <2>2 DEF Reconcile
  <2>3. CASE Delete(a)
    <3> DEFINE doomed == {k \in Stored(record) : record[k].about = a}
               remaining == [k \in Sequences |-> IF k \in doomed THEN None ELSE record[k]]
    <3>1. Publish(remaining, Event("tombstoned", a)) /\ "tombstoned" \in EventTypes
      BY <2>3 DEF Delete, EventTypes
    <3>2. /\ remaining \in [Sequences -> Events \cup {None}]
          /\ \A k \in Sequences : remaining[k] # None => remaining[k] = record[k]
      BY <1>1
    <3> HIDE DEF remaining
    <3> QED
      BY <1>2, <3>1, <3>2
  <2> QED
    BY <2>1, <2>2, <2>3 DEF Produce
<1> QED
  BY <1>1, <1>3

\* No sequence number is written twice, even after the newest records have been
\* deleted.
THEOREM SequencesAssignedOnce == Spec => SequencesNeverReused
<1>1. OutboxInv /\ [Next]_vars =>
      [\A n \in Sequences : record'[n] \notin {None, record[n]} => \A m \in used : m < n]_vars
  <2> SUFFICES ASSUME OutboxInv, Next, NEW n \in Sequences,
                      record'[n] \notin {None, record[n]}, NEW m \in used
               PROVE  m < n
    OBVIOUS
  <2>1. CASE \E a \in Aggregates : Produce(a)
    BY <2>1, NewRecordIsLast
  <2>2. ASSUME NEW c \in Consumers, Consume(c) \/ ConsumeFails(c)
        PROVE  record' = record
    BY <2>2 DEF Consume, ConsumeFails, ReadBatch, Apply, Acknowledge, AcknowledgeRefused,
       Abandon, tableVars
  <2> QED
    BY <2>1, <2>2 DEF Next
<1> QED
  BY <1>1, OutboxInvariant, PTL DEF Spec, SequencesNeverReused

-----------------------------------------------------------------------------
(***************************************************************************)
(* The projection                                                          *)
(***************************************************************************)

\* The numbers under which events about a are stored.
About(a) == {n \in Stored(record) : record[n].about = a}

\* A batch holds records past the checkpoint; at worst they have been deleted
\* since.
BatchAhead ==
    \A c \in Consumers : \A item \in batch[c] :
        /\ checkpoint[c] < item.sequence /\ item.sequence <= highWater
        /\ record[item.sequence] \in {None, item.event}

\* If an item of a batch has been deleted, something newer than the whole batch
\* is stored about its aggregate.
DeletedIsFollowed ==
    \A c \in Consumers : \A item \in batch[c] :
        \/ record[item.sequence] = item.event
        \/ \E n \in About(item.event.about) : \A other \in batch[c] : other.sequence < n

\* The newest stored event about a derived record tells the state of its row.
Tells(a) ==
    /\ canonical[a] # "rejected"
    /\ canonical[a] = "absent" => \A n \in About(a) : record[n].type = "tombstoned"
    /\ canonical[a] # "absent" => \E n \in About(a) : record[n].type = "recorded"
    /\ canonical[a] = "active" => \A n \in About(a) : record[n].type # "superseded"
    /\ \A n \in About(a) :
          /\ record[n].type # "rejected"
          /\ (\A m \in About(a) : m <= n) =>
                (record[n].type = "recorded" <=> canonical[a] = "active")

NewestTells == \A a \in Aggregates : Kind[a] = "derived" => Tells(a)

\* What has been applied and is still stored can be seen.
AppliedIsShown ==
    \A c \in Consumers : applied[c] =>
        \A item \in batch[c] :
            LET a == item.event.about
            IN  IsNext(c, item) /\ record[item.sequence] = item.event /\ Kind[a] = "derived" =>
                    (projection[c][a] = a <=> item.event.type = "recorded")

\* A consumer that has everything stored about a behind it shows a's state.
SeenIsShown ==
    \A c \in Consumers : \A a \in Aggregates :
        Kind[a] = "derived" /\ (\A n \in About(a) : n <= checkpoint[c]) =>
            (projection[c][a] = a <=> canonical[a] = "active")

ObservationsHidden ==
    \A c \in Consumers : \A a \in Aggregates :
        Kind[a] = "observation" => projection[c][a] = None

MirrorInv ==
    /\ BatchAhead
    /\ DeletedIsFollowed
    /\ NewestTells
    /\ AppliedIsShown
    /\ SeenIsShown
    /\ ObservationsHidden

\* _outbox either finds the event or appends it under the next number.
LEMMA AppendsOrRepeats ==
    ASSUME TypeOK, Bounded,
           NEW table \in [Sequences -> Events \cup {None}],
           \A n \in Sequences : table[n] # None => table[n] = record[n],
           NEW e \in Events, Publish(table, e)
    PROVE  \/ /\ \E m \in Sequences : table[m] = e
              /\ record' = table /\ highWater' = highWater
           \/ /\ ~\E m \in Sequences : table[m] = e
              /\ highWater + 1 \in Sequences
              /\ record' = [table EXCEPT ![highWater + 1] = e]
              /\ highWater' = highWater + 1
<1>1. NextSequence(table) = highWater + 1
  BY NextIsAfterHighWater DEF Stored
<1>2. highWater \in Nat /\ MaxSequence \in Nat
  BY OutboxAssumption DEF OutboxAssumption, TypeOK
<1>3. CASE \E m \in Sequences : table[m] = e
  BY <1>3 DEF Publish
<1>4. CASE ~\E m \in Sequences : table[m] = e
  <2>1. /\ highWater + 1 <= MaxSequence
        /\ record' = [table EXCEPT ![highWater + 1] = e]
        /\ highWater' = highWater + 1
    BY <1>1, <1>4 DEF Publish
  <2> QED
    BY <1>2, <1>4, <2>1 DEF Sequences
<1> QED
  BY <1>3, <1>4

\* What a producer's transaction about aggregate a does to the table: records
\* about a may go, and if anything changes the last word is about a.
TouchesOnly(a) ==
    /\ \A n \in Sequences : n <= highWater =>
          record'[n] = record[n] \/ (record'[n] = None /\ n \in About(a))
    /\ \A n \in Sequences : ~(n <= highWater) /\ record'[n] # None => record'[n].about = a
    /\ \/ record' = record
       \/ \E n \in Sequences : ~(n <= highWater) /\ record'[n] # None /\ record'[n].about = a
    /\ highWater' \in Nat /\ highWater <= highWater'
    /\ \A b \in Aggregates :
          canonical'[b] = canonical[b]
          \/ (b = a /\ (record' = record => Kind[a] # "derived"))
    /\ UNCHANGED <<checkpoint, memoryVars>>

\* Such a transaction keeps what is known about batches, about what has been
\* applied and about every other aggregate.
LEMMA OthersKeep ==
    ASSUME OutboxInv, MirrorInv, NEW a \in Aggregates, TouchesOnly(a)
    PROVE  /\ BatchAhead' /\ DeletedIsFollowed' /\ AppliedIsShown' /\ SeenIsShown'
           /\ ObservationsHidden'
           /\ \A b \in Aggregates \ {a} : Kind[b] = "derived" => Tells(b)'
<1>1. /\ highWater \in Nat
      /\ \A c \in Consumers : checkpoint[c] \in Nat /\ checkpoint[c] <= highWater
      /\ \A n \in Stored(record) : n \in Sequences /\ n \in Nat /\ n <= highWater
      /\ record \in [Sequences -> Events \cup {None}] /\ None \notin Events
  <2>1. /\ record \in [Sequences -> Events \cup {None}] /\ used \subseteq Sequences
        /\ checkpoint \in [Consumers -> 0..MaxSequence]
    BY DEF OutboxInv, TypeOK
  <2>2. MaxSequence \in Nat /\ highWater \in 0..MaxSequence /\ None \notin Events
    BY OutboxAssumption DEF OutboxAssumption, OutboxInv, TypeOK
  <2>3. Bounded
    BY DEF OutboxInv
  <2> QED
    BY <2>1, <2>2, <2>3 DEF Bounded, Stored, Sequences
<1>2. \A c \in Consumers : \A item \in batch[c] :
        /\ item.sequence \in Sequences /\ item.sequence \in Nat
        /\ item.sequence <= highWater /\ item.event \in Events
  BY DEF OutboxInv, TypeOK, Items, Sequences, MirrorInv, BatchAhead
<1>3. /\ checkpoint' = checkpoint /\ batch' = batch /\ applied' = applied
      /\ projection' = projection
  BY DEF TouchesOnly, memoryVars
<1>4. /\ \A n \in Sequences : n <= highWater =>
            record'[n] = record[n] \/ (record'[n] = None /\ n \in About(a))
      /\ \A n \in Sequences : ~(n <= highWater) /\ record'[n] # None => record'[n].about = a
      /\ \/ record' = record
         \/ \E n \in Sequences : ~(n <= highWater) /\ record'[n] # None /\ record'[n].about = a
      /\ highWater' \in Nat /\ highWater <= highWater'
  BY DEF TouchesOnly
<1>5. ASSUME record' # record
      PROVE  \E n \in About(a)' : n \in Nat /\ ~(n <= highWater)
  BY <1>4, <1>5 DEF About, Stored, Sequences
<1>6. \A b \in Aggregates \ {a} :
        About(b)' = About(b) /\ (\A n \in About(b) : record'[n] = record[n])
  BY <1>1, <1>4 DEF About, Stored
<1>7. BatchAhead'
  BY <1>1, <1>2, <1>3, <1>4 DEF MirrorInv, BatchAhead
<1>8. DeletedIsFollowed'
  <2> SUFFICES ASSUME NEW c \in Consumers, NEW item \in batch[c], record'[item.sequence] # item.event
               PROVE  \E n \in About(item.event.about)' : \A other \in batch[c] : other.sequence < n
    BY <1>3 DEF DeletedIsFollowed
  <2>1. CASE item.event.about = a /\ record' # record
    <3>1. PICK n \in About(a)' : n \in Nat /\ ~(n <= highWater)
      BY <1>5, <2>1
    <3>2. \A other \in batch[c] : other.sequence < n
      BY <1>1, <1>2, <3>1
    <3> QED
      BY <2>1, <3>1, <3>2
  <2>2. CASE item.event.about # a \/ record' = record
    <3>1. record[item.sequence] # item.event
      BY <1>2, <1>4, <2>2 DEF About
    <3>2. PICK n \in About(item.event.about) : \A other \in batch[c] : other.sequence < n
      BY <3>1 DEF MirrorInv, DeletedIsFollowed
    <3>3. n \in About(item.event.about)'
      <4>1. CASE record' = record
        BY <4>1, <3>2 DEF About, Stored
      <4>2. CASE item.event.about # a
        BY <4>2, <1>2, <1>6, <3>2 DEF Events
      <4> QED
        BY <2>2, <4>1, <4>2
    <3> QED
      BY <3>2, <3>3
  <2> QED
    BY <2>1, <2>2
<1>9. AppliedIsShown'
  <2> SUFFICES ASSUME NEW c \in Consumers, applied[c], NEW item \in batch[c],
                      IsNext(c, item), record'[item.sequence] = item.event,
                      Kind[item.event.about] = "derived"
               PROVE  projection[c][item.event.about] = item.event.about
                         <=> item.event.type = "recorded"
    BY <1>3 DEF AppliedIsShown, IsNext
  <2>1. record[item.sequence] = item.event
    BY <1>1, <1>2, <1>4
  <2> QED
    BY <2>1 DEF MirrorInv, AppliedIsShown
<1>10. SeenIsShown'
  <2> SUFFICES ASSUME NEW c \in Consumers, NEW b \in Aggregates, Kind[b] = "derived",
                      \A n \in About(b)' : n <= checkpoint[c]
               PROVE  projection[c][b] = b <=> canonical'[b] = "active"
    BY <1>3 DEF SeenIsShown
  <2>1. b # a \/ record' = record
    <3> SUFFICES ASSUME b = a, record' # record PROVE FALSE
      OBVIOUS
    <3>1. PICK n \in About(a)' : n \in Nat /\ ~(n <= highWater)
      BY <1>5
    <3> QED
      BY <1>1, <3>1
  <2>2. About(b)' = About(b)
    BY <1>6, <2>1 DEF About, Stored
  <2>3. canonical'[b] = canonical[b]
    BY <2>1 DEF TouchesOnly
  <2> QED
    BY <2>2, <2>3 DEF MirrorInv, SeenIsShown
<1>11. ObservationsHidden'
  BY <1>3 DEF MirrorInv, ObservationsHidden
<1>12. ASSUME NEW b \in Aggregates \ {a}, Kind[b] = "derived"
       PROVE  Tells(b)'
  <2>1. canonical'[b] = canonical[b]
    BY DEF TouchesOnly
  <2>2. Tells(b)
    BY <1>12 DEF MirrorInv, NewestTells
  <2> QED
    BY <1>6, <2>1, <2>2 DEF Tells
<1> QED
  BY <1>7, <1>8, <1>9, <1>10, <1>11, <1>12

\* Publishing an event about a is such a transaction.
LEMMA PublishTouches ==
    ASSUME OutboxInv, NEW a \in Aggregates,
           NEW table \in [Sequences -> Events \cup {None}],
           \A n \in Sequences : table[n] = record[n] \/ (table[n] = None /\ n \in About(a)),
           NEW e \in Events, e.about = a, Publish(table, e),
           table = record \/ ~\E m \in Sequences : table[m] = e,
           \A b \in Aggregates \ {a} : canonical'[b] = canonical[b],
           record' = record => canonical'[a] = canonical[a] \/ Kind[a] # "derived",
           UNCHANGED <<checkpoint, memoryVars>>
    PROVE  /\ TouchesOnly(a)
           /\ \/ /\ \E m \in Sequences : record[m] = e
                 /\ table = record /\ record' = record
              \/ /\ highWater + 1 \in Sequences
                 /\ record' = [table EXCEPT ![highWater + 1] = e]
<1>1. /\ \/ /\ \E m \in Sequences : table[m] = e
            /\ record' = table /\ highWater' = highWater
         \/ /\ ~\E m \in Sequences : table[m] = e
            /\ highWater + 1 \in Sequences
            /\ record' = [table EXCEPT ![highWater + 1] = e]
            /\ highWater' = highWater + 1
  <2>1. \A n \in Sequences : table[n] # None => table[n] = record[n]
    OBVIOUS
  <2> QED
    BY <2>1, AppendsOrRepeats DEF OutboxInv
<1>2. /\ record \in [Sequences -> Events \cup {None}] /\ highWater \in Nat /\ None \notin Events
      /\ \A n \in Stored(record) : n <= highWater
  BY OutboxAssumption DEF OutboxAssumption, OutboxInv, TypeOK, Bounded
<1>3. \A b \in Aggregates :
        canonical'[b] = canonical[b] \/ (b = a /\ (record' = record => Kind[a] # "derived"))
      \/ canonical'[a] = canonical[a]
  OBVIOUS
<1>4. CASE /\ \E m \in Sequences : table[m] = e
           /\ record' = table /\ highWater' = highWater
  <2>1. table = record
    BY <1>4
  <2> QED
    BY <1>2, <1>4, <2>1 DEF TouchesOnly, Stored
<1>5. CASE /\ ~\E m \in Sequences : table[m] = e
           /\ highWater + 1 \in Sequences
           /\ record' = [table EXCEPT ![highWater + 1] = e]
           /\ highWater' = highWater + 1
  <2>1. ~(highWater + 1 <= highWater) /\ highWater <= highWater + 1 /\ highWater + 1 \in Nat
    BY <1>2
  <2>2. \A n \in Sequences : record'[n] = IF n = highWater + 1 THEN e ELSE table[n]
    BY <1>5
  <2>3. \A n \in Sequences : n <= highWater =>
          record'[n] = record[n] \/ (record'[n] = None /\ n \in About(a))
    BY <2>1, <2>2
  <2>4. \A n \in Sequences : ~(n <= highWater) /\ record'[n] # None => n = highWater + 1
    BY <1>2, <2>2 DEF Stored, About
  <2>5. record'[highWater + 1] = e /\ e # None
    BY <1>2, <1>5, <2>2
  <2>6. record' # record
    <3>1. highWater + 1 \notin Stored(record)
      BY <1>2, <2>1
    <3> QED
      BY <1>5, <2>5, <3>1 DEF Stored
  <2> QED
    BY <1>5, <2>1, <2>3, <2>4, <2>5, <2>6 DEF TouchesOnly
<1> QED
  BY <1>1, <1>4, <1>5

\* An event that is appended to what is kept is the newest about its aggregate.
LEMMA AppendedIsNewest ==
    ASSUME OutboxInv, NEW a \in Aggregates, NEW e \in Events, e.about = a,
           highWater + 1 \in Sequences, record'[highWater + 1] = e,
           \A n \in Sequences \ {highWater + 1} : record'[n] \in {record[n], None}
    PROVE  /\ highWater + 1 \in About(a)'
           /\ \A n \in About(a)' \ {highWater + 1} :
                ~(highWater + 1 <= n) /\ n \in About(a) /\ record'[n] = record[n]
           /\ (\A n \in Sequences \ {highWater + 1} : record'[n] = record[n])
                => \A n \in About(a) : n \in About(a)' /\ record'[n] = record[n]
<1>1. /\ highWater \in Nat /\ None \notin Events
      /\ \A n \in Stored(record) : n <= highWater
  BY OutboxAssumption DEF OutboxAssumption, OutboxInv, TypeOK, Bounded
<1>2. \A n \in Stored(record) : n # highWater + 1 /\ ~(highWater + 1 <= n)
  BY <1>1 DEF Stored, Sequences
<1> QED
  BY <1>1, <1>2 DEF About, Stored

\* A producer keeps the invariant.
LEMMA ProduceMirrors ==
    ASSUME OutboxInv, MirrorInv, NEW a \in Aggregates, Produce(a)
    PROVE  MirrorInv'
<1>1. /\ record \in [Sequences -> Events \cup {None}]
      /\ canonical \in [Aggregates -> CanonicalStates]
      /\ \A n \in Sequences : record[n] # None => record[n] \in Events
      /\ None \notin Events
  BY OutboxAssumption DEF OutboxAssumption, OutboxInv, TypeOK
<1>2. \A type \in EventTypes :
        Event(type, a) \in Events /\ Event(type, a).about = a /\ Event(type, a).type = type
  BY DEF Event, Events
<1>3. \A type \in EventTypes : \A n \in Sequences : record[n] = Event(type, a) =>
        n \in About(a) /\ record[n].type = type
  BY <1>1, <1>2 DEF About, Stored
<1>4. Kind[a] = "derived" => Tells(a)
  BY DEF MirrorInv, NewestTells
<1>5. ASSUME TouchesOnly(a), Kind[a] = "derived" => Tells(a)'
      PROVE  MirrorInv'
  BY <1>5, OthersKeep DEF MirrorInv, NewestTells
<1>6. CASE Record(a)
  <2> DEFINE e == Event("recorded", a)
  <2>1. /\ Publish(record, e) /\ e \in Events /\ e.about = a /\ e.type = "recorded"
        /\ canonical' = [canonical EXCEPT ![a] = IF @ = "absent" THEN "active" ELSE @]
        /\ UNCHANGED <<checkpoint, memoryVars>>
    BY <1>2, <1>6 DEF Record, ledgerVars, EventTypes
  <2>2. /\ canonical'[a] = IF canonical[a] = "absent" THEN "active" ELSE canonical[a]
        /\ \A b \in Aggregates \ {a} : canonical'[b] = canonical[b]
    BY <1>1, <2>1
  <2>3. (\E m \in Sequences : record[m] = e) /\ Kind[a] = "derived" => canonical[a] # "absent"
    BY <1>3, <1>4 DEF Tells, EventTypes
  <2>4. Kind[a] = "derived" /\ canonical[a] # "absent" => \E m \in Sequences : record[m] = e
    <3> SUFFICES ASSUME Kind[a] = "derived", canonical[a] # "absent"
                 PROVE  \E m \in Sequences : record[m] = e
      OBVIOUS
    <3>1. PICK m \in About(a) : record[m].type = "recorded"
      BY <1>4 DEF Tells
    <3>2. record[m] \in Events /\ record[m].about = a
      BY <1>1, <3>1 DEF About, Stored
    <3> QED
      BY <3>1, <3>2 DEF Event, Events, About, Stored
  <2>5. CASE \E m \in Sequences : record[m] = e
    <3>1. record' = record
      BY <2>1, <2>5 DEF Publish
    <3>2. canonical'[a] = canonical[a] \/ Kind[a] # "derived"
      BY <2>2, <2>3, <2>5
    <3>3. TouchesOnly(a)
      BY <1>1, <2>1, <2>2, <3>2, PublishTouches
    <3>4. About(a)' = About(a)
      BY <3>1 DEF About, Stored
    <3>5. Kind[a] = "derived" => Tells(a)'
      BY <1>4, <3>1, <3>2, <3>4 DEF Tells
    <3> QED
      BY <1>5, <3>3, <3>5
  <2>6. CASE ~\E m \in Sequences : record[m] = e
    <3>1. TouchesOnly(a) /\ highWater + 1 \in Sequences /\ record' = [record EXCEPT ![highWater + 1] = e]
      <4>1. record' # record
        <5>1. /\ highWater + 1 \in Sequences /\ record' = [record EXCEPT ![highWater + 1] = e]
          BY <1>1, <2>1, <2>6, AppendsOrRepeats DEF OutboxInv
        <5> QED
          BY <1>1, <2>6, <5>1
      <4> QED
        BY <1>1, <2>1, <2>2, <2>6, <4>1, PublishTouches
    <3>2. ASSUME Kind[a] = "derived" PROVE Tells(a)'
      <4>1. canonical[a] = "absent" /\ canonical'[a] = "active"
        BY <2>2, <2>4, <2>6, <3>2
      <4>2. \A n \in About(a) : record[n].type = "tombstoned"
        BY <1>4, <3>2, <4>1 DEF Tells
      <4>3. /\ record'[highWater + 1] = e
            /\ \A n \in Sequences \ {highWater + 1} : record'[n] \in {record[n], None}
        BY <1>1, <3>1
      <4>4. /\ highWater + 1 \in About(a)'
            /\ \A n \in About(a)' \ {highWater + 1} :
                 ~(highWater + 1 <= n) /\ n \in About(a) /\ record'[n] = record[n]
        BY <2>1, <3>1, <4>3, AppendedIsNewest
      <4> HIDE DEF e
      <4> QED
        BY <2>1, <4>1, <4>2, <4>3, <4>4 DEF Tells
    <3> QED
      BY <1>5, <3>1, <3>2
  <2> QED
    BY <2>5, <2>6
<1>7. CASE Supersede(a)
  <2> DEFINE e == Event("superseded", a)
  <2>1. /\ Publish(record, e) /\ e \in Events /\ e.about = a /\ e.type = "superseded"
        /\ canonical[a] = "active" /\ Kind[a] \in {"derived", "visit"}
        /\ canonical' = [canonical EXCEPT ![a] = "superseded"]
        /\ UNCHANGED <<checkpoint, memoryVars>>
    BY <1>2, <1>7 DEF Supersede, ledgerVars, EventTypes
  <2>2. /\ canonical'[a] = "superseded"
        /\ \A b \in Aggregates \ {a} : canonical'[b] = canonical[b]
    BY <1>1, <2>1
  <2>3. Kind[a] = "derived" => ~\E m \in Sequences : record[m] = e
    BY <1>3, <1>4, <2>1 DEF Tells, EventTypes
  <2>4. Kind[a] = "derived" => record' # record
    BY <1>1, <2>1, <2>3, AppendsOrRepeats DEF OutboxInv
  <2>5. TouchesOnly(a)
    BY <1>1, <2>1, <2>2, <2>4, PublishTouches
  <2>6. ASSUME Kind[a] = "derived" PROVE Tells(a)'
    <3>1. highWater + 1 \in Sequences /\ record' = [record EXCEPT ![highWater + 1] = e]
      BY <1>1, <2>1, <2>3, <2>6, AppendsOrRepeats DEF OutboxInv
    <3>2. /\ \E n \in About(a) : record[n].type = "recorded"
          /\ \A n \in About(a) : record[n].type # "rejected"
      BY <1>4, <2>1, <2>6 DEF Tells
    <3>3. /\ record'[highWater + 1] = e
          /\ \A n \in Sequences \ {highWater + 1} : record'[n] = record[n]
      BY <1>1, <3>1
    <3>4. /\ highWater + 1 \in About(a)'
          /\ \A n \in About(a)' \ {highWater + 1} :
               ~(highWater + 1 <= n) /\ n \in About(a) /\ record'[n] = record[n]
          /\ \A n \in About(a) : n \in About(a)' /\ record'[n] = record[n]
      BY <2>1, <3>1, <3>3, AppendedIsNewest
    <3> HIDE DEF e
    <3> QED
      BY <2>1, <2>2, <3>2, <3>3, <3>4 DEF Tells
  <2> QED
    BY <1>5, <2>5, <2>6
<1>8. CASE Reconcile(a)
  <2>1. /\ record' = record /\ highWater' = highWater /\ Kind[a] = "source"
        /\ UNCHANGED <<checkpoint, memoryVars>>
        /\ \A b \in Aggregates \ {a} : canonical'[b] = canonical[b]
        /\ highWater \in Nat
        /\ \A n \in Stored(record) : n <= highWater
    BY <1>1, <1>8, OutboxAssumption
       DEF Reconcile, ledgerVars, OutboxInv, TypeOK, OutboxAssumption, Bounded
  <2>2. TouchesOnly(a)
    BY <2>1 DEF TouchesOnly, Stored
  <2> QED
    BY <1>5, <2>1, <2>2
<1>9. CASE Reject(a)
  <2>1. /\ Publish(record, Event("rejected", a)) /\ Kind[a] = "place"
        /\ UNCHANGED <<checkpoint, memoryVars>>
        /\ \A b \in Aggregates \ {a} : canonical'[b] = canonical[b]
    BY <1>1, <1>9 DEF Reject, ledgerVars
  <2>2. Event("rejected", a) \in Events /\ Event("rejected", a).about = a
    BY <1>2 DEF EventTypes
  <2>3. TouchesOnly(a)
    BY <1>1, <2>1, <2>2, PublishTouches
  <2> QED
    BY <1>5, <2>1, <2>3
<1>10. CASE Delete(a)
  <2> DEFINE e == Event("tombstoned", a)
             doomed == {n \in Stored(record) : record[n].about = a}
             remaining == [n \in Sequences |-> IF n \in doomed THEN None ELSE record[n]]
  <2>1. /\ Publish(remaining, e) /\ e \in Events /\ e.about = a /\ e.type = "tombstoned"
        /\ canonical' = [canonical EXCEPT ![a] = "absent"]
        /\ UNCHANGED <<checkpoint, memoryVars>>
    BY <1>2, <1>10 DEF Delete, EventTypes
  <2>2. /\ canonical'[a] = "absent"
        /\ \A b \in Aggregates \ {a} : canonical'[b] = canonical[b]
    BY <1>1, <2>1
  <2>3. /\ remaining \in [Sequences -> Events \cup {None}]
        /\ \A n \in Sequences : remaining[n] = record[n] \/ (remaining[n] = None /\ n \in About(a))
        /\ \A n \in Sequences : remaining[n] # None => n \notin About(a)
    BY <1>1 DEF About
  <2>4. ~\E m \in Sequences : remaining[m] = e
    BY <1>1, <1>3, <2>1, <2>3 DEF EventTypes
  <2> HIDE DEF remaining, e
  <2>5. highWater + 1 \in Sequences /\ record' = [remaining EXCEPT ![highWater + 1] = e]
    <3>1. \A n \in Sequences : remaining[n] # None => remaining[n] = record[n]
      BY <2>3
    <3> QED
      BY <2>1, <2>3, <2>4, <3>1, AppendsOrRepeats DEF OutboxInv
  <2>6. /\ record'[highWater + 1] = e
        /\ \A n \in Sequences \ {highWater + 1} : record'[n] \in {record[n], None} \ {r \in Events : r.about = a}
    BY <1>1, <2>3, <2>5 DEF About, Stored
  <2>7. highWater + 1 \in About(a)' /\ (\A n \in About(a)' : n = highWater + 1)
    <3>1. highWater + 1 \in About(a)'
      BY <2>1, <2>5, <2>6, AppendedIsNewest
    <3> QED
      BY <1>1, <2>6, <3>1 DEF About, Stored
  <2>8. record' # record
    <3>1. highWater + 1 \notin Stored(record)
      <4>1. highWater \in Nat
        BY OutboxAssumption DEF OutboxAssumption, OutboxInv, TypeOK
      <4> QED
        BY <4>1 DEF OutboxInv, Bounded
    <3>2. e # None
      BY <1>1, <2>1
    <3> QED
      BY <2>5, <2>6, <3>1, <3>2 DEF Stored
  <2>9. TouchesOnly(a)
    BY <1>1, <2>1, <2>2, <2>3, <2>4, <2>8, PublishTouches
  <2>10. Tells(a)'
    BY <2>1, <2>2, <2>6, <2>7 DEF Tells
  <2> QED
    BY <1>5, <2>9, <2>10
<1> QED
  BY <1>6, <1>7, <1>8, <1>9, <1>10 DEF Produce

\* What applying an event does to the keys of derived records and observations:
\* a visit is filed under its place, so that no other event reaches them.
LEMMA ProjectedKeys ==
    ASSUME NEW shown \in [Aggregates -> Aggregates \cup {None}],
           NEW e \in Events, NEW b \in Aggregates
    PROVE  /\ Kind[b] = "derived" /\ b # e.about => Projected(shown, e)[b] = shown[b]
           /\ Kind[b] = "derived" /\ b = e.about /\ e.type # "rejected" =>
                (Projected(shown, e)[b] = b <=> e.type = "recorded")
           /\ Kind[b] = "observation" => Projected(shown, e)[b] \in {shown[b], None}
<1> DEFINE a == e.about
<1>1. /\ a \in Aggregates /\ e.type \in EventTypes /\ None \notin Aggregates
      /\ Kind[a] = "visit" => Kind[PlaceOf[a]] = "place"
  BY OutboxAssumption DEF OutboxAssumption, Events
<1>2. KeyOf(a) = b => b = a \/ Kind[b] = "place"
  BY <1>1 DEF KeyOf
<1>3. Kind[a] # "visit" => KeyOf(a) = a
  BY DEF KeyOf
<1>4. CASE e.type \in {"superseded", "tombstoned"}
  <2>1. Projected(shown, e) = [shown EXCEPT ![a] = None]
    BY <1>4 DEF Projected
  <2> QED
    BY <1>1, <1>4, <2>1
<1>5. CASE e.type \in {"recorded", "rejected"}
  <2>1. Projected(shown, e) = IF e.type = "rejected" \/ Kind[a] = "observation" THEN shown
                              ELSE [shown EXCEPT ![KeyOf(a)] = a]
    BY <1>5 DEF Projected
  <2>2. KeyOf(a) \in Aggregates
    BY <1>1, OutboxAssumption DEF OutboxAssumption, KeyOf
  <2> QED
    BY <1>1, <1>2, <1>3, <1>5, <2>1, <2>2
<1> QED
  BY <1>1, <1>4, <1>5 DEF EventTypes

\* An item of a batch is about an aggregate the consumer has not caught up with.
LEMMA BatchIsPending ==
    ASSUME OutboxInv, MirrorInv, NEW c \in Consumers, NEW item \in batch[c]
    PROVE  \E n \in About(item.event.about) : ~(n <= checkpoint[c])
<1>1. /\ item.sequence \in Sequences /\ item.event \in Events /\ None \notin Events
      /\ checkpoint[c] \in Nat
  BY OutboxAssumption DEF OutboxAssumption, OutboxInv, TypeOK, Items
<1>2. checkpoint[c] < item.sequence /\ item.sequence \in Nat
  BY <1>1 DEF MirrorInv, BatchAhead, Sequences
<1>3. CASE record[item.sequence] = item.event
  BY <1>1, <1>2, <1>3 DEF About, Stored
<1>4. CASE \E n \in About(item.event.about) : \A other \in batch[c] : other.sequence < n
  <2>1. PICK n \in About(item.event.about) : item.sequence < n
    BY <1>4
  <2>2. n \in Nat
    BY <2>1 DEF About, Stored, Sequences
  <2> QED
    BY <1>1, <1>2, <2>1, <2>2
<1> QED
  BY <1>3, <1>4 DEF MirrorInv, DeletedIsFollowed

\* What is stored under a number has the event of every item with that number.
LEMMA OneItemPerNumber ==
    ASSUME OutboxInv, MirrorInv, NEW c \in Consumers,
           NEW item \in batch[c], NEW other \in batch[c],
           item.sequence = other.sequence, record[item.sequence] = item.event
    PROVE  item = other
<1>1. item \in Items /\ other \in Items /\ item.event \in Events /\ None \notin Events
  BY OutboxAssumption DEF OutboxAssumption, OutboxInv, TypeOK, Items
<1>2. other.event = item.event
  BY <1>1 DEF MirrorInv, BatchAhead
<1> QED
  BY <1>1, <1>2 DEF Items

\* Reading a batch.
LEMMA ReadMirrors ==
    ASSUME OutboxInv, MirrorInv, NEW c \in Consumers, ReadBatch(c)
    PROVE  MirrorInv'
<1>1. PICK first \in SUBSET Pending(c) :
        /\ batch[c] = {}
        /\ batch' = [batch EXCEPT ![c] = {[sequence |-> n, event |-> record[n]] : n \in first}]
  BY DEF ReadBatch
<1>2. /\ record' = record /\ highWater' = highWater /\ canonical' = canonical
      /\ checkpoint' = checkpoint /\ applied' = applied /\ projection' = projection
  BY DEF ReadBatch, tableVars, ledgerVars
<1>3. ~applied[c] /\ batch \in [Consumers -> SUBSET Items]
  BY <1>1 DEF OutboxInv, TypeOK
<1>4. \A n \in Pending(c) :
        n \in Sequences /\ checkpoint[c] < n /\ n <= highWater
  BY DEF Pending, Stored, OutboxInv, Bounded
<1>5. \A item \in batch'[c] :
        /\ checkpoint[c] < item.sequence /\ item.sequence <= highWater
        /\ record[item.sequence] = item.event
  BY <1>1, <1>3, <1>4
<1>6. \A d \in Consumers \ {c} : batch'[d] = batch[d]
  BY <1>1, <1>3
<1>7. \A a : About(a)' = About(a)
  BY <1>2 DEF About, Stored
<1>8. BatchAhead'
  BY <1>2, <1>5, <1>6 DEF MirrorInv, BatchAhead
<1>9. DeletedIsFollowed'
  BY <1>2, <1>5, <1>6, <1>7 DEF MirrorInv, DeletedIsFollowed
<1>10. NewestTells'
  BY <1>2, <1>7 DEF MirrorInv, NewestTells, Tells
<1>11. AppliedIsShown'
  BY <1>2, <1>3, <1>6 DEF MirrorInv, AppliedIsShown, IsNext
<1>12. SeenIsShown' /\ ObservationsHidden'
  BY <1>2, <1>7 DEF MirrorInv, SeenIsShown, ObservationsHidden
<1> QED
  BY <1>8, <1>9, <1>10, <1>11, <1>12 DEF MirrorInv

\* Giving a batch up.
LEMMA AbandonMirrors ==
    ASSUME OutboxInv, MirrorInv, NEW c \in Consumers, Abandon(c)
    PROVE  MirrorInv'
<1>1. /\ record' = record /\ highWater' = highWater /\ canonical' = canonical
      /\ checkpoint' = checkpoint /\ projection' = projection
  BY DEF Abandon, tableVars, ledgerVars
<1>2. /\ batch'[c] = {} /\ ~applied'[c]
      /\ \A d \in Consumers \ {c} : batch'[d] = batch[d] /\ applied'[d] = applied[d]
  BY DEF Abandon, OutboxInv, TypeOK
<1>3. \A a : About(a)' = About(a)
  BY <1>1 DEF About, Stored
<1>4. BatchAhead' /\ DeletedIsFollowed'
  BY <1>1, <1>2, <1>3 DEF MirrorInv, BatchAhead, DeletedIsFollowed
<1>5. NewestTells'
  BY <1>1, <1>3 DEF MirrorInv, NewestTells, Tells
<1>6. AppliedIsShown'
  BY <1>1, <1>2 DEF MirrorInv, AppliedIsShown, IsNext
<1>7. SeenIsShown' /\ ObservationsHidden'
  BY <1>1, <1>3 DEF MirrorInv, SeenIsShown, ObservationsHidden
<1> QED
  BY <1>4, <1>5, <1>6, <1>7 DEF MirrorInv

\* Applying an item: unless it has been deleted, the consumer has no receipt for
\* its event, because the only one there could be is the item's own.
LEMMA ApplyMirrors ==
    ASSUME OutboxInv, MirrorInv, NEW c \in Consumers, Apply(c)
    PROVE  MirrorInv'
<1>1. PICK item \in batch[c] :
        /\ IsNext(c, item)
        /\ projection' = IF \A n \in receipts[c] : record[n] # item.event
                         THEN [projection EXCEPT ![c] = Projected(@, item.event)]
                         ELSE projection
  BY DEF Apply
<1>2. /\ record' = record /\ highWater' = highWater /\ canonical' = canonical
      /\ checkpoint' = checkpoint /\ batch' = batch
      /\ \A d \in Consumers \ {c} : applied'[d] = applied[d]
  BY DEF Apply, tableVars, ledgerVars, OutboxInv, TypeOK
<1>3. /\ item.event \in Events /\ item.event.about \in Aggregates
      /\ item.sequence \in Sequences /\ None \notin Events
      /\ projection \in [Consumers -> [Aggregates -> Aggregates \cup {None}]]
      /\ projection[c] \in [Aggregates -> Aggregates \cup {None}]
  BY OutboxAssumption DEF OutboxAssumption, OutboxInv, TypeOK, Items, Events
<1> DEFINE a == item.event.about
<1>4. \A d \in Consumers \ {c} : projection'[d] = projection[d]
  BY <1>1, <1>3
<1>5. /\ projection'[c] = projection[c] \/ projection'[c] = Projected(projection[c], item.event)
      /\ (\A n \in receipts[c] : record[n] # item.event)
            => projection'[c] = Projected(projection[c], item.event)
  BY <1>1, <1>3
<1>6. \A b : About(b)' = About(b)
  BY <1>2 DEF About, Stored
<1>7. BatchAhead' /\ DeletedIsFollowed'
  BY <1>2, <1>6 DEF MirrorInv, BatchAhead, DeletedIsFollowed
<1>8. NewestTells'
  BY <1>2, <1>6 DEF MirrorInv, NewestTells, Tells
<1>9. AppliedIsShown'
  <2> SUFFICES ASSUME NEW d \in Consumers, applied'[d], NEW other \in batch[d],
                      IsNext(d, other), record[other.sequence] = other.event,
                      Kind[other.event.about] = "derived"
               PROVE  projection'[d][other.event.about] = other.event.about
                         <=> other.event.type = "recorded"
    BY <1>2 DEF AppliedIsShown, IsNext
  <2>1. CASE d # c
    BY <2>1, <1>2, <1>4 DEF MirrorInv, AppliedIsShown
  <2>2. CASE d = c
    <3>1. item.sequence \in Nat /\ other.sequence \in Nat
      BY <2>2 DEF OutboxInv, TypeOK, Items, Sequences
    <3>2. item.sequence <= other.sequence /\ other.sequence <= item.sequence
      BY <1>1, <2>2 DEF IsNext
    <3>3. other = item
      <4>1. item.sequence = other.sequence
        BY <3>1, <3>2
      <4> QED
        BY <2>2, <4>1, OneItemPerNumber
    <3>4. \A n \in receipts[c] : record[n] # item.event
      <4> SUFFICES ASSUME NEW n \in receipts[c], record[n] = item.event PROVE FALSE
        OBVIOUS
      <4>1. n \in Stored(record) /\ n <= checkpoint[c] /\ item.sequence \in Stored(record)
        BY <1>3, <3>3 DEF OutboxInv, ReceiptsStored, Stored
      <4>2. n = item.sequence
        BY <3>3, <4>1 DEF OutboxInv, OneRecordPerEvent
      <4>3. checkpoint[c] < item.sequence /\ checkpoint[c] \in Nat
        BY OutboxAssumption DEF OutboxAssumption, MirrorInv, BatchAhead, OutboxInv, TypeOK
      <4> QED
        BY <3>1, <4>1, <4>2, <4>3
    <3>5. item.event.type # "rejected"
      <4>1. item.sequence \in About(a) /\ record[item.sequence] = item.event
        BY <1>3, <3>3 DEF About, Stored
      <4> QED
        BY <1>3, <3>3, <4>1 DEF MirrorInv, NewestTells, Tells
    <3> QED
      BY <1>3, <1>5, <2>2, <3>3, <3>4, <3>5, ProjectedKeys
  <2> QED
    BY <2>1, <2>2
<1>10. SeenIsShown'
  <2> SUFFICES ASSUME NEW d \in Consumers, NEW b \in Aggregates, Kind[b] = "derived",
                      \A n \in About(b) : n <= checkpoint[d]
               PROVE  projection'[d][b] = projection[d][b]
    BY <1>2, <1>6 DEF SeenIsShown, MirrorInv
  <2>1. d = c => b # a
    BY BatchIsPending
  <2> QED
    BY <1>3, <1>4, <1>5, <2>1, ProjectedKeys
<1>11. ObservationsHidden'
  <2> SUFFICES ASSUME NEW d \in Consumers, NEW b \in Aggregates, Kind[b] = "observation"
               PROVE  projection'[d][b] = None
    BY DEF ObservationsHidden
  <2>1. projection[d][b] = None
    BY DEF MirrorInv, ObservationsHidden
  <2> QED
    BY <1>3, <1>4, <1>5, <2>1, ProjectedKeys
<1> QED
  BY <1>7, <1>8, <1>9, <1>10, <1>11 DEF MirrorInv

\* Acknowledging an item: if it was all that was left about a derived record, it
\* is the newest event about it, and what it says has been applied.
LEMMA AcknowledgeMirrors ==
    ASSUME OutboxInv, MirrorInv, NEW c \in Consumers, Acknowledge(c)
    PROVE  MirrorInv'
<1>1. PICK item \in batch[c] :
        /\ IsNext(c, item) /\ Acknowledgeable(c, item)
        /\ checkpoint' = [checkpoint EXCEPT ![c] = Max({@, item.sequence})]
        /\ batch' = [batch EXCEPT ![c] = @ \ {item}]
  BY DEF Acknowledge
<1>2. /\ record' = record /\ highWater' = highWater /\ canonical' = canonical
      /\ projection' = projection /\ applied[c] /\ ~applied'[c]
      /\ \A d \in Consumers \ {c} : applied'[d] = applied[d]
  BY DEF Acknowledge, tableVars, OutboxInv, TypeOK
<1> DEFINE s == item.sequence
           a == item.event.about
<1>3. /\ s \in Sequences /\ s \in Nat /\ item.event \in Events /\ a \in Aggregates
      /\ checkpoint \in [Consumers -> 0..MaxSequence] /\ checkpoint[c] \in Nat
      /\ checkpoint[c] < s /\ s <= highWater
  BY OutboxAssumption
     DEF OutboxAssumption, OutboxInv, TypeOK, Items, Events, Sequences, MirrorInv, BatchAhead
<1>4. Max({checkpoint[c], s}) = s
  <2>1. \A x \in {checkpoint[c], s} : x <= s
    BY <1>3
  <2> QED
    BY <1>3, <2>1, GreatestIsMax
<1>5. /\ checkpoint'[c] = s
      /\ \A d \in Consumers \ {c} : checkpoint'[d] = checkpoint[d] /\ batch'[d] = batch[d]
      /\ batch'[c] = batch[c] \ {item}
  BY <1>1, <1>3, <1>4 DEF OutboxInv, TypeOK
<1>6. record[s] = item.event /\ s \in About(a)
  BY <1>1, <1>3, OutboxAssumption DEF OutboxAssumption, Acknowledgeable, About, Stored
<1>7. \A b : About(b)' = About(b)
  BY <1>2 DEF About, Stored
<1>8. BatchAhead'
  <2> SUFFICES ASSUME NEW other \in batch[c] \ {item}
               PROVE  s < other.sequence
    BY <1>2, <1>5 DEF MirrorInv, BatchAhead
  <2>1. s <= other.sequence /\ other.sequence \in Nat
    BY <1>1 DEF IsNext, OutboxInv, TypeOK, Items, Sequences
  <2>2. s # other.sequence
    BY <1>6, OneItemPerNumber
  <2> QED
    BY <1>3, <2>1, <2>2
<1>9. DeletedIsFollowed'
  BY <1>2, <1>5, <1>7 DEF MirrorInv, DeletedIsFollowed
<1>10. NewestTells'
  BY <1>2, <1>7 DEF MirrorInv, NewestTells, Tells
<1>11. AppliedIsShown'
  BY <1>2, <1>5 DEF MirrorInv, AppliedIsShown, IsNext
<1>12. SeenIsShown'
  <2> SUFFICES ASSUME NEW d \in Consumers, NEW b \in Aggregates, Kind[b] = "derived",
                      \A n \in About(b) : n <= checkpoint'[d]
               PROVE  projection[d][b] = b <=> canonical[b] = "active"
    BY <1>2, <1>7 DEF SeenIsShown
  <2>1. CASE \A n \in About(b) : n <= checkpoint[d]
    BY <2>1 DEF MirrorInv, SeenIsShown
  <2>2. CASE ~ \A n \in About(b) : n <= checkpoint[d]
    <3>1. d = c
      BY <1>5, <2>2
    <3>2. PICK n \in About(b) : ~(n <= checkpoint[c])
      BY <2>2, <3>1
    <3>3. n \in Nat /\ n \in Stored(record) /\ n <= s
      BY <1>5, <3>1, <3>2 DEF About, Stored, Sequences
    <3>4. ~(checkpoint[c] < n /\ n < s)
      BY <1>1, <3>3 DEF Acknowledgeable
    <3>5. n = s
      BY <1>3, <3>2, <3>3, <3>4
    <3>6. b = a
      BY <1>6, <3>2, <3>5 DEF About
    <3>7. item.event.type = "recorded" <=> canonical[a] = "active"
      BY <1>3, <1>5, <1>6, <3>1, <3>6 DEF MirrorInv, NewestTells, Tells
    <3>8. projection[c][a] = a <=> item.event.type = "recorded"
      BY <1>1, <1>2, <1>6, <3>6 DEF MirrorInv, AppliedIsShown
    <3> QED
      BY <3>1, <3>6, <3>7, <3>8
  <2> QED
    BY <2>1, <2>2
<1>13. ObservationsHidden'
  BY <1>2 DEF MirrorInv, ObservationsHidden
<1> QED
  BY <1>8, <1>9, <1>10, <1>11, <1>12, <1>13 DEF MirrorInv

\* The invariant holds at the start ...
LEMMA MirrorInvInit == Init => MirrorInv
<1> SUFFICES ASSUME Init PROVE MirrorInv
  OBVIOUS
<1>1. None \notin Aggregates /\ Stored(record) = {}
  BY OutboxAssumption DEF OutboxAssumption, Init, Stored
<1>2. \A a : About(a) = {}
  BY <1>1 DEF About
<1>3. BatchAhead /\ DeletedIsFollowed /\ AppliedIsShown
  BY DEF Init, BatchAhead, DeletedIsFollowed, AppliedIsShown
<1>4. NewestTells
  BY <1>2 DEF Init, NewestTells, Tells
<1>5. SeenIsShown /\ ObservationsHidden
  BY <1>1 DEF Init, SeenIsShown, ObservationsHidden
<1> QED
  BY <1>3, <1>4, <1>5 DEF MirrorInv

\* ... and every step preserves it.
LEMMA MirrorInvStep == OutboxInv /\ MirrorInv /\ [Next]_vars => MirrorInv'
<1> SUFFICES ASSUME OutboxInv, MirrorInv, [Next]_vars PROVE MirrorInv'
  OBVIOUS
<1>1. CASE \E a \in Aggregates : Produce(a)
  BY <1>1, ProduceMirrors
<1>2. ASSUME NEW c \in Consumers, Consume(c) \/ ConsumeFails(c)
      PROVE  MirrorInv'
  BY <1>2, ReadMirrors, ApplyMirrors, AcknowledgeMirrors, AbandonMirrors
     DEF Consume, AcknowledgeRefused, ConsumeFails
<1>3. CASE UNCHANGED vars
  <2>1. \A a : About(a)' = About(a)
    BY <1>3 DEF vars, tableVars, About, Stored
  <2> QED
    BY <1>3, <2>1 DEF vars, tableVars, ledgerVars, memoryVars, MirrorInv, BatchAhead,
       DeletedIsFollowed, NewestTells, Tells, AppliedIsShown, SeenIsShown, ObservationsHidden,
       IsNext
<1> QED
  BY <1>1, <1>2, <1>3 DEF Next

\* A consumer that has caught up shows exactly the derived records that are
\* active, and never an observation: although it may have applied items after
\* their deletion, and items again after a failure, nothing of that outlives the
\* moment at which it has caught up.
THEOREM ProjectionIsMirror == Spec => []ProjectionMirrors
<1>1. OutboxInv /\ MirrorInv => ProjectionMirrors
  <2> SUFFICES ASSUME OutboxInv, MirrorInv, NEW c \in Consumers
               PROVE  Mirrors(c, {"derived"})
    BY DEF ProjectionMirrors, MirrorInv, ObservationsHidden
  <2> SUFFICES ASSUME CaughtUp(c), NEW a \in Aggregates, Kind[a] = "derived"
               PROVE  projection[c][a] = a <=> canonical[a] = "active"
    BY DEF Mirrors, KeyOf
  <2>1. checkpoint[c] \in Nat
    BY OutboxAssumption DEF OutboxAssumption, OutboxInv, TypeOK
  <2>2. \A n \in About(a) : n <= checkpoint[c]
    BY <2>1 DEF CaughtUp, Pending, About, Stored, Sequences
  <2> QED
    BY <2>2 DEF MirrorInv, SeenIsShown
<1>2. Spec => []MirrorInv
  BY MirrorInvInit, MirrorInvStep, OutboxInvariant, PTL DEF Spec
<1> QED
  BY <1>1, <1>2, OutboxInvariant, PTL
=============================================================================
