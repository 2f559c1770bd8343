-------------------------- MODULE ProcessorProofs ---------------------------
(***************************************************************************)
(* Proofs about Processor, for every set of jobs, subjects, instances and  *)
(* owner names, every configuration and every bound.                       *)
(***************************************************************************)
EXTENDS Processor, TLAPS

-----------------------------------------------------------------------------
(***************************************************************************)
(* Type correctness                                                        *)
(***************************************************************************)

\* Moment returns a moment within the bound.
LEMMA MomentType ==
    ASSUME NEW t \in Nat
    PROVE  Moment(t) \in 0..MaxClock
BY ProcessorAssumption DEF Moment

\* The counter of attempts stays a number.
LEMMA IncrementedType ==
    ASSUME NEW n \in Nat
    PROVE  Incremented(n) \in Nat
BY ProcessorAssumption DEF Incremented

\* What a claim of job j by instance w writes (claim_next without its choice).
Claims(w, j) ==
    /\ state' = [k \in Jobs |-> IF k = j THEN "processing"
                                ELSE IF k \in Expired(stamp[w]) THEN "pending"
                                ELSE state[k]]
    /\ leaseOwner' = [k \in Jobs |-> IF k = j THEN OwnerOf[w]
                                     ELSE IF k \in Expired(stamp[w]) THEN None
                                     ELSE leaseOwner[k]]
    /\ leaseExpires' = [k \in Jobs |-> IF k = j THEN Moment(stamp[w] + LeaseMs)
                                       ELSE IF k \in Expired(stamp[w]) THEN None
                                       ELSE leaseExpires[k]]
    /\ nextAttempt' = [k \in Jobs |-> IF k \in Expired(stamp[w]) THEN stamp[w]
                                      ELSE nextAttempt[k]]
    /\ attempts' = [attempts EXCEPT ![j] = Incremented(@)]
    /\ holder' = [holder EXCEPT ![j] = w]
    /\ claimed' = [claimed EXCEPT ![w] = j]
    /\ claimedAttempts' = [claimedAttempts EXCEPT ![w] = Incremented(attempts[j])]

\* claim_next takes a job that is pending and due, or whose lease has run out.
LEMMA ClaimTakes ==
    ASSUME NEW w \in Workers, ClaimNext(w)
    PROVE  \E j \in Jobs :
              /\ Claims(w, j)
              /\ \/ state[j] = "pending"
                 \/ state[j] = "processing" /\ leaseExpires[j] <= stamp[w]
<1>1. PICK j \in Claimable(stamp[w]) : Claims(w, j)
    BY Zenon DEF ClaimNext, Claims
<1> QED
    BY <1>1 DEF Claimable, Expired

\* Every step keeps the types, one action after the other.
LEMMA TypeStep == TypeOK /\ [Next]_vars => TypeOK'
<1> SUFFICES ASSUME TypeOK, [Next]_vars PROVE TypeOK'
    OBVIOUS
<1> USE ProcessorAssumption
<1>1. CASE Tick
    BY <1>1 DEF Tick, TypeOK, jobVars, dataVars, workerVars
<1>2. ASSUME NEW j \in Jobs, Enqueue(j) PROVE TypeOK'
    BY <1>2 DEF Enqueue, TypeOK, timeVars, dataVars, workerVars, JobStates
<1>3. ASSUME NEW w \in Workers, ReadClock(w) PROVE TypeOK'
    BY <1>3 DEF ReadClock, Moves, KeepsClaim, TypeOK, timeVars, jobVars, dataVars, Phases
<1>4. ASSUME NEW w \in Workers, ClaimNothing(w) PROVE TypeOK'
    BY <1>4 DEF ClaimNothing, Moves, KeepsClaim, TypeOK, timeVars, jobVars, dataVars, Phases
<1>5. ASSUME NEW w \in Workers, ClaimNext(w) PROVE TypeOK'
    <2>1. PICK j \in Jobs : Claims(w, j)
        BY <1>5, ClaimTakes
    <2>2. /\ stamp[w] \in 0..MaxClock /\ phase[w] = "ready"
          /\ phase' = [phase EXCEPT ![w] = "claimed"]
          /\ UNCHANGED <<timeVars, dataVars, stamp, target>>
        BY <1>5 DEF ClaimNext, Moves, TypeOK
    <2>3. Moment(stamp[w] + LeaseMs) \in 0..MaxClock /\ Incremented(attempts[j]) \in Nat
        BY <2>2, MomentType, IncrementedType DEF TypeOK
    <2>4. /\ state' \in [Jobs -> JobStates]
          /\ leaseOwner' \in [Jobs -> Owners \cup {None}]
          /\ leaseExpires' \in [Jobs -> 0..MaxClock \cup {None}]
          /\ nextAttempt' \in [Jobs -> 0..MaxClock]
        BY <2>1, <2>2, <2>3 DEF Claims, TypeOK, JobStates
    <2>5. /\ attempts' \in [Jobs -> Nat]
          /\ holder' \in [Jobs -> Workers \cup {None}]
          /\ claimed' \in [Workers -> Jobs \cup {None}]
          /\ claimedAttempts' \in [Workers -> Nat]
          /\ phase' \in [Workers -> Phases]
        BY <2>1, <2>2, <2>3 DEF Claims, TypeOK, Phases
    <2>6. \A k \in Jobs : /\ (state'[k] = "processing") <=> (leaseOwner'[k] # None)
                          /\ (state'[k] = "processing") <=> (leaseExpires'[k] # None)
        BY <2>1, <2>2, <2>3 DEF Claims, TypeOK, Expired
    <2>7. \A v \in Workers :
            /\ (phase'[v] \in {"claimed", "permanent", "transient"}) <=> (claimed'[v] # None)
            /\ (phase'[v] \in {"deriving", "recomputing"}) <=> (target'[v] # None)
        BY <2>1, <2>2 DEF Claims, TypeOK
    <2> QED
        BY <2>2, <2>4, <2>5, <2>6, <2>7 DEF TypeOK, timeVars, dataVars
<1>6. ASSUME NEW w \in Workers, NormalizeLeaseLost(w) PROVE TypeOK'
    BY <1>6 DEF NormalizeLeaseLost, Exits, DropsClaim, Moves, TypeOK, timeVars, jobVars, dataVars, Phases
<1>7. ASSUME NEW w \in Workers, NormalizeRejects(w) PROVE TypeOK'
    BY <1>7 DEF NormalizeRejects, Moves, KeepsClaim, TypeOK, timeVars, jobVars, dataVars, Phases
<1>8. ASSUME NEW w \in Workers, NormalizeRaises(w) PROVE TypeOK'
    BY <1>8 DEF NormalizeRaises, Exits, DropsClaim, Moves, TypeOK, timeVars, jobVars, dataVars, Phases
<1>9. ASSUME NEW w \in Workers, NormalizeCommits(w) PROVE TypeOK'
    BY <1>9 DEF NormalizeCommits, DropsClaim, Moves, TypeOK, timeVars, Phases, JobStates,
                Rescheduled, WindowStates, HoldsLease
<1>10. ASSUME NEW w \in Workers, FailClaimed(w) PROVE TypeOK'
    BY <1>10, MomentType DEF FailClaimed, DropsClaim, Moves, TypeOK, timeVars, dataVars, Phases, JobStates,
                RetryDelays, HoldsLease
<1>11. ASSUME NEW w \in Workers, FailLeaseLost(w) PROVE TypeOK'
    BY <1>11 DEF FailLeaseLost, Exits, DropsClaim, Moves, TypeOK, timeVars, jobVars, dataVars, Phases
<1>12. ASSUME NEW w \in Workers, Derive(w) PROVE TypeOK'
    BY <1>12 DEF Derive, Moves, KeepsClaim, Closed, Observed, TypeOK, timeVars, jobVars, Phases, WindowStates
<1>13. ASSUME NEW w \in Workers, SelectWindow(w) PROVE TypeOK'
    BY <1>13 DEF SelectWindow, Moves, KeepsClaim, TypeOK, timeVars, jobVars, dataVars, Phases
<1>14. ASSUME NEW w \in Workers, SelectNothing(w) PROVE TypeOK'
    BY <1>14 DEF SelectNothing, Moves, KeepsClaim, TypeOK, timeVars, jobVars, dataVars, Phases
<1>15. ASSUME NEW w \in Workers, Restart(w) PROVE TypeOK'
    BY <1>15 DEF Restart, Moves, KeepsClaim, TypeOK, timeVars, jobVars, dataVars, Phases
<1>16. ASSUME NEW w \in Workers, NormalizeDatabaseError(w) PROVE TypeOK'
    BY <1>16 DEF NormalizeDatabaseError, Faulty, Moves, KeepsClaim, TypeOK, jobVars, dataVars, Phases
<1>17. ASSUME NEW w \in Workers, DeriveFails(w) PROVE TypeOK'
    BY <1>17 DEF DeriveFails, Faulty, Moves, KeepsClaim, TypeOK, jobVars, dataVars, Phases
<1>18. ASSUME NEW w \in Workers, Crash(w) PROVE TypeOK'
    BY <1>18 DEF Crash, Faulty, Exits, DropsClaim, Moves, TypeOK, jobVars, dataVars, Phases
<1>19. CASE UNCHANGED vars
    BY <1>19 DEF vars, timeVars, jobVars, dataVars, workerVars, TypeOK
<1> QED
    BY <1>1, <1>2, <1>3, <1>4, <1>5, <1>6, <1>7, <1>8, <1>9, <1>10, <1>11, <1>12, <1>13,
       <1>14, <1>15, <1>16, <1>17, <1>18, <1>19 DEF Next, Step, Fault

\* The empty queue and the idle instances have the types.
LEMMA TypeInit == Init => TypeOK
BY ProcessorAssumption DEF Init, TypeOK, JobStates, WindowStates, Phases

\* The types of the job table, of the derived state and of each instance's
\* memory hold in every reachable state, as does the CHECK of processing_jobs:
\* no path leaves a lease without its owner or its expiry.
THEOREM TypeCorrect == Spec => []TypeOK
BY TypeInit, TypeStep, PTL DEF Spec

-----------------------------------------------------------------------------
(***************************************************************************)
(* The steps that write a table                                            *)
(***************************************************************************)

\* Only five operations write the tables; every other step of Next, and every
\* stutter, leaves them alone.
LEMMA TableSteps ==
    ASSUME [Next]_vars
    PROVE  \/ \E j \in Jobs : Enqueue(j)
           \/ \E w \in Workers : ClaimNext(w) \/ NormalizeCommits(w) \/ FailClaimed(w) \/ Derive(w)
           \/ UNCHANGED <<jobVars, dataVars>>
BY DEF Next, Step, Fault, vars, Tick, ReadClock, ClaimNothing, NormalizeLeaseLost,
       NormalizeRejects, NormalizeRaises, FailLeaseLost, SelectWindow, SelectNothing,
       Restart, NormalizeDatabaseError, DeriveFails, Crash

\* A worker that holds a lease has a job in memory, and the job is processing.
LEMMA LeaseHasJob ==
    ASSUME TypeOK, NEW w \in Workers, phase[w] \in {"claimed", "permanent", "transient"}
    PROVE  claimed[w] \in Jobs
BY DEF TypeOK

-----------------------------------------------------------------------------
(***************************************************************************)
(* Exactly-once effects                                                    *)
(***************************************************************************)

\* A normalization counts the effects of a job up in the same step that ends it,
\* and it can only do so to a job that is still being processed.
LEMMA ExactlyOnceStep == TypeOK /\ ExactlyOnce /\ [Next]_vars => ExactlyOnce'
<1> SUFFICES ASSUME TypeOK, ExactlyOnce, [Next]_vars PROVE ExactlyOnce'
    OBVIOUS
<1>1. ASSUME NEW j \in Jobs, Enqueue(j) PROVE ExactlyOnce'
    BY <1>1 DEF Enqueue, ExactlyOnce, TypeOK, dataVars
<1>2. ASSUME NEW w \in Workers, ClaimNext(w) PROVE ExactlyOnce'
    <2>1. effects' = effects
        BY <1>2 DEF ClaimNext, dataVars
    <2> QED
        BY <1>2, <2>1, ClaimTakes DEF Claims, ExactlyOnce, Expired
<1>3. ASSUME NEW w \in Workers, NormalizeCommits(w) PROVE ExactlyOnce'
    <2>1. claimed[w] \in Jobs /\ state[claimed[w]] = "processing"
        BY <1>3, LeaseHasJob DEF NormalizeCommits, HoldsLease
    <2> QED
        BY <1>3, <2>1 DEF NormalizeCommits, ExactlyOnce, TypeOK
<1>4. ASSUME NEW w \in Workers, FailClaimed(w) PROVE ExactlyOnce'
    <2>1. claimed[w] \in Jobs /\ state[claimed[w]] = "processing"
        BY <1>4, LeaseHasJob DEF FailClaimed, HoldsLease
    <2> QED
        BY <1>4, <2>1 DEF FailClaimed, ExactlyOnce, TypeOK, dataVars
<1>5. ASSUME NEW w \in Workers, Derive(w) PROVE ExactlyOnce'
    BY <1>5 DEF Derive, ExactlyOnce, jobVars
<1>6. CASE UNCHANGED <<jobVars, dataVars>>
    BY <1>6 DEF ExactlyOnce, jobVars, dataVars
<1> QED
    BY <1>1, <1>2, <1>3, <1>4, <1>5, <1>6, TableSteps

\* However many instances run, whether or not their owner names differ, and
\* wherever they are killed, the effects of a job are committed once if it is
\* processed and never otherwise.
THEOREM EffectsExactlyOnce == Spec => []ExactlyOnce
<1>1. Init => ExactlyOnce
    BY DEF Init, ExactlyOnce
<1> QED
    BY <1>1, TypeCorrect, ExactlyOnceStep, PTL DEF Spec

-----------------------------------------------------------------------------
(***************************************************************************)
(* No observation is forgotten by derivation                               *)
(***************************************************************************)

\* A new observation opens the window with it; only a derivation, which reads all
\* evidence, closes it.
LEMMA EvidenceStep == TypeOK /\ EvidenceCovered /\ [Next]_vars => EvidenceCovered'
<1> SUFFICES ASSUME TypeOK, EvidenceCovered, [Next]_vars,
                    NEW s \in Subjects, derived'[s] # Observed(s)'
             PROVE  window'[s] = "pending"
    BY DEF EvidenceCovered
<1>1. ASSUME UNCHANGED dataVars PROVE window'[s] = "pending"
    BY <1>1 DEF EvidenceCovered, Observed, dataVars
<1>2. ASSUME NEW w \in Workers, NormalizeCommits(w) PROVE window'[s] = "pending"
    <2> DEFINE j == claimed[w]
    <2>1. j \in Jobs
        BY <1>2, LeaseHasJob DEF NormalizeCommits
    <2>2. CASE Kind[j] = "located" /\ SubjectOf[j] = s
        BY <1>2, <2>2 DEF NormalizeCommits, Rescheduled, TypeOK
    <2>3. CASE ~(Kind[j] = "located" /\ SubjectOf[j] = s)
        <3>1. Observed(s)' = Observed(s) /\ derived' = derived
            BY <1>2, <2>1, <2>3 DEF NormalizeCommits, Observed, TypeOK
        <3>2. window[s] = "pending" => window'[s] = "pending"
            BY <1>2 DEF NormalizeCommits, Rescheduled, TypeOK
        <3> QED
            BY <3>1, <3>2 DEF EvidenceCovered
    <2> QED
        BY <2>2, <2>3
<1>3. ASSUME NEW w \in Workers, Derive(w) PROVE window'[s] = "pending"
    <2>1. Observed(s)' = Observed(s)
        BY <1>3 DEF Derive, Observed
    <2>2. target[w] # s
        BY <1>3, <2>1 DEF Derive, TypeOK
    <2> QED
        BY <1>3, <2>1, <2>2 DEF Derive, Closed, EvidenceCovered, TypeOK
<1> QED
    BY <1>1, <1>2, <1>3, TableSteps DEF Enqueue, ClaimNext, FailClaimed

\* Whatever fails between a normalization and its derivation, the subject's
\* window stays pending until a derivation has read the new evidence.
THEOREM EvidenceAlwaysCovered == Spec => []EvidenceCovered
<1>1. Init => EvidenceCovered
    BY DEF Init, EvidenceCovered, Observed
<1> QED
    BY <1>1, TypeCorrect, EvidenceStep, PTL DEF Spec

-----------------------------------------------------------------------------
(***************************************************************************)
(* A running lease keeps every claim away, under any names                 *)
(***************************************************************************)

\* LeaseExcludes is an action property: this is what one step must do.
LEMMA LeaseStep ==
    ASSUME TypeOK, [Next]_vars, NEW j \in Jobs,
           state[j] = "processing", clock < leaseExpires[j]
    PROVE  holder'[j] = holder[j]
<1>1. ASSUME NEW w \in Workers, ClaimNext(w) PROVE holder'[j] = holder[j]
    <2>1. PICK k \in Jobs :
            /\ Claims(w, k)
            /\ state[k] = "processing" => leaseExpires[k] <= stamp[w]
        BY <1>1, ClaimTakes
    <2>2. stamp[w] <= clock /\ clock \in 0..MaxClock /\ stamp[w] \in 0..MaxClock
        BY DEF TypeOK
    <2>3. leaseExpires[j] \in 0..MaxClock
        BY DEF TypeOK
    <2>4. ~(leaseExpires[j] <= stamp[w])
        BY <2>2, <2>3, ProcessorAssumption
    <2>5. k # j
        BY <2>1, <2>4
    <2> QED
        BY <2>1, <2>5 DEF Claims, TypeOK
<1>2. ASSUME NEW w \in Workers, NormalizeCommits(w) \/ FailClaimed(w)
      PROVE  UNCHANGED holder
    BY <1>2 DEF NormalizeCommits, FailClaimed
<1> QED
    BY <1>1, <1>2, TableSteps DEF Enqueue, Derive, jobVars

\* While a lease runs, claim_next gives the job to nobody else, whatever the
\* instances are called and however old their clock readings are.
THEOREM LeasesExclude == Spec => LeaseExcludes
<1>1. TypeOK /\ [Next]_vars =>
        [\A j \in Jobs :
            state[j] = "processing" /\ clock < leaseExpires[j] => holder'[j] = holder[j]]_vars
    BY LeaseStep
<1> QED
    BY <1>1, TypeCorrect, PTL DEF Spec, LeaseExcludes

-----------------------------------------------------------------------------
(***************************************************************************)
(* Refinement of the ledger                                                *)
(***************************************************************************)

\* A step of the processor is a step of the ledger for one job, or a stutter.
LEMMA LedgerStep ==
    ASSUME TypeOK, ExactlyOnce, [Next]_vars
    PROVE  [Ledger!LedgerNext]_(Ledger!ledgerVars)
<1> DEFINE Fate(s) == IF s = "absent" THEN "unknown"
                      ELSE IF s = "processed" THEN "done"
                      ELSE IF s = "failed" THEN "dead"
                      ELSE "open"
           fate == [j \in Jobs |-> Fate(state[j])]
<1> USE DEF Ledger!LedgerNext, Ledger!ledgerVars, Ledger!Accept, Ledger!Complete, Ledger!DeadLetter
<1>1. ASSUME NEW j \in Jobs, Enqueue(j) PROVE Ledger!Accept(j)
    BY <1>1 DEF Enqueue, TypeOK, dataVars
<1>2. ASSUME NEW w \in Workers, ClaimNext(w) PROVE UNCHANGED Ledger!ledgerVars
    <2>1. PICK j \in Jobs : Claims(w, j) /\ state[j] \in {"pending", "processing"}
        BY <1>2, ClaimTakes
    <2>2. \A k \in Jobs : Fate(state'[k]) = Fate(state[k])
        BY <2>1 DEF Claims, Expired
    <2>3. effects' = effects
        BY <1>2 DEF ClaimNext, dataVars
    <2> QED
        BY <2>2, <2>3
<1>3. ASSUME NEW w \in Workers, NormalizeCommits(w) PROVE Ledger!Complete(claimed[w])
    <2> DEFINE j == claimed[w]
    <2>1. j \in Jobs /\ state[j] = "processing" /\ effects[j] = 0
        BY <1>3, LeaseHasJob DEF NormalizeCommits, HoldsLease, ExactlyOnce
    <2>2. effects' = [effects EXCEPT ![j] = 1]
        BY <1>3, <2>1 DEF NormalizeCommits, TypeOK
    <2> QED
        BY <1>3, <2>1, <2>2 DEF NormalizeCommits, TypeOK
<1>4. ASSUME NEW w \in Workers, FailClaimed(w)
      PROVE  Ledger!DeadLetter(claimed[w]) \/ UNCHANGED Ledger!ledgerVars
    <2> DEFINE j == claimed[w]
    <2>1. j \in Jobs /\ state[j] = "processing" /\ effects' = effects
        BY <1>4, LeaseHasJob DEF FailClaimed, HoldsLease, dataVars
    <2>2. CASE state' = [state EXCEPT ![j] = "failed"]
        BY <2>1, <2>2 DEF TypeOK
    <2>3. CASE state' = [state EXCEPT ![j] = "pending"]
        BY <2>1, <2>3 DEF TypeOK
    <2> QED
        BY <1>4, <2>2, <2>3 DEF FailClaimed
<1>5. CASE UNCHANGED <<state, effects>>
    BY <1>5
<1> QED
    <2>1. ASSUME NEW w \in Workers, NormalizeCommits(w) \/ FailClaimed(w) PROVE claimed[w] \in Jobs
        BY <2>1, LeaseHasJob DEF NormalizeCommits, FailClaimed
    <2> QED
        BY <1>1, <1>2, <1>3, <1>4, <1>5, <2>1, TableSteps DEF Derive, jobVars, dataVars

\* The queue with its instances, leases, retries and crashes implements the
\* ledger: each accepted event is written once or dead-lettered, for good.
THEOREM ProcessorImplementsLedger == Spec => ImplementsLedger
<1>1. Init => Ledger!LedgerInit
    BY DEF Init, Ledger!LedgerInit
<1> QED
    BY <1>1, LedgerStep, TypeCorrect, EffectsExactlyOnce, PTL
       DEF Spec, ImplementsLedger, Ledger!LedgerSpec
=============================================================================
