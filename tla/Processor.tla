----------------------------- MODULE Processor ------------------------------
(***************************************************************************)
(* The durable job queue and the processor instances that drain it         *)
(* (src/hermodr/processor.py), over the tables processing_jobs,            *)
(* observations and recompute_windows.                                     *)
(*                                                                         *)
(* Every action is one SQLite transaction, or one step of a process that   *)
(* no transaction covers: between two of them any other process may run,   *)
(* the lease may expire, and the process may be killed.  A worker follows  *)
(* the loop of serve():                                                    *)
(*                                                                         *)
(*   idle -> ready -> claimed -> deriving -> selecting -> recomputing      *)
(*                       |                       ^                         *)
(*                       +-> permanent/transient +                         *)
(*                                                                         *)
(* and is "down" after an exception that serve() does not catch, or after  *)
(* a kill, until systemd starts it again.                                  *)
(***************************************************************************)
EXTENDS Integers

CONSTANTS
    Jobs,         \* the jobs the receiver may enqueue
    Subjects,     \* the subjects they belong to
    Workers,      \* processor instances
    Owners,       \* lease owner names
    None,         \* SQL NULL, and "nothing" in a process's memory
    SubjectOf,    \* SubjectOf[j]: the subject of job j
    Kind,         \* Kind[j]: what normalize_claimed makes of its evidence
    ClaimOrder,   \* ClaimOrder[j]: rank of j in the ORDER BY of claim_next
    OwnerOf,      \* OwnerOf[w]: the owner name instance w passes to process_one
    LeaseMs, MaxAttempts, BaseBackoff, MaxBackoff,  \* configuration
    MaxClock,     \* bound: the last modelled moment
    MaxFaults     \* bound: kills and database errors in one behaviour

(***************************************************************************)
(* located: a location, transition or waypoint that yields an observation. *)
(* status: a status event, normalized without an observation.              *)
(* invalid: evidence that raises PermanentProcessingError.                 *)
(* poison: evidence on which register_place raises DerivationError.        *)
(***************************************************************************)
Kinds == {"located", "status", "invalid", "poison"}

ASSUME ProcessorAssumption ==
    /\ None \notin Jobs \cup Subjects \cup Workers \cup Owners \cup Nat
    /\ SubjectOf \in [Jobs -> Subjects]
    /\ Kind \in [Jobs -> Kinds]
    /\ ClaimOrder \in [Jobs -> Nat]
    /\ OwnerOf \in [Workers -> Owners]
    /\ LeaseMs \in Nat \ {0}
    /\ MaxAttempts \in Nat \ {0}
    /\ BaseBackoff \in Nat \ {0}
    /\ MaxBackoff \in Nat /\ MaxBackoff >= BaseBackoff
    /\ MaxClock \in Nat
    /\ MaxFaults \in Nat

VARIABLES
    clock,         \* wall-clock time
    state,         \* processing_jobs.state, "absent" before the row exists
    attempts,      \* processing_jobs.attempts
    nextAttempt,   \* processing_jobs.next_attempt_ms
    leaseOwner,    \* processing_jobs.lease_owner
    leaseExpires,  \* processing_jobs.lease_expires_ms
    effects,       \* how often a normalization of the job was committed
    window,        \* state of the subject's coalesced recompute window
    derived,       \* evidence read by the subject's last committed derivation
    phase,         \* where each worker is in its loop
    stamp,         \* the time process_one took when it started
    claimed,       \* ClaimedJob.job_id in the worker's memory
    claimedAttempts, \* ClaimedJob.attempts in the worker's memory
    target,        \* the subject the worker is about to derive
    holder,        \* history: the worker whose claim of the job is the latest
    faults         \* kills and database errors so far

timeVars == <<clock, faults>>
jobVars == <<state, attempts, nextAttempt, leaseOwner, leaseExpires, holder>>
dataVars == <<effects, window, derived>>
workerVars == <<phase, stamp, claimed, claimedAttempts, target>>
vars == <<timeVars, jobVars, dataVars, workerVars>>

JobStates == {"absent", "pending", "processing", "processed", "failed"}
Phases == {"down", "idle", "ready", "claimed", "permanent", "transient",
           "deriving", "selecting", "recomputing"}
WindowStates == {"none", "pending", "processed"}

Init ==
    /\ clock = 0 /\ faults = 0
    /\ state = [j \in Jobs |-> "absent"]
    /\ attempts = [j \in Jobs |-> 0]
    /\ nextAttempt = [j \in Jobs |-> 0]
    /\ leaseOwner = [j \in Jobs |-> None]
    /\ leaseExpires = [j \in Jobs |-> None]
    /\ holder = [j \in Jobs |-> None]
    /\ effects = [j \in Jobs |-> 0]
    /\ window = [s \in Subjects |-> "none"]
    /\ derived = [s \in Subjects |-> {}]
    /\ phase = [w \in Workers |-> "idle"]
    /\ stamp = [w \in Workers |-> 0]
    /\ claimed = [w \in Workers |-> None]
    /\ claimedAttempts = [w \in Workers |-> 0]
    /\ target = [w \in Workers |-> None]

-----------------------------------------------------------------------------
(***************************************************************************)
(* Helpers                                                                 *)
(***************************************************************************)

\* Time ends at MaxClock: a moment beyond it counts as MaxClock itself, so
\* that no lease or delay waits for a moment that never comes.
Moment(t) == IF t > MaxClock THEN MaxClock ELSE t

\* attempts is only ever compared with MaxAttempts, and the exponent of the
\* delay only matters below it: counts beyond it are one value.
Incremented(n) == IF n > MaxAttempts THEN n ELSE n + 1

\* Mutant: expired leases are never reclaimed.
NeverExpired(t) == {}

\* Mutant: every job that is being processed is taken for abandoned.
AnyLeased(t) == {j \in Jobs : state[j] = "processing"}

\* reclaim_expired: the jobs whose lease has run out at time t.
Expired(t) ==
    {j \in Jobs : state[j] = "processing" /\ leaseExpires[j] <= t}

\* The jobs claim_next can select at time t; a job it has just reclaimed is
\* pending with next_attempt_ms = t.
Claimable(t) ==
    Expired(t) \cup {j \in Jobs : state[j] = "pending" /\ nextAttempt[j] <= t}

\* _retry_delay for the a-th attempt.  The jitter comes from a hash of the
\* job and the attempt, so any of its values may occur.
RetryDelays(a) ==
    LET Capped(d) == IF d > MaxBackoff THEN MaxBackoff ELSE d
        exponential == Capped(BaseBackoff * 2 ^ (a - 1))
    IN  {d \in 0..MaxBackoff :
            \E jitter \in 0..(exponential \div 4) : d = Capped(exponential + jitter)}

\* Mutant: no lease is looked for.
Unfenced(w) == TRUE

\* The check at the head of normalize_claimed and in the WHERE clauses of its
\* last UPDATE and of fail_claimed.  The lease is identified by name only, and
\* serve gives every instance the same name.
HoldsLease(w) ==
    /\ state[claimed[w]] = "processing"
    /\ leaseOwner[claimed[w]] = OwnerOf[w]

\* The observations of a subject.
Observed(s) ==
    {j \in Jobs : SubjectOf[j] = s /\ Kind[j] = "located" /\ effects[j] > 0}

\* Mutant: INSERT OR IGNORE, so that a processed window is not opened again.
CreatedOnly(s) == [window EXCEPT ![s] = IF @ = "none" THEN "pending" ELSE @]

\* Mutant: the derivation is left to process_one.
NotScheduled(s) == window

\* schedule_recompute: the subject's one window is created or set pending.
Rescheduled(s) == [window EXCEPT ![s] = "pending"]

\* reprocess_subject closes the subject's pending window.
Closed(s) == [window EXCEPT ![s] = IF @ = "pending" THEN "processed" ELSE @]

\* Mutant: the claim outlives the attempt.
KeepsStaleClaim(w) == UNCHANGED <<claimed, claimedAttempts>>

\* Worker w moves to phase p, keeping its claim or dropping it.
Moves(w, p) == phase' = [phase EXCEPT ![w] = p]
KeepsClaim == UNCHANGED <<claimed, claimedAttempts>>
DropsClaim(w) ==
    /\ claimed' = [claimed EXCEPT ![w] = None]
    /\ claimedAttempts' = [claimedAttempts EXCEPT ![w] = 0]

\* The process ends: nothing of its memory survives.
Exits(w) ==
    /\ Moves(w, "down")
    /\ DropsClaim(w)
    /\ target' = [target EXCEPT ![w] = None]
    /\ UNCHANGED stamp

Faulty == faults < MaxFaults /\ faults' = faults + 1

-----------------------------------------------------------------------------
(***************************************************************************)
(* The environment: time and the receiver                                  *)
(***************************************************************************)

Tick ==
    /\ clock < MaxClock
    /\ clock' = clock + 1
    /\ UNCHANGED <<faults, jobVars, dataVars, workerVars>>

\* persist_ingest commits an accepted event together with its job, which is due
\* since the receiver read its clock, some time before the commit.
Enqueue(j) ==
    /\ state[j] = "absent"
    /\ state' = [state EXCEPT ![j] = "pending"]
    /\ \E received \in 0..clock : nextAttempt' = [nextAttempt EXCEPT ![j] = received]
    /\ UNCHANGED <<timeVars, attempts, leaseOwner, leaseExpires, holder,
                   dataVars, workerVars>>

-----------------------------------------------------------------------------
(***************************************************************************)
(* process_one                                                             *)
(***************************************************************************)

\* process_one reads the clock once; claim and failure use this stamp even
\* if the write lock is granted much later.
ReadClock(w) ==
    /\ phase[w] = "idle"
    /\ Moves(w, "ready")
    /\ stamp' = [stamp EXCEPT ![w] = clock]
    /\ KeepsClaim
    /\ UNCHANGED <<timeVars, jobVars, dataVars, target>>

\* claim_next finds nothing due (and hence nothing to reclaim).
ClaimNothing(w) ==
    /\ phase[w] = "ready"
    /\ Claimable(stamp[w]) = {}
    /\ Moves(w, "selecting")
    /\ KeepsClaim
    /\ UNCHANGED <<timeVars, jobVars, dataVars, stamp, target>>

\* claim_next reclaims every expired lease and takes the first due job.
ClaimNext(w) ==
    LET t == stamp[w]
        freed == Expired(t)
    IN  /\ phase[w] = "ready"
        /\ \E j \in Claimable(t) :
            /\ \A k \in Claimable(t) : ClaimOrder[j] <= ClaimOrder[k]
            /\ state' = [k \in Jobs |-> IF k = j THEN "processing"
                                        ELSE IF k \in freed THEN "pending"
                                        ELSE state[k]]
            /\ leaseOwner' = [k \in Jobs |-> IF k = j THEN OwnerOf[w]
                                             ELSE IF k \in freed THEN None
                                             ELSE leaseOwner[k]]
            /\ leaseExpires' = [k \in Jobs |-> IF k = j THEN Moment(t + LeaseMs)
                                               ELSE IF k \in freed THEN None
                                               ELSE leaseExpires[k]]
            /\ nextAttempt' = [k \in Jobs |-> IF k \in freed THEN t ELSE nextAttempt[k]]
            /\ attempts' = [attempts EXCEPT ![j] = Incremented(@)]
            /\ holder' = [holder EXCEPT ![j] = w]
            /\ claimed' = [claimed EXCEPT ![w] = j]
            /\ claimedAttempts' = [claimedAttempts EXCEPT ![w] = Incremented(attempts[j])]
        /\ Moves(w, "claimed")
        /\ UNCHANGED <<timeVars, dataVars, stamp, target>>

\* normalize_claimed raises ProcessingError("lease_lost"), which neither
\* process_one nor serve catches.
NormalizeLeaseLost(w) ==
    /\ phase[w] = "claimed"
    /\ ~HoldsLease(w)
    /\ Exits(w)
    /\ UNCHANGED <<timeVars, jobVars, dataVars>>

\* normalize_claimed rolls back with PermanentProcessingError.
NormalizeRejects(w) ==
    /\ phase[w] = "claimed"
    /\ HoldsLease(w)
    /\ Kind[claimed[w]] = "invalid"
    /\ Moves(w, "permanent")
    /\ KeepsClaim
    /\ UNCHANGED <<timeVars, jobVars, dataVars, stamp, target>>

\* register_place raises DerivationError inside normalize_claimed; it is
\* neither a PermanentProcessingError nor a sqlite3.Error.
NormalizeRaises(w) ==
    /\ phase[w] = "claimed"
    /\ HoldsLease(w)
    /\ Kind[claimed[w]] = "poison"
    /\ Exits(w)
    /\ UNCHANGED <<timeVars, jobVars, dataVars>>

\* normalize_claimed rolls back with a sqlite3.Error.
NormalizeDatabaseError(w) ==
    /\ phase[w] = "claimed"
    /\ Faulty
    /\ Moves(w, "transient")
    /\ KeepsClaim
    /\ UNCHANGED <<clock, jobVars, dataVars, stamp, target>>

\* normalize_claimed commits: the canonical rows, their outbox records, the
\* recompute window and the processed job, in one transaction.
NormalizeCommits(w) ==
    LET j == claimed[w]
        located == Kind[j] = "located"
    IN  /\ phase[w] = "claimed"
        /\ HoldsLease(w)
        /\ Kind[j] \in {"located", "status"}
        /\ state' = [state EXCEPT ![j] = "processed"]
        /\ leaseOwner' = [leaseOwner EXCEPT ![j] = None]
        /\ leaseExpires' = [leaseExpires EXCEPT ![j] = None]
        /\ effects' = [effects EXCEPT ![j] = @ + 1]
        /\ window' = IF located THEN Rescheduled(SubjectOf[j]) ELSE window
        /\ Moves(w, IF located THEN "deriving" ELSE "selecting")
        /\ target' = [target EXCEPT ![w] = IF located THEN SubjectOf[j] ELSE None]
        /\ DropsClaim(w)
        /\ UNCHANGED <<timeVars, attempts, nextAttempt, holder, derived, stamp>>

\* fail_claimed ends or postpones the job, if the lease still has our name.
FailClaimed(w) ==
    LET j == claimed[w]
        terminal == phase[w] = "permanent" \/ claimedAttempts[w] >= MaxAttempts
    IN  /\ phase[w] \in {"permanent", "transient"}
        /\ HoldsLease(w)
        /\ state' = [state EXCEPT ![j] = IF terminal THEN "failed" ELSE "pending"]
        /\ \E delay \in IF terminal THEN {0} ELSE RetryDelays(claimedAttempts[w]) :
              nextAttempt' = [nextAttempt EXCEPT ![j] = Moment(stamp[w] + delay)]
        /\ leaseOwner' = [leaseOwner EXCEPT ![j] = None]
        /\ leaseExpires' = [leaseExpires EXCEPT ![j] = None]
        /\ Moves(w, "selecting")
        /\ DropsClaim(w)
        /\ UNCHANGED <<timeVars, attempts, holder, dataVars, stamp, target>>

\* fail_claimed changes no row: ProcessingError("lease_lost"), not caught.
FailLeaseLost(w) ==
    /\ phase[w] \in {"permanent", "transient"}
    /\ ~HoldsLease(w)
    /\ Exits(w)
    /\ UNCHANGED <<timeVars, jobVars, dataVars>>

-----------------------------------------------------------------------------
(***************************************************************************)
(* Derivation, at the end of process_one and in process_recompute          *)
(***************************************************************************)

\* reprocess_subject commits: it reads all evidence of the subject and closes
\* the window in the same transaction.
Derive(w) ==
    LET s == target[w]
    IN  /\ phase[w] \in {"deriving", "recomputing"}
        /\ derived' = [derived EXCEPT ![s] = Observed(s)]
        /\ window' = Closed(s)
        /\ Moves(w, IF phase[w] = "deriving" THEN "selecting" ELSE "idle")
        /\ target' = [target EXCEPT ![w] = None]
        /\ KeepsClaim
        /\ UNCHANGED <<timeVars, jobVars, effects, stamp>>

\* process_one swallows a failed reprocess_subject.
DeriveFails(w) ==
    /\ phase[w] = "deriving"
    /\ Faulty
    /\ Moves(w, "selecting")
    /\ target' = [target EXCEPT ![w] = None]
    /\ KeepsClaim
    /\ UNCHANGED <<clock, jobVars, dataVars, stamp>>

\* process_recompute selects a pending window, outside any transaction.  The
\* order (start_ms) depends on the data and is left open.
SelectWindow(w) ==
    /\ phase[w] = "selecting"
    /\ \E s \in Subjects :
        /\ window[s] = "pending"
        /\ target' = [target EXCEPT ![w] = s]
    /\ Moves(w, "recomputing")
    /\ KeepsClaim
    /\ UNCHANGED <<timeVars, jobVars, dataVars, stamp>>

SelectNothing(w) ==
    /\ phase[w] = "selecting"
    /\ \A s \in Subjects : window[s] # "pending"
    /\ Moves(w, "idle")
    /\ KeepsClaim
    /\ UNCHANGED <<timeVars, jobVars, dataVars, stamp, target>>

-----------------------------------------------------------------------------
(***************************************************************************)
(* Process failure                                                         *)
(***************************************************************************)

\* A kill, or an exception of a step that serve does not protect: the open
\* transaction, if any, is rolled back by SQLite.
Crash(w) ==
    /\ phase[w] # "down"
    /\ Faulty
    /\ Exits(w)
    /\ UNCHANGED <<clock, jobVars, dataVars>>

\* systemd: Restart=on-failure.
Restart(w) ==
    /\ phase[w] = "down"
    /\ Moves(w, "idle")
    /\ KeepsClaim
    /\ UNCHANGED <<timeVars, jobVars, dataVars, stamp, target>>

-----------------------------------------------------------------------------
\* What a live instance does by itself.
Step(w) ==
    \/ ReadClock(w) \/ ClaimNothing(w) \/ ClaimNext(w)
    \/ NormalizeLeaseLost(w) \/ NormalizeRejects(w) \/ NormalizeRaises(w)
    \/ NormalizeCommits(w)
    \/ FailClaimed(w) \/ FailLeaseLost(w)
    \/ Derive(w) \/ SelectWindow(w) \/ SelectNothing(w)
    \/ Restart(w)

\* What the machine does to it.
Fault(w) == NormalizeDatabaseError(w) \/ DeriveFails(w) \/ Crash(w)

Next ==
    \/ Tick
    \/ \E j \in Jobs : Enqueue(j)
    \/ \E w \in Workers : Step(w) \/ Fault(w)

Spec == Init /\ [][Next]_vars

(***************************************************************************)
(* Fairness: time passes, the serve loop goes on, and systemd restarts it. *)
(* Nothing is assumed of the phone that sends the events nor of faults.    *)
(***************************************************************************)
FairSpec ==
    /\ Spec
    /\ WF_vars(Tick)
    /\ \A w \in Workers : WF_vars(Step(w))

-----------------------------------------------------------------------------
(***************************************************************************)
(* Properties                                                              *)
(***************************************************************************)

\* Every variable has its type, a job has an owner and an expiry exactly while
\* it is being processed (the CHECK of processing_jobs), and a worker has a
\* claim or a subject in memory exactly in the phases that use one.
TypeOK ==
    /\ clock \in 0..MaxClock
    /\ faults \in 0..MaxFaults
    /\ state \in [Jobs -> JobStates]
    /\ attempts \in [Jobs -> Nat]
    /\ nextAttempt \in [Jobs -> 0..MaxClock]
    /\ leaseOwner \in [Jobs -> Owners \cup {None}]
    /\ leaseExpires \in [Jobs -> 0..MaxClock \cup {None}]
    /\ holder \in [Jobs -> Workers \cup {None}]
    /\ effects \in [Jobs -> Nat]
    /\ window \in [Subjects -> WindowStates]
    /\ derived \in [Subjects -> SUBSET Jobs]
    /\ phase \in [Workers -> Phases]
    /\ stamp \in [Workers -> 0..MaxClock]
    /\ claimed \in [Workers -> Jobs \cup {None}]
    /\ claimedAttempts \in [Workers -> Nat]
    /\ target \in [Workers -> Subjects \cup {None}]
    /\ \A w \in Workers : stamp[w] <= clock
    /\ \A j \in Jobs : /\ (state[j] = "processing") <=> (leaseOwner[j] # None)
                       /\ (state[j] = "processing") <=> (leaseExpires[j] # None)
    /\ \A w \in Workers :
        /\ (phase[w] \in {"claimed", "permanent", "transient"}) <=> (claimed[w] # None)
        /\ (phase[w] \in {"deriving", "recomputing"}) <=> (target[w] # None)

\* The canonical effects of a job are committed once if it is processed and
\* never otherwise, whatever crashes, expired leases, retries and namesakes
\* intervene: a waypoint never registers a second version of its place.
ExactlyOnce ==
    \A j \in Jobs : effects[j] = IF state[j] = "processed" THEN 1 ELSE 0

\* An observation that the subject's derived state does not reflect is covered
\* by a pending recompute window, so a derivation that failed, was killed or
\* ran before the observation arrived is repeated.
EvidenceCovered ==
    \A s \in Subjects : derived[s] # Observed(s) => window[s] = "pending"

\* While a lease runs, the job is given to nobody else (claim_next), although a
\* claim goes by a clock reading from before it had the write lock.  Who may end the
\* job is another matter: an instance that overslept its own lease bears the name
\* that is on its successor's, and may.
LeaseExcludes ==
    [][\A j \in Jobs :
          state[j] = "processing" /\ clock < leaseExpires[j] => holder'[j] = holder[j]]_vars

\* Every behaviour of the queue is, job by job, one of the ledger: accepted,
\* then written once or dead-lettered, and never reopened.
Ledger == INSTANCE EffectLedger WITH
    fate <- [j \in Jobs |->
                IF state[j] = "absent" THEN "unknown"
                ELSE IF state[j] = "processed" THEN "done"
                ELSE IF state[j] = "failed" THEN "dead"
                ELSE "open"],
    written <- effects

ImplementsLedger == Ledger!LedgerSpec

\* An accepted job is finished one way or the other, although the instance is
\* killed and the database fails now and then.
JobsSettle ==
    \A j \in Jobs : state[j] = "pending" ~> state[j] \in {"processed", "failed"}

\* Derived state catches up with the evidence after every failure.
DerivationCatchesUp ==
    \A s \in Subjects : derived[s] # Observed(s) ~> derived[s] = Observed(s)

-----------------------------------------------------------------------------
(***************************************************************************)
(* Statements of the documentation that the code does not meet             *)
(***************************************************************************)

\* HERMODR_PRD.md PRC-015: "move persistent failures to a reviewable
\* dead-letter state".  A waypoint that register_place refuses ends the
\* process instead, at every attempt; the budget is compared in fail_claimed
\* only, so the reclaimed job is tried again.
PersistentFailuresAreDeadLettered ==
    \A j \in Jobs : (Kind[j] = "poison" /\ state[j] = "pending") ~> state[j] = "failed"
=============================================================================
