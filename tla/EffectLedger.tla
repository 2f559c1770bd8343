---------------------------- MODULE EffectLedger ----------------------------
(***************************************************************************)
(* What the ingest and processing pipeline promises for one accepted       *)
(* event, with no workers, leases, clocks or retries: the event is open    *)
(* from the moment it is durable, and it is then either completed, which   *)
(* writes its canonical effects exactly once, or dead-lettered with no     *)
(* effect at all.  Neither end is ever left again.                         *)
(***************************************************************************)
EXTENDS Naturals

CONSTANT Jobs  \* the events that may be accepted

VARIABLES
    fate,      \* fate[j]: where event j stands
    written    \* written[j]: how often the canonical effects of j were written

ledgerVars == <<fate, written>>

Fates == {"unknown", "open", "done", "dead"}

LedgerInit ==
    /\ fate = [j \in Jobs |-> "unknown"]
    /\ written = [j \in Jobs |-> 0]

Accept(j) ==
    /\ fate[j] = "unknown"
    /\ fate' = [fate EXCEPT ![j] = "open"]
    /\ UNCHANGED written

Complete(j) ==
    /\ fate[j] = "open"
    /\ fate' = [fate EXCEPT ![j] = "done"]
    /\ written' = [written EXCEPT ![j] = 1]

DeadLetter(j) ==
    /\ fate[j] = "open"
    /\ fate' = [fate EXCEPT ![j] = "dead"]
    /\ UNCHANGED written

LedgerNext == \E j \in Jobs : Accept(j) \/ Complete(j) \/ DeadLetter(j)

LedgerSpec == LedgerInit /\ [][LedgerNext]_ledgerVars
=============================================================================
