---------------------------- MODULE DurableInbox ----------------------------
(***************************************************************************)
(* What the receiver promises the phone, with no threads, processes or     *)
(* network: an event is stored under one disposition that never changes,   *)
(* and the phone is told so, at any time, only after that.                 *)
(***************************************************************************)
CONSTANT Events  \* what the phone may report

VARIABLES
    stored,      \* stored[e]: the dispositions under which e is on disk
    told         \* the events whose storage has been acknowledged

inboxVars == <<stored, told>>

InboxInit ==
    /\ stored = [e \in Events |-> {}]
    /\ told = {}

Store(e) ==
    /\ stored[e] = {}
    /\ \E disposition \in {"accepted", "quarantined"} :
          stored' = [stored EXCEPT ![e] = {disposition}]
    /\ UNCHANGED told

Tell(e) ==
    /\ stored[e] # {}
    /\ told' = told \cup {e}
    /\ UNCHANGED stored

InboxNext == \E e \in Events : Store(e) \/ Tell(e)

InboxSpec == InboxInit /\ [][InboxNext]_inboxVars
=============================================================================
