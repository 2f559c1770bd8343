---------------------------- MODULE Commissioning ----------------------------
(***************************************************************************)
(* The registry of devices and credentials that operators change with      *)
(* audited commands (src/hermodr/commissioning.py, audit.py, cli.py) while *)
(* the receiver authenticates requests against it (receiver.py,            *)
(* repository.py).                                                         *)
(*                                                                         *)
(* A command is a process of its own: it reads the clock, waits for the    *)
(* write lock, and then checks and changes the registry and appends its    *)
(* audit entry in one transaction.  A bare annotation (audit-change) reads *)
(* the last hash and inserts its entry without a common transaction.  The  *)
(* option --now-ms, which replaces the clock, is not used, and the clock   *)
(* of the host never steps back.  Subjects exist and stay active, since no *)
(* command changes them.                                                   *)
(***************************************************************************)
EXTENDS Naturals, FiniteSets

CONSTANTS
    Devices,      \* device identifiers an operator may enrol
    Keys,         \* key identifiers of credentials
    Subjects,     \* the people the devices belong to
    Operators,    \* concurrent administrative commands
    Requests,     \* handler threads of the receiver
    None,         \* SQL NULL, no row, no command
    SubjectOf,    \* SubjectOf[d]: the subject device d is enrolled for
    MaxClock,     \* bound: the last modelled moment
    MaxLost       \* bound: secret files that are lost

Times == 0..MaxClock
Registrations == [status : {"absent", "active", "disabled"}, since : Times]
Credentials == [device : Devices, from : Times, until : Nat \cup {None}]
Targets == Devices \cup Keys
Operations == {"enroll", "disable", "stage", "revoke", "annotate"}
Commands == [operation : Operations, target : Targets \cup {None}, read : Times,
             current : BOOLEAN]
Arrivals == [key : Keys, at : Times, late : BOOLEAN, passed : BOOLEAN]

ASSUME CommissioningAssumption ==
    /\ None \notin Nat \cup Devices \cup Keys
    /\ None \notin Commands \cup Credentials \cup Arrivals
    /\ Devices \cap Keys = {}
    /\ SubjectOf \in [Devices -> Subjects]
    /\ MaxClock \in Nat /\ MaxLost \in Nat

VARIABLES
    clock,        \* wall-clock time
    device,       \* devices: status and enrolled_at_ms
    credential,   \* credentials: device, valid_from_ms and valid_until_ms, or None
    secrets,      \* the keys whose protected secret file can be read
    entries,      \* audit_events: how many entries of commands, which name their
                  \* subject as annotations do not, are about each target
    chained,      \* audit_events: every entry names the hash of the one before
    command,      \* what each operator's command has read so far, or None
    request,      \* what each handler thread has read so far, or None
    revoked       \* history: the keys whose revocation has been committed

trailVars == <<entries, chained>>
registryVars == <<device, credential, trailVars, revoked>>
vars == <<clock, registryVars, secrets, command, request>>

Init ==
    /\ clock = 0
    /\ device = [d \in Devices |-> [status |-> "absent", since |-> 0]]
    /\ credential = [k \in Keys |-> None]
    /\ secrets = Keys
    /\ entries = [x \in Targets |-> 0]
    /\ chained = TRUE
    /\ command = [o \in Operators |-> None]
    /\ request = [r \in Requests |-> None]
    /\ revoked = {}

-----------------------------------------------------------------------------
(***************************************************************************)
(* What is usable, and what a command may do                               *)
(***************************************************************************)

\* valid_until_ms has been reached at time t.
EndedBy(k, t) == credential[k].until # None /\ credential[k].until <= t

\* Mutant: a credential is still valid at valid_until_ms.
UsableInclusive(k, t) ==
    /\ credential[k] # None
    /\ credential[k].from <= t
    /\ ~(credential[k].until # None /\ credential[k].until < t)
    /\ device[credential[k].device].status = "active"

\* The condition of credential and usable_credentials.
UsableAt(k, t) ==
    /\ credential[k] # None
    /\ credential[k].from <= t
    /\ ~EndedBy(k, t)
    /\ device[credential[k].device].status = "active"

SubjectOfKey(k) == SubjectOf[credential[k].device]

\* Mutant: a device that exists is enrolled again.
EnrollsAgain(d) == TRUE

\* enroll_device inserts: an identifier is used once.
CanEnroll(d) == device[d].status = "absent"

\* Mutant: a disabled device is disabled again.
DisablesAgain(d, t) ==
    device[d].status # "absent" /\ \A k \in Keys : UsableAt(k, t) => credential[k].device # d

\* disable_device at time t: no credential of the device is usable then.
CanDisable(d, t) ==
    /\ device[d].status = "active"
    /\ t >= device[d].since
    /\ \A k \in Keys : UsableAt(k, t) => credential[k].device # d

\* stage_credential: key identifiers are used once, on an active device.
CanStage(k, d) == credential[k] = None /\ device[d].status = "active"

\* The replacement that revoke_credential looks for at time t: another usable
\* and protected credential of the same subject.
Replaceable(k, t) ==
    \E other \in secrets \ {k} :
        UsableAt(other, t) /\ SubjectOfKey(other) = SubjectOfKey(k)

\* Mutant: a credential is revoked before it starts.
RevokesEarly(k, t) ==
    /\ credential[k] # None
    /\ ~EndedBy(k, t)
    /\ Replaceable(k, t)

\* revoke_credential at time t.
CanRevoke(k, t) ==
    /\ credential[k] # None
    /\ ~EndedBy(k, t)
    /\ t > credential[k].from
    /\ Replaceable(k, t)

-----------------------------------------------------------------------------
(***************************************************************************)
(* Commands                                                                *)
(***************************************************************************)

\* An entry is appended: the one that a pending annotation has read is not the
\* last any more.  The command of operator o ends.
Appends(o) ==
    command' = [p \in Operators |->
                   IF p = o \/ command[p] = None THEN None
                   ELSE [command[p] EXCEPT !.current = command[p].operation # "annotate"]]

\* record_change with commit=False, in the write transaction of its caller.
Audits(o, x) ==
    /\ entries' = [entries EXCEPT ![x] = @ + 1]
    /\ Appends(o)
    /\ UNCHANGED chained

Starts(o, operation, x, read) ==
    /\ command[o] = None
    /\ command' = [command EXCEPT ![o] = [operation |-> operation, target |-> x,
                                          read |-> read, current |-> TRUE]]
    /\ UNCHANGED <<clock, registryVars, secrets, request>>

\* A device command reads the clock.
StartDeviceCommand(o) ==
    \E operation \in {"enroll", "disable"}, d \in Devices : Starts(o, operation, d, clock)

\* A credential command reads the clock; staging also reads the secret, before
\* it has the write lock.
StartCredentialCommand(o) ==
    \E operation \in {"stage", "revoke"}, k \in Keys :
        /\ operation = "stage" => k \in secrets
        /\ Starts(o, operation, k, clock)

\* audit-change: record_change reads the hash of the last entry.
StartAnnotation(o) == Starts(o, "annotate", None, 0)

\* The command of operator o commits under the given operation.
Commits(o, operation) ==
    /\ command[o] # None
    /\ command[o].operation = operation
    /\ UNCHANGED <<clock, secrets, request>>

EnrollDevice(o) ==
    LET d == command[o].target
    IN  /\ Commits(o, "enroll")
        /\ CanEnroll(d)
        /\ device' = [device EXCEPT ![d] = [status |-> "active", since |-> command[o].read]]
        /\ Audits(o, d)
        /\ UNCHANGED <<credential, revoked>>

DisableDevice(o) ==
    LET d == command[o].target
    IN  /\ Commits(o, "disable")
        /\ CanDisable(d, command[o].read)
        /\ device' = [device EXCEPT ![d].status = "disabled"]
        /\ Audits(o, d)
        /\ UNCHANGED <<credential, revoked>>

\* valid_from_ms is the time the command read unless the operator gives another
\* one, with or without an end.
StageCredential(o) ==
    LET k == command[o].target
    IN  /\ Commits(o, "stage")
        /\ \E d \in Devices, from \in Times : \E until \in {None} \cup (from + 1)..MaxClock :
            /\ CanStage(k, d)
            /\ credential' = [credential EXCEPT ![k] =
                                 [device |-> d, from |-> from, until |-> until]]
        /\ Audits(o, k)
        /\ UNCHANGED <<device, revoked>>

RevokeCredential(o) ==
    LET k == command[o].target
    IN  /\ Commits(o, "revoke")
        /\ CanRevoke(k, command[o].read)
        /\ credential' = [credential EXCEPT ![k].until = command[o].read]
        /\ revoked' = revoked \cup {k}
        /\ Audits(o, k)
        /\ UNCHANGED device

\* The INSERT of an annotation, with the hash that was the last when it was read.
Annotate(o) ==
    /\ Commits(o, "annotate")
    /\ Appends(o)
    /\ chained' = (chained /\ command[o].current)
    /\ UNCHANGED <<device, credential, entries, revoked>>

\* The command is refused, has nothing to do, fails or is killed: its
\* transaction is rolled back.
GiveUp(o) ==
    /\ command[o] # None
    /\ command' = [command EXCEPT ![o] = None]
    /\ UNCHANGED <<clock, registryVars, secrets, request>>

-----------------------------------------------------------------------------
(***************************************************************************)
(* Requests and the environment                                            *)
(***************************************************************************)

\* The key was revoked, or its device disabled, by a committed command.
Withdrawn(k) ==
    /\ credential[k] # None
    /\ k \in revoked \/ device[credential[k].device].status = "disabled"

\* ingest reads its clock; late notes what had been committed by then.
Arrive(r, k) ==
    /\ request[r] = None
    /\ request' = [request EXCEPT ![r] =
                      [key |-> k, at |-> clock, late |-> Withdrawn(k), passed |-> FALSE]]
    /\ UNCHANGED <<clock, registryVars, secrets, command>>

\* authenticate succeeds: the credential was usable when the clock was read and
\* its secret can be read.
Authenticate(r) ==
    /\ request[r] # None
    /\ ~request[r].passed
    /\ UsableAt(request[r].key, request[r].at)
    /\ request[r].key \in secrets
    /\ request' = [request EXCEPT ![r].passed = TRUE]
    /\ UNCHANGED <<clock, registryVars, secrets, command>>

\* The response is sent: 401 if authenticate found nothing.
Respond(r) ==
    /\ request[r] # None
    /\ request[r].passed \/ ~UsableAt(request[r].key, request[r].at)
                         \/ request[r].key \notin secrets
    /\ request' = [request EXCEPT ![r] = None]
    /\ UNCHANGED <<clock, registryVars, secrets, command>>

\* The secret file of a credential is deleted, or loses its protection.
LoseSecret(k) ==
    /\ k \in secrets
    /\ Cardinality(Keys \ secrets) < MaxLost
    /\ secrets' = secrets \ {k}
    /\ UNCHANGED <<clock, registryVars, command, request>>

Tick ==
    /\ clock < MaxClock
    /\ clock' = clock + 1
    /\ UNCHANGED <<registryVars, secrets, command, request>>

-----------------------------------------------------------------------------
Administer(o) ==
    \/ StartDeviceCommand(o) \/ StartCredentialCommand(o) \/ StartAnnotation(o)
    \/ EnrollDevice(o) \/ DisableDevice(o) \/ StageCredential(o) \/ RevokeCredential(o)
    \/ Annotate(o) \/ GiveUp(o)

Serve(r) == Authenticate(r) \/ Respond(r) \/ \E k \in Keys : Arrive(r, k)

Next ==
    \/ Tick
    \/ \E o \in Operators : Administer(o)
    \/ \E r \in Requests : Serve(r)
    \/ \E k \in Keys : LoseSecret(k)

Spec == Init /\ [][Next]_vars

-----------------------------------------------------------------------------
(***************************************************************************)
(* Properties                                                              *)
(***************************************************************************)

\* Every variable has its type; a credential ends after it starts, as the
\* CHECK of its table says.
TypeOK ==
    /\ clock \in Times
    /\ device \in [Devices -> Registrations]
    /\ credential \in [Keys -> Credentials \cup {None}]
    /\ \A k \in Keys : credential[k] # None =>
          credential[k].until = None \/ credential[k].until > credential[k].from
    /\ secrets \subseteq Keys
    /\ entries \in [Targets -> Nat]
    /\ chained \in BOOLEAN
    /\ command \in [Operators -> Commands \cup {None}]
    /\ request \in [Requests -> Arrivals \cup {None}]
    /\ revoked \subseteq Keys

\* A request that arrives after a revocation or a disabling has been committed
\* is refused, although commands use a clock they read before they had the
\* write lock and requests one they read before the lookup.
WithdrawnRefused ==
    \A r \in Requests : request[r] # None /\ request[r].late => ~request[r].passed

\* The credential does not work any more.
Ended(k) ==
    /\ credential[k] # None
    /\ EndedBy(k, clock) \/ device[credential[k].device].status = "disabled"

\* A credential that has ended never works again: no order of staging,
\* revoking, enrolling and disabling by several operators revives it.
EndIsFinal == [][\A k \in Keys : Ended(k) => Ended(k)']_vars

\* The audit trail tells the registry's story: from its entries follows which
\* devices are enrolled or disabled and which credentials are staged or revoked,
\* whatever commands were refused, repeated or interrupted.
TrailTellsRegistry ==
    LET rank == [absent |-> 0, active |-> 1, disabled |-> 2]
    IN  /\ \A d \in Devices : entries[d] = rank[device[d].status]
        /\ \A k \in Keys : entries[k] = 0 <=> credential[k] = None
        /\ \A k \in Keys : entries[k] > 1 <=> k \in revoked

-----------------------------------------------------------------------------
(***************************************************************************)
(* Statements of the code and its documentation that do not hold           *)
(***************************************************************************)

\* verify_chain: every entry names the hash of the entry before it.  An
\* annotation names the one that was the last before its INSERT began.
ChainVerifies == chained
=============================================================================
