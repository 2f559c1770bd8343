------------------------- MODULE CommissioningProofs -------------------------
(***************************************************************************)
(* Proofs about Commissioning.  The inductive invariant says that whatever *)
(* commands and requests have read of the clock lies in the past, that a   *)
(* revoked credential has an end in the past, and that a request which     *)
(* arrived after a withdrawal carries a credential that was no longer      *)
(* usable at the moment it read.                                           *)
(***************************************************************************)
EXTENDS Commissioning, TLAPS

\* A command of each operation has a target of its sort.
TargetsFit ==
    \A o \in Operators : command[o] # None =>
        /\ command[o].operation \in {"enroll", "disable"} => command[o].target \in Devices
        /\ command[o].operation \in {"stage", "revoke"} => command[o].target \in Keys

\* No process is ahead of the clock.
ReadsPast ==
    /\ \A o \in Operators : command[o] # None => command[o].read <= clock
    /\ \A r \in Requests : request[r] # None => request[r].at <= clock

\* A committed revocation has taken effect.
RevokedHasEnded ==
    \A k \in revoked : credential[k] # None /\ EndedBy(k, clock)

\* A late request can find nothing usable.
LateIsHopeless ==
    \A r \in Requests : request[r] # None /\ request[r].late =>
        LET k == request[r].key
        IN  /\ credential[k] # None
            /\ EndedBy(k, request[r].at) \/ device[credential[k].device].status = "disabled"

CommissioningInv ==
    /\ TypeOK
    /\ TargetsFit
    /\ ReadsPast
    /\ RevokedHasEnded
    /\ LateIsHopeless
    /\ WithdrawnRefused
    /\ TrailTellsRegistry

-----------------------------------------------------------------------------
\* The registry starts empty.
LEMMA InitialState == Init => CommissioningInv
<1> SUFFICES ASSUME Init PROVE CommissioningInv
  OBVIOUS
<1>1. TypeOK
  BY CommissioningAssumption DEF CommissioningAssumption, Init, TypeOK, Times, Registrations
<1>2. TargetsFit /\ ReadsPast /\ RevokedHasEnded /\ LateIsHopeless /\ WithdrawnRefused
  BY DEF Init, TargetsFit, ReadsPast, RevokedHasEnded, LateIsHopeless, WithdrawnRefused
<1>3. TrailTellsRegistry
  BY DEF Init, TrailTellsRegistry, Targets
<1> QED
  BY <1>1, <1>2, <1>3 DEF CommissioningInv

\* An appended entry lets every other command keep what it is for and has read.
LEMMA AppendKeepsCommands ==
    ASSUME CommissioningInv, NEW o \in Operators, Appends(o)
    PROVE  /\ command' \in [Operators -> Commands \cup {None}]
           /\ TargetsFit'
           /\ \A p \in Operators : command'[p] # None => command'[p].read <= clock
<1>1. \A p \in Operators : command[p] \in Commands \cup {None}
  BY DEF CommissioningInv, TypeOK
<1> DEFINE stale(p) == [command[p] EXCEPT !.current = command[p].operation # "annotate"]
<1>2. \A p \in Operators : command[p] # None =>
        /\ stale(p) \in Commands
        /\ stale(p).operation = command[p].operation
        /\ stale(p).target = command[p].target
        /\ stale(p).read = command[p].read
  <2> SUFFICES ASSUME NEW p \in Operators, command[p] # None
               PROVE  /\ stale(p) \in Commands
                      /\ stale(p).operation = command[p].operation
                      /\ stale(p).target = command[p].target
                      /\ stale(p).read = command[p].read
    OBVIOUS
  <2> DEFINE b == command[p].operation # "annotate"
  <2>1. b \in BOOLEAN
    OBVIOUS
  <2> HIDE DEF b
  <2>2. [command[p] EXCEPT !.current = b] \in Commands
    BY <2>1, <1>1 DEF Commands
  <2>3. stale(p) = [command[p] EXCEPT !.current = b]
    BY DEF b
  <2>4. /\ [command[p] EXCEPT !.current = b].operation = command[p].operation
        /\ [command[p] EXCEPT !.current = b].target = command[p].target
        /\ [command[p] EXCEPT !.current = b].read = command[p].read
    BY <1>1 DEF Commands
  <2> QED
    BY <2>2, <2>3, <2>4
<1>3. command' = [p \in Operators |-> IF p = o \/ command[p] = None THEN None ELSE stale(p)]
  BY DEF Appends
<1> HIDE DEF stale
<1> QED
  BY <1>1, <1>2, <1>3, CommissioningAssumption
     DEF CommissioningAssumption, CommissioningInv, TargetsFit, ReadsPast

\* A step that leaves the registry, the requests and the clock alone and lets
\* every command be what it was, or start in the present, or end.
LEMMA CommandStep ==
    ASSUME CommissioningInv, NEW o \in Operators,
           StartDeviceCommand(o) \/ StartCredentialCommand(o) \/ StartAnnotation(o)
              \/ GiveUp(o) \/ Annotate(o)
    PROVE  CommissioningInv'
<1>1. TypeOK /\ clock \in Nat /\ 0 \in Times /\ clock \in Times
  BY CommissioningAssumption DEF CommissioningAssumption, CommissioningInv, TypeOK, Times
<1>2. UNCHANGED <<clock, device, credential, secrets, entries, request, revoked>>
  BY DEF StartDeviceCommand, StartCredentialCommand, StartAnnotation, Starts, GiveUp,
     Annotate, Commits, registryVars, trailVars
<1>3. chained' \in BOOLEAN
  BY <1>1 DEF StartDeviceCommand, StartCredentialCommand, StartAnnotation, Starts, GiveUp,
     Annotate, Commits, registryVars, trailVars, TypeOK, Commands
<1>4. /\ command' \in [Operators -> Commands \cup {None}]
      /\ TargetsFit'
      /\ \A p \in Operators : command'[p] # None => command'[p].read <= clock
  <2>1. CASE StartDeviceCommand(o) \/ StartCredentialCommand(o) \/ StartAnnotation(o)
    <3>1. PICK operation \in Operations, x \in Targets \cup {None}, read \in {0, clock} :
            /\ Starts(o, operation, x, read)
            /\ operation \in {"enroll", "disable"} => x \in Devices
            /\ operation \in {"stage", "revoke"} => x \in Keys
      <4>1. CASE StartDeviceCommand(o)
        <5>1. PICK operation \in {"enroll", "disable"}, d \in Devices :
                Starts(o, operation, d, clock)
          BY <4>1 DEF StartDeviceCommand
        <5> QED
          BY <5>1 DEF Operations, Targets
      <4>2. CASE StartCredentialCommand(o)
        <5>1. PICK operation \in {"stage", "revoke"}, k \in Keys : Starts(o, operation, k, clock)
          BY <4>2 DEF StartCredentialCommand
        <5> QED
          BY <5>1 DEF Operations, Targets
      <4>3. CASE StartAnnotation(o)
        BY <4>3 DEF StartAnnotation, Operations
      <4> QED
        BY <2>1, <4>1, <4>2, <4>3
    <3> DEFINE started == [operation |-> operation, target |-> x, read |-> read, current |-> TRUE]
    <3>2. command' = [command EXCEPT ![o] = started] /\ started \in Commands
      BY <3>1, <1>1 DEF Starts, Commands
    <3>3. started.read <= clock /\ started.operation = operation /\ started.target = x
      BY <3>1, <1>1
    <3> HIDE DEF started
    <3> QED
      BY <3>1, <3>2, <3>3, <1>1 DEF TypeOK, TargetsFit, ReadsPast, CommissioningInv
  <2>2. CASE GiveUp(o)
    BY <2>2, <1>1 DEF GiveUp, TypeOK, TargetsFit, ReadsPast, CommissioningInv
  <2>3. CASE Annotate(o)
    BY <2>3, AppendKeepsCommands DEF Annotate
  <2> QED
    BY <2>1, <2>2, <2>3
<1> QED
  BY <1>1, <1>2, <1>3, <1>4 DEF CommissioningInv, TypeOK, ReadsPast, RevokedHasEnded, EndedBy,
     LateIsHopeless, WithdrawnRefused, TrailTellsRegistry

\* What an audited command does besides changing the registry.
LEMMA AuditStep ==
    ASSUME CommissioningInv, NEW o \in Operators, NEW x \in Targets,
           NEW operation \in Operations, Commits(o, operation), Audits(o, x)
    PROVE  /\ UNCHANGED <<clock, secrets, chained, request>>
           /\ command' \in [Operators -> Commands \cup {None}]
           /\ TargetsFit' /\ ReadsPast' /\ WithdrawnRefused'
           /\ entries' \in [Targets -> Nat]
           /\ entries'[x] = entries[x] + 1
           /\ \A y \in Targets : y # x => entries'[y] = entries[y]
<1>1. UNCHANGED <<clock, secrets, chained, request>> /\ Appends(o)
  BY DEF Commits, Audits
<1>2. /\ command' \in [Operators -> Commands \cup {None}]
      /\ TargetsFit'
      /\ \A p \in Operators : command'[p] # None => command'[p].read <= clock
  BY <1>1, AppendKeepsCommands
<1>3. ReadsPast' /\ WithdrawnRefused'
  BY <1>1, <1>2 DEF CommissioningInv, ReadsPast, WithdrawnRefused
<1>4. entries \in [Targets -> Nat] /\ entries' = [entries EXCEPT ![x] = @ + 1]
  BY DEF CommissioningInv, TypeOK, Audits
<1> QED
  BY <1>1, <1>2, <1>3, <1>4

\* Enrolling touches no device that credentials or requests refer to as disabled.
LEMMA EnrollStep ==
    ASSUME CommissioningInv, NEW o \in Operators, EnrollDevice(o)
    PROVE  CommissioningInv'
<1> DEFINE d == command[o].target
<1>1. /\ command[o] # None /\ command[o] \in Commands
      /\ d \in Devices /\ d \in Targets /\ d \notin Keys
      /\ Commits(o, "enroll") /\ Audits(o, d) /\ CanEnroll(d)
  BY CommissioningAssumption
     DEF CommissioningAssumption, CommissioningInv, TypeOK, TargetsFit, EnrollDevice, Commits, Targets
<1>2. /\ UNCHANGED <<clock, secrets, chained, request, credential, revoked>>
      /\ command' \in [Operators -> Commands \cup {None}]
      /\ TargetsFit' /\ ReadsPast' /\ WithdrawnRefused'
      /\ entries' \in [Targets -> Nat]
      /\ entries'[d] = entries[d] + 1
      /\ \A y \in Targets : y # d => entries'[y] = entries[y]
  BY <1>1, AuditStep DEF EnrollDevice, Operations
<1>3. /\ device' \in [Devices -> Registrations]
      /\ device[d].status = "absent" /\ device'[d].status = "active"
      /\ \A e \in Devices : e # d => device'[e] = device[e]
  <2>1. [status |-> "active", since |-> command[o].read] \in Registrations
    BY <1>1 DEF Commands, Registrations
  <2>2. device' = [device EXCEPT ![d] = [status |-> "active", since |-> command[o].read]]
    BY DEF EnrollDevice
  <2> QED
    BY <1>1, <2>1, <2>2 DEF CommissioningInv, TypeOK, CanEnroll
<1> HIDE DEF d
<1>4. TypeOK'
  BY <1>2, <1>3 DEF CommissioningInv, TypeOK
<1>5. RevokedHasEnded'
  BY <1>2 DEF CommissioningInv, RevokedHasEnded, EndedBy
<1>6. LateIsHopeless'
  BY <1>1, <1>2, <1>3 DEF CommissioningInv, TypeOK, LateIsHopeless, EndedBy, Arrivals, Credentials
<1>7. TrailTellsRegistry'
  BY <1>1, <1>2, <1>3 DEF CommissioningInv, TrailTellsRegistry, Targets
<1> QED
  BY <1>2, <1>4, <1>5, <1>6, <1>7 DEF CommissioningInv

\* Disabling only adds a reason to refuse.
LEMMA DisableStep ==
    ASSUME CommissioningInv, NEW o \in Operators, DisableDevice(o)
    PROVE  CommissioningInv'
<1> DEFINE d == command[o].target
<1>1. /\ command[o] # None /\ command[o] \in Commands
      /\ d \in Devices /\ d \in Targets /\ d \notin Keys
      /\ Commits(o, "disable") /\ Audits(o, d) /\ CanDisable(d, command[o].read)
  BY CommissioningAssumption
     DEF CommissioningAssumption, CommissioningInv, TypeOK, TargetsFit, DisableDevice, Commits, Targets
<1>2. /\ UNCHANGED <<clock, secrets, chained, request, credential, revoked>>
      /\ command' \in [Operators -> Commands \cup {None}]
      /\ TargetsFit' /\ ReadsPast' /\ WithdrawnRefused'
      /\ entries' \in [Targets -> Nat]
      /\ entries'[d] = entries[d] + 1
      /\ \A y \in Targets : y # d => entries'[y] = entries[y]
  BY <1>1, AuditStep DEF DisableDevice, Operations
<1>3. /\ device' \in [Devices -> Registrations]
      /\ device[d].status = "active" /\ device'[d].status = "disabled"
      /\ \A e \in Devices : e # d => device'[e] = device[e]
  <2>1. device' = [device EXCEPT ![d].status = "disabled"] /\ device \in [Devices -> Registrations]
    BY DEF DisableDevice, CommissioningInv, TypeOK
  <2> QED
    BY <1>1, <2>1 DEF CanDisable, Registrations
<1> HIDE DEF d
<1>4. TypeOK'
  BY <1>2, <1>3 DEF CommissioningInv, TypeOK
<1>5. RevokedHasEnded'
  BY <1>2 DEF CommissioningInv, RevokedHasEnded, EndedBy
<1>6. LateIsHopeless'
  BY <1>1, <1>2, <1>3 DEF CommissioningInv, TypeOK, LateIsHopeless, EndedBy, Arrivals, Credentials
<1>7. TrailTellsRegistry'
  BY <1>1, <1>2, <1>3 DEF CommissioningInv, TrailTellsRegistry, Targets
<1> QED
  BY <1>2, <1>4, <1>5, <1>6, <1>7 DEF CommissioningInv

\* Staging uses a key that nothing refers to.
LEMMA StageStep ==
    ASSUME CommissioningInv, NEW o \in Operators, StageCredential(o)
    PROVE  CommissioningInv'
<1> DEFINE k == command[o].target
<1>1. /\ k \in Keys /\ k \in Targets /\ k \notin Devices
      /\ Commits(o, "stage") /\ Audits(o, k)
  BY CommissioningAssumption
     DEF CommissioningAssumption, CommissioningInv, TargetsFit, StageCredential, Commits, Targets
<1>2. /\ UNCHANGED <<clock, secrets, chained, request, device, revoked>>
      /\ command' \in [Operators -> Commands \cup {None}]
      /\ TargetsFit' /\ ReadsPast' /\ WithdrawnRefused'
      /\ entries' \in [Targets -> Nat]
      /\ entries'[k] = entries[k] + 1
      /\ \A y \in Targets : y # k => entries'[y] = entries[y]
  BY <1>1, AuditStep DEF StageCredential, Operations
<1>3. PICK d \in Devices, from \in Times : \E until \in {None} \cup (from + 1)..MaxClock :
        /\ CanStage(k, d)
        /\ credential' = [credential EXCEPT ![k] = [device |-> d, from |-> from, until |-> until]]
  BY DEF StageCredential
<1>4. PICK until \in {None} \cup (from + 1)..MaxClock :
        /\ CanStage(k, d)
        /\ credential' = [credential EXCEPT ![k] = [device |-> d, from |-> from, until |-> until]]
  BY <1>3
<1> HIDE DEF k
<1>5. /\ credential' \in [Keys -> Credentials \cup {None}]
      /\ credential[k] = None /\ credential'[k] # None
      /\ credential'[k].until = None \/ credential'[k].until > credential'[k].from
      /\ \A j \in Keys : j # k => credential'[j] = credential[j]
  <2> DEFINE staged == [device |-> d, from |-> from, until |-> until]
  <2>1. /\ staged \in Credentials /\ staged # None
        /\ staged.until = None \/ staged.until > staged.from
    BY CommissioningAssumption DEF CommissioningAssumption, Credentials, Times
  <2>2. credential' = [credential EXCEPT ![k] = staged]
    BY <1>4
  <2> HIDE DEF staged
  <2> QED
    BY <1>1, <1>4, <2>1, <2>2 DEF CanStage, CommissioningInv, TypeOK
<1>6. TypeOK'
  BY <1>2, <1>5 DEF CommissioningInv, TypeOK
<1>7. RevokedHasEnded'
  BY <1>2, <1>5 DEF CommissioningInv, TypeOK, RevokedHasEnded, EndedBy
<1>8. LateIsHopeless'
  BY <1>2, <1>5 DEF CommissioningInv, TypeOK, LateIsHopeless, EndedBy, Arrivals
<1>9. TrailTellsRegistry'
  BY <1>1, <1>2, <1>5 DEF CommissioningInv, RevokedHasEnded, TrailTellsRegistry, Targets
<1> QED
  BY <1>2, <1>6, <1>7, <1>8, <1>9 DEF CommissioningInv

\* A revocation ends the credential in the past and earlier than before.
LEMMA RevokeStep ==
    ASSUME CommissioningInv, NEW o \in Operators, RevokeCredential(o)
    PROVE  CommissioningInv'
<1> DEFINE k == command[o].target
           read == command[o].read
<1>1. /\ k \in Keys /\ k \in Targets /\ k \notin Devices
      /\ Commits(o, "revoke") /\ Audits(o, k) /\ CanRevoke(k, read)
      /\ read \in Nat /\ read # None /\ clock \in Nat /\ read <= clock
  BY CommissioningAssumption
     DEF CommissioningAssumption, CommissioningInv, TypeOK, TargetsFit, ReadsPast, RevokeCredential,
         Commits, Targets, Commands, Times
<1>2. /\ UNCHANGED <<clock, secrets, chained, request, device>>
      /\ command' \in [Operators -> Commands \cup {None}]
      /\ TargetsFit' /\ ReadsPast' /\ WithdrawnRefused'
      /\ entries' \in [Targets -> Nat]
      /\ entries'[k] = entries[k] + 1
      /\ \A y \in Targets : y # k => entries'[y] = entries[y]
  BY <1>1, AuditStep DEF RevokeCredential, Operations
<1>3. credential' = [credential EXCEPT ![k].until = read] /\ revoked' = revoked \cup {k}
  BY DEF RevokeCredential
<1> HIDE DEF k, read
<1>4. /\ credential[k] # None /\ credential[k] \in Credentials
      /\ read > credential[k].from
      /\ credential[k].until = None \/ read < credential[k].until
  BY <1>1, CommissioningAssumption
     DEF CommissioningAssumption, CanRevoke, EndedBy, CommissioningInv, TypeOK, Credentials
<1>5. /\ credential' \in [Keys -> Credentials \cup {None}]
      /\ credential'[k] # None /\ credential'[k].until = read
      /\ credential'[k].from = credential[k].from
      /\ credential'[k].device = credential[k].device
      /\ \A j \in Keys : j # k => credential'[j] = credential[j]
  <2> DEFINE ended == [credential[k] EXCEPT !.until = read]
  <2>1. /\ ended \in Credentials /\ ended # None /\ ended.until = read
        /\ ended.from = credential[k].from /\ ended.device = credential[k].device
    BY <1>1, <1>4, CommissioningAssumption DEF CommissioningAssumption, Credentials
  <2>2. credential' = [credential EXCEPT ![k] = ended]
    BY <1>3
  <2> HIDE DEF ended
  <2> QED
    BY <1>1, <2>1, <2>2 DEF CommissioningInv, TypeOK
<1>6. TypeOK'
  BY <1>1, <1>2, <1>3, <1>4, <1>5 DEF CommissioningInv, TypeOK
<1>7. RevokedHasEnded'
  BY <1>1, <1>2, <1>3, <1>5 DEF CommissioningInv, TypeOK, RevokedHasEnded, EndedBy
<1>8. LateIsHopeless'
  <2> SUFFICES ASSUME NEW r \in Requests, request[r] # None, request[r].late
               PROVE  LET c == credential'[request[r].key]
                      IN  /\ c # None
                          /\ \/ c.until # None /\ c.until <= request[r].at
                             \/ device[c.device].status = "disabled"
    BY <1>2 DEF LateIsHopeless, EndedBy
  <2> DEFINE j == request[r].key
  <2>1. /\ j \in Keys /\ request[r].at \in Nat
        /\ credential[j] # None /\ credential[j] \in Credentials
        /\ \/ EndedBy(j, request[r].at)
           \/ device[credential[j].device].status = "disabled"
    BY CommissioningAssumption
       DEF CommissioningAssumption, CommissioningInv, TypeOK, LateIsHopeless, Arrivals, Times
  <2>2. CASE j = k
    BY <1>1, <1>4, <1>5, <2>1, <2>2 DEF EndedBy, Credentials
  <2>3. CASE j # k
    BY <1>5, <2>1, <2>3 DEF EndedBy
  <2> QED
    BY <2>2, <2>3
<1>9. TrailTellsRegistry'
  BY <1>1, <1>2, <1>3, <1>4, <1>5
     DEF CommissioningInv, TypeOK, RevokedHasEnded, TrailTellsRegistry, Targets
<1> QED
  BY <1>2, <1>6, <1>7, <1>8, <1>9 DEF CommissioningInv

\* What a request that comes and goes leaves alone.
LEMMA ServeStep ==
    ASSUME CommissioningInv, NEW r \in Requests, Serve(r)
    PROVE  CommissioningInv'
<1>1. /\ UNCHANGED <<clock, device, credential, secrets, entries, chained, command, revoked>>
      /\ clock \in Times /\ clock \in Nat /\ None \notin Arrivals
      /\ request \in [Requests -> Arrivals \cup {None}]
  BY CommissioningAssumption
     DEF CommissioningAssumption, CommissioningInv, TypeOK, Serve, Arrive, Authenticate, Respond,
         registryVars, trailVars, Times
<1>2. /\ request' \in [Requests -> Arrivals \cup {None}]
      /\ \A q \in Requests : request'[q] # None => request'[q].at <= clock
      /\ WithdrawnRefused' /\ LateIsHopeless'
  <2>1. CASE \E k \in Keys : Arrive(r, k)
    <3>1. PICK k \in Keys : Arrive(r, k)
      BY <2>1
    <3> DEFINE arrival == [key |-> k, at |-> clock, late |-> Withdrawn(k), passed |-> FALSE]
    <3>2. Withdrawn(k) \in BOOLEAN
      BY DEF Withdrawn
    <3>3. /\ arrival.key = k /\ arrival.at = clock /\ arrival.passed = FALSE
          /\ arrival.late = Withdrawn(k)
      OBVIOUS
    <3>4. arrival \in Arrivals
      BY <1>1, <3>2 DEF Arrivals
    <3>5. request' = [request EXCEPT ![r] = arrival]
      BY <3>1 DEF Arrive
    <3>6. Withdrawn(k) => /\ credential[k] # None
                          /\ EndedBy(k, clock) \/ device[credential[k].device].status = "disabled"
      BY DEF Withdrawn, CommissioningInv, RevokedHasEnded
    <3> HIDE DEF arrival
    <3>7. request'[r] = arrival /\ \A q \in Requests : q # r => request'[q] = request[q]
      BY <1>1, <3>5
    <3>8. arrival.late => ~arrival.passed
      BY <3>3
    <3>9. request' \in [Requests -> Arrivals \cup {None}]
      BY <1>1, <3>4, <3>5
    <3>10. \A q \in Requests : request'[q] # None => request'[q].at <= clock
      BY <1>1, <3>3, <3>7 DEF CommissioningInv, ReadsPast
    <3>11. WithdrawnRefused'
      BY <3>7, <3>8 DEF CommissioningInv, WithdrawnRefused
    <3>12. LateIsHopeless'
      BY <1>1, <3>3, <3>6, <3>7 DEF CommissioningInv, LateIsHopeless, EndedBy
    <3> QED
      BY <3>9, <3>10, <3>11, <3>12
  <2>2. CASE Authenticate(r)
    <3>1. ~request[r].late
      BY <2>2 DEF Authenticate, UsableAt, CommissioningInv, LateIsHopeless
    <3>2. /\ request' = [request EXCEPT ![r].passed = TRUE]
          /\ request[r] # None /\ request[r] \in Arrivals
      BY <1>1, <2>2 DEF Authenticate
    <3> DEFINE served == [request[r] EXCEPT !.passed = TRUE]
    <3>3. /\ served \in Arrivals /\ served.late = request[r].late
          /\ served.at = request[r].at /\ served.key = request[r].key
      BY <3>2 DEF Arrivals
    <3>4. request' = [request EXCEPT ![r] = served]
      BY <3>2
    <3> HIDE DEF served
    <3> QED
      BY <1>1, <3>1, <3>2, <3>3, <3>4
         DEF CommissioningInv, ReadsPast, WithdrawnRefused, LateIsHopeless, EndedBy
  <2>3. CASE Respond(r)
    <3>1. request' = [request EXCEPT ![r] = None]
      BY <2>3 DEF Respond
    <3> QED
      BY <1>1, <3>1 DEF CommissioningInv, ReadsPast, WithdrawnRefused, LateIsHopeless, EndedBy
  <2> QED
    BY <2>1, <2>2, <2>3 DEF Serve
<1> QED
  BY <1>1, <1>2
     DEF CommissioningInv, TypeOK, TargetsFit, ReadsPast, RevokedHasEnded, EndedBy, TrailTellsRegistry

\* Time passes, or a secret file is lost: nothing that has ended starts again.
LEMMA EnvironmentStep ==
    ASSUME CommissioningInv, Tick \/ \E k \in Keys : LoseSecret(k)
    PROVE  CommissioningInv'
<1>1. /\ UNCHANGED <<device, credential, entries, chained, command, request, revoked>>
      /\ clock \in Nat /\ clock' \in Times /\ clock' \in Nat /\ clock <= clock'
      /\ secrets' \subseteq Keys
  BY CommissioningAssumption
     DEF CommissioningAssumption, CommissioningInv, TypeOK, Tick, LoseSecret, registryVars,
         trailVars, Times
<1>2. TypeOK'
  BY <1>1 DEF CommissioningInv, TypeOK
<1>3. ReadsPast'
  <2>1. \A o \in Operators : command[o] # None => command[o].read \in Nat
    BY DEF CommissioningInv, TypeOK, Commands, Times
  <2>2. \A r \in Requests : request[r] # None => request[r].at \in Nat
    BY DEF CommissioningInv, TypeOK, Arrivals, Times
  <2> QED
    BY <1>1, <2>1, <2>2 DEF CommissioningInv, ReadsPast
<1>4. RevokedHasEnded'
  <2>1. \A k \in Keys : credential[k] # None => credential[k].until \in Nat \cup {None}
    BY DEF CommissioningInv, TypeOK, Credentials
  <2>2. \A k \in revoked : k \in Keys
    BY DEF CommissioningInv, TypeOK
  <2> QED
    BY <1>1, <2>1, <2>2 DEF CommissioningInv, RevokedHasEnded, EndedBy
<1> QED
  BY <1>1, <1>2, <1>3, <1>4
     DEF CommissioningInv, TargetsFit, LateIsHopeless, EndedBy, WithdrawnRefused, TrailTellsRegistry

\* The invariant holds in every behaviour.
THEOREM Invariance == Spec => []CommissioningInv
<1>1. ASSUME CommissioningInv, [Next]_vars PROVE CommissioningInv'
  <2>1. CASE Next
    BY <1>1, <2>1, CommandStep, EnrollStep, DisableStep, StageStep, RevokeStep, ServeStep,
       EnvironmentStep DEF Next, Administer
  <2>2. CASE UNCHANGED vars
    BY <1>1, <2>2 DEF vars, registryVars, trailVars, CommissioningInv, TypeOK, TargetsFit, ReadsPast,
       RevokedHasEnded, EndedBy, LateIsHopeless, WithdrawnRefused, TrailTellsRegistry
  <2> QED
    BY <1>1, <2>1, <2>2
<1> QED
  BY <1>1, InitialState, PTL DEF Spec

\* Registry, commands and requests keep their types, and every credential ends
\* after it starts.
THEOREM TypeCorrect == Spec => []TypeOK
<1>1. CommissioningInv => TypeOK
  BY DEF CommissioningInv
<1> QED
  BY <1>1, Invariance, PTL

\* A request that arrives after a revocation or a disabling is refused, whatever
\* times the commands and the requests have read.
THEOREM WithdrawnAreRefused == Spec => []WithdrawnRefused
<1>1. CommissioningInv => WithdrawnRefused
  BY DEF CommissioningInv
<1> QED
  BY <1>1, Invariance, PTL

\* The entries of commands tell the state of every device and credential.
THEOREM TrailIsFaithful == Spec => []TrailTellsRegistry
<1>1. CommissioningInv => TrailTellsRegistry
  BY DEF CommissioningInv
<1> QED
  BY <1>1, Invariance, PTL

-----------------------------------------------------------------------------
\* A step that keeps every credential and every disabled device ends nothing anew
\* and revives nothing.
LEMMA KeptEnds ==
    ASSUME CommissioningInv, clock' \in Nat, clock <= clock', NEW k \in Keys, Ended(k),
           credential'[k] = credential[k],
           \A d \in Devices : device[d].status = "disabled" => device'[d].status = "disabled"
    PROVE  Ended(k)'
<1>1. credential[k] # None /\ credential[k] \in Credentials /\ clock \in Nat
  BY CommissioningAssumption
     DEF CommissioningAssumption, CommissioningInv, TypeOK, Ended, Times
<1> QED
  BY <1>1 DEF Ended, EndedBy, Credentials

\* No step revives a credential.
LEMMA EndStep ==
    ASSUME CommissioningInv, [Next]_vars, NEW k \in Keys, Ended(k)
    PROVE  Ended(k)'
<1>1. clock \in Nat /\ device \in [Devices -> Registrations]
      /\ credential \in [Keys -> Credentials \cup {None}]
  BY CommissioningAssumption DEF CommissioningAssumption, CommissioningInv, TypeOK, Times
<1>2. CASE UNCHANGED <<clock, device, credential>>
  BY <1>1, <1>2, KeptEnds
<1>3. CASE Tick
  BY <1>1, <1>3, KeptEnds DEF Tick, registryVars
<1>4. ASSUME NEW o \in Operators, EnrollDevice(o) \/ DisableDevice(o) PROVE Ended(k)'
  BY <1>1, <1>4, KeptEnds DEF EnrollDevice, DisableDevice, CanEnroll, CanDisable, Commits, Registrations
<1>5. ASSUME NEW o \in Operators, StageCredential(o) PROVE Ended(k)'
  <2>1. credential[k] # None
    BY DEF Ended
  <2>2. credential'[k] = credential[k] /\ UNCHANGED <<clock, device>>
    BY <1>1, <1>5, <2>1 DEF StageCredential, CanStage, Commits
  <2> QED
    BY <1>1, <2>2, KeptEnds
<1>6. ASSUME NEW o \in Operators, RevokeCredential(o) PROVE Ended(k)'
  <2> DEFINE j == command[o].target
             read == command[o].read
  <2>1. /\ credential' = [credential EXCEPT ![j].until = read]
        /\ UNCHANGED <<clock, device>>
        /\ read \in Nat /\ read # None /\ read <= clock /\ j \in Keys
    BY <1>6, CommissioningAssumption
       DEF CommissioningAssumption, RevokeCredential, Commits, CommissioningInv, TypeOK, TargetsFit,
           ReadsPast, Commands, Times
  <2> HIDE DEF j, read
  <2>2. credential[k] # None /\ credential[k] \in Credentials
    BY <1>1 DEF Ended
  <2>3. CASE k = j
    <3>1. credential'[k] = [credential[k] EXCEPT !.until = read]
      BY <1>1, <2>1, <2>3
    <3> DEFINE c == [credential[k] EXCEPT !.until = read]
    <3>2. c \in Credentials /\ c # None /\ c.until = read
      BY <2>1, <2>2, CommissioningAssumption DEF CommissioningAssumption, Credentials
    <3> QED
      BY <2>1, <3>1, <3>2 DEF Ended, EndedBy
  <2>4. CASE k # j
    BY <1>1, <2>1, <2>4, KeptEnds
  <2> QED
    BY <2>3, <2>4
<1>7. \/ UNCHANGED <<clock, device, credential>> \/ Tick
      \/ \E o \in Operators : \/ EnrollDevice(o) \/ DisableDevice(o)
                             \/ StageCredential(o) \/ RevokeCredential(o)
  BY DEF Next, Administer, Serve, vars, registryVars, StartDeviceCommand, StartCredentialCommand,
     StartAnnotation, Starts, Annotate, Commits, GiveUp, Arrive, Authenticate, Respond, LoseSecret
<1> QED
  BY <1>2, <1>3, <1>4, <1>5, <1>6, <1>7

\* A credential that has ended never works again, for any number of operators,
\* devices and keys.
THEOREM EndingsAreFinal == Spec => EndIsFinal
<1>1. CommissioningInv /\ [Next]_vars => [\A k \in Keys : Ended(k) => Ended(k)']_vars
  BY EndStep
<1> QED
  BY <1>1, Invariance, PTL DEF Spec, EndIsFinal
=============================================================================
