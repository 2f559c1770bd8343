------------------------------- MODULE Ingest -------------------------------
(***************************************************************************)
(* The receiver process (src/hermodr/receiver.py) and the transaction of   *)
(* persist_ingest (src/hermodr/repository.py).                             *)
(*                                                                         *)
(* The main thread goes through serve() and shutdown():                    *)
(*                                                                         *)
(*   down -> starting -> waiting -> closing -> closed -> draining          *)
(*                                            -> drained | overdue -> down *)
(*                                                                         *)
(* while one daemon thread for each request runs do_POST and ingest():     *)
(*                                                                         *)
(*   received -> admitted -> checked -> served -> answered                 *)
(*                                                                         *)
(* From admitted to served the request is inside the in-flight gate.  The  *)
(* answer is sent after the gate is left, so the process may end, or the   *)
(* connection break, between the commit and the phone learning of it; the  *)
(* phone then sends the event again.                                       *)
(***************************************************************************)
EXTENDS Naturals, Sequences, FiniteSets

CONSTANTS
    Events,      \* the messages the phone has to deliver
    Requests,    \* handler threads, each serving one request at a time
    None,        \* no event
    Kind,        \* Kind[e]: what validation makes of the message
    MaxFaults    \* bound: stop signals, kills, database errors, lost answers

(***************************************************************************)
(* report: a valid message of an enrolled device.                          *)
(* empty: a body of no bytes, which is answered but not stored.            *)
(* refused: whatever fails authentication or validation.                   *)
(***************************************************************************)
Kinds == {"report", "empty", "refused"}

ASSUME IngestAssumption ==
    /\ IsFiniteSet(Requests)
    /\ None \notin Events
    /\ Kind \in [Events -> Kinds]
    /\ MaxFaults \in Nat

VARIABLES
    main,        \* where the main thread is
    signalled,   \* SIGTERM has been delivered to this process
    draining,    \* InflightGate._draining
    inflight,    \* InflightGate._inflight
    phase,       \* where each handler thread is
    event,       \* the message it has read
    verdict,     \* the disposition it has computed
    reply,       \* the response it is about to send
    rows,        \* raw_events; the ingest_id of a row is its position
    jobs,        \* ingest_ids with a row in processing_jobs
    quarantine,  \* ingest_ids with a row in quarantine
    ahead,       \* reports whose capture time is too far in the future
    acked,       \* acked[e]: ingest_ids the phone has received with a 200
    settled,     \* events for which the phone has received a 2xx or 4xx
    faults       \* faults so far

processVars == <<main, signalled, draining, inflight>>
threadVars == <<phase, event, verdict, reply>>
diskVars == <<rows, jobs, quarantine>>
phoneVars == <<acked, settled>>
vars == <<processVars, threadVars, diskVars, phoneVars, ahead, faults>>

MainPhases == {"down", "starting", "waiting", "closing", "closed", "draining",
               "drained", "overdue"}
ThreadPhases == {"idle", "received", "admitted", "checked", "served", "answered"}
Dispositions == {"accepted", "quarantined"}
Replies == [status : {0, 200, 400, 503}, id : Nat]
RawEvents == [event : Events, disposition : Dispositions]
NoReply == [status |-> 0, id |-> 0]
Refused == [status |-> 400, id |-> 0]
Unavailable == [status |-> 503, id |-> 0]
Success(i) == [status |-> 200, id |-> i]

Init ==
    /\ main = "down" /\ signalled = FALSE
    /\ draining = FALSE /\ inflight = 0
    /\ phase = [r \in Requests |-> "idle"]
    /\ event = [r \in Requests |-> None]
    /\ verdict = [r \in Requests |-> "accepted"]
    /\ reply = [r \in Requests |-> NoReply]
    /\ rows = <<>> /\ jobs = {} /\ quarantine = {}
    /\ ahead \in SUBSET {e \in Events : Kind[e] = "report"}
    /\ acked = [e \in Events |-> {}] /\ settled = {}
    /\ faults = 0

-----------------------------------------------------------------------------
(***************************************************************************)
(* Helpers                                                                 *)
(***************************************************************************)

\* The accept loop runs from start() until public.shutdown() returns.
Listening == main \in {"starting", "waiting", "closing"}

\* The threads inside the gate.
Insiders == {r \in Requests : phase[r] \in {"admitted", "checked", "served"}}

\* Mutant: no row is taken for a duplicate.
NoRow(e) == {}

\* The duplicate lookup by idempotency_key.
Earlier(e) == {i \in DOMAIN rows : rows[i].event = e}

Moves(r, p) == phase' = [phase EXCEPT ![r] = p]

\* Thread r has its response and is about to leave the gate.
Serves(r, response) ==
    /\ Moves(r, "served")
    /\ reply' = [reply EXCEPT ![r] = response]
    /\ UNCHANGED <<event, verdict>>

\* The handler ends.
Ends(r) ==
    /\ Moves(r, "idle")
    /\ event' = [event EXCEPT ![r] = None]
    /\ verdict' = [verdict EXCEPT ![r] = "accepted"]
    /\ reply' = [reply EXCEPT ![r] = NoReply]

\* The process ends and takes its daemon threads and memory with it.
Vanishes ==
    /\ main' = "down" /\ signalled' = FALSE
    /\ draining' = FALSE /\ inflight' = 0
    /\ phase' = [r \in Requests |-> "idle"]
    /\ event' = [r \in Requests |-> None]
    /\ verdict' = [r \in Requests |-> "accepted"]
    /\ reply' = [r \in Requests |-> NoReply]

Faulty == faults < MaxFaults /\ faults' = faults + 1

-----------------------------------------------------------------------------
(***************************************************************************)
(* The environment                                                         *)
(***************************************************************************)

\* The phone, or whatever is between, sends an event for the first time, again,
\* or even after its final answer; do_POST reads it.
Send(r, e) ==
    /\ Listening
    /\ phase[r] = "idle"
    /\ Moves(r, "received")
    /\ event' = [event EXCEPT ![r] = e]
    /\ UNCHANGED <<processVars, verdict, reply, diskVars, phoneVars, ahead, faults>>

\* The capture time of an event comes within max_future_seconds.
Ripens(e) ==
    /\ e \in ahead
    /\ ahead' = ahead \ {e}
    /\ UNCHANGED <<processVars, threadVars, diskVars, phoneVars, faults>>

-----------------------------------------------------------------------------
(***************************************************************************)
(* ingest, in one handler thread                                           *)
(***************************************************************************)

\* Mutant: the gate is not looked at.
AdmitAlways(r) ==
    /\ phase[r] = "received"
    /\ inflight' = inflight + 1
    /\ Moves(r, "admitted")
    /\ UNCHANGED <<main, signalled, draining, event, verdict, reply, diskVars,
                   phoneVars, ahead, faults>>

\* InflightGate.request admits the thread ...
Admit(r) ==
    /\ phase[r] = "received"
    /\ ~draining
    /\ inflight' = inflight + 1
    /\ Moves(r, "admitted")
    /\ UNCHANGED <<main, signalled, draining, event, verdict, reply, diskVars,
                   phoneVars, ahead, faults>>

\* Mutant: the thread that was turned away is counted out as well.
TurnAwayUncounted(r) ==
    /\ phase[r] = "received"
    /\ draining
    /\ inflight' = inflight - 1
    /\ Moves(r, "answered")
    /\ reply' = [reply EXCEPT ![r] = Unavailable]
    /\ UNCHANGED <<main, signalled, draining, event, verdict, diskVars, phoneVars,
                   ahead, faults>>

\* ... or turns it away with 503 once the drain has begun.
TurnAway(r) ==
    /\ phase[r] = "received"
    /\ draining
    /\ Moves(r, "answered")
    /\ reply' = [reply EXCEPT ![r] = Unavailable]
    /\ UNCHANGED <<processVars, event, verdict, diskVars, phoneVars, ahead, faults>>

\* Authentication or validation fails.
Refuse(r) ==
    /\ phase[r] = "admitted"
    /\ Kind[event[r]] = "refused"
    /\ Serves(r, Refused)
    /\ UNCHANGED <<processVars, diskVars, phoneVars, ahead, faults>>

\* An empty body is answered without storing anything.
AnswerEmpty(r) ==
    /\ phase[r] = "admitted"
    /\ Kind[event[r]] = "empty"
    /\ Serves(r, Success(0))
    /\ UNCHANGED <<processVars, diskVars, phoneVars, ahead, faults>>

\* The disposition is computed from the clock, before the transaction.
Check(r) ==
    /\ phase[r] = "admitted"
    /\ Kind[event[r]] = "report"
    /\ Moves(r, "checked")
    /\ verdict' = [verdict EXCEPT ![r] =
                      IF event[r] \in ahead THEN "quarantined" ELSE "accepted"]
    /\ UNCHANGED <<processVars, event, reply, diskVars, phoneVars, ahead, faults>>

\* Mutant: the violated UNIQUE constraint is reported as a database error.
DuplicateIsError(r) ==
    /\ phase[r] = "checked"
    /\ Earlier(event[r]) # {}
    /\ Serves(r, Unavailable)
    /\ UNCHANGED <<processVars, diskVars, phoneVars, ahead, faults>>

\* persist_ingest finds the event stored and returns the first ingest_id.
PersistDuplicate(r) ==
    /\ phase[r] = "checked"
    /\ \E i \in Earlier(event[r]) : Serves(r, Success(i))
    /\ UNCHANGED <<processVars, diskVars, phoneVars, ahead, faults>>

\* Mutant: the connection is closed without a commit.
Uncommitted(r) ==
    /\ phase[r] = "checked"
    /\ Earlier(event[r]) = {}
    /\ Serves(r, Success(Len(rows) + 1))
    /\ UNCHANGED <<processVars, diskVars, phoneVars, ahead, faults>>

\* persist_ingest commits the raw event with its job or quarantine entry.
PersistNew(r) ==
    LET id == Len(rows) + 1
    IN  /\ phase[r] = "checked"
        /\ Earlier(event[r]) = {}
        /\ rows' = Append(rows, [event |-> event[r], disposition |-> verdict[r]])
        /\ jobs' = IF verdict[r] = "accepted" THEN jobs \cup {id} ELSE jobs
        /\ quarantine' = IF verdict[r] = "accepted" THEN quarantine
                         ELSE quarantine \cup {id}
        /\ Serves(r, Success(id))
        /\ UNCHANGED <<processVars, phoneVars, ahead, faults>>

\* OSError or sqlite3.Error, from the connection to the commit: rolled back.
DatabaseError(r) ==
    /\ phase[r] \in {"admitted", "checked"}
    /\ Faulty
    /\ Serves(r, Unavailable)
    /\ UNCHANGED <<processVars, diskVars, phoneVars, ahead>>

\* The thread leaves the gate ...
Release(r) ==
    /\ phase[r] = "served"
    /\ inflight' = inflight - 1
    /\ Moves(r, "answered")
    /\ UNCHANGED <<main, signalled, draining, event, verdict, reply, diskVars,
                   phoneVars, ahead, faults>>

\* ... and only then sends the answer.  A 503 makes the phone try again.
Answer(r) ==
    LET e == event[r]
    IN  /\ phase[r] = "answered"
        /\ acked' = IF reply[r].id > 0
                    THEN [acked EXCEPT ![e] = @ \cup {reply[r].id}] ELSE acked
        /\ settled' = IF reply[r].status = 503 THEN settled ELSE settled \cup {e}
        /\ Ends(r)
        /\ UNCHANGED <<processVars, diskVars, ahead, faults>>

\* The connection breaks before the phone has the answer.
AnswerLost(r) ==
    /\ phase[r] = "answered"
    /\ Faulty
    /\ Ends(r)
    /\ UNCHANGED <<processVars, diskVars, phoneVars, ahead>>

-----------------------------------------------------------------------------
(***************************************************************************)
(* serve and shutdown, in the main thread                                  *)
(***************************************************************************)

\* serve installs the signal handlers and start() opens the listeners.
Start ==
    /\ main = "down"
    /\ main' = "starting"
    /\ UNCHANGED <<signalled, draining, inflight, threadVars, diskVars, phoneVars,
                   ahead, faults>>

\* serve reaches stopped.wait().
BeginWait ==
    /\ main = "starting"
    /\ main' = "waiting"
    /\ UNCHANGED <<signalled, draining, inflight, threadVars, diskVars, phoneVars,
                   ahead, faults>>

\* SIGTERM runs stop(), which notifies whoever waits at that moment.
Signal ==
    /\ main \in {"starting", "waiting"}
    /\ ~signalled
    /\ Faulty
    /\ signalled' = TRUE
    /\ main' = IF main = "waiting" THEN "closing" ELSE main
    /\ UNCHANGED <<draining, inflight, threadVars, diskVars, phoneVars, ahead>>

\* public.shutdown() stops the accept loop; its handler threads go on.
CloseListener ==
    /\ main = "closing"
    /\ main' = "closed"
    /\ UNCHANGED <<signalled, draining, inflight, threadVars, diskVars, phoneVars,
                   ahead, faults>>

\* InflightGate.drain closes the gate ...
BeginDrain ==
    /\ main = "closed"
    /\ main' = "draining"
    /\ draining' = TRUE
    /\ UNCHANGED <<signalled, inflight, threadVars, diskVars, phoneVars, ahead, faults>>

\* ... and waits until nobody is inside ...
DrainEnds ==
    /\ main = "draining"
    /\ inflight = 0
    /\ main' = "drained"
    /\ UNCHANGED <<signalled, draining, inflight, threadVars, diskVars, phoneVars,
                   ahead, faults>>

\* Mutant: the drain waits for as long as it takes.
DrainPatiently == FALSE /\ UNCHANGED vars

\* ... or the deadline passes.
DrainTimesOut ==
    /\ main = "draining"
    /\ inflight > 0
    /\ main' = "overdue"
    /\ UNCHANGED <<signalled, draining, inflight, threadVars, diskVars, phoneVars,
                   ahead, faults>>

\* serve returns and the interpreter ends.
Exit ==
    /\ main \in {"drained", "overdue"}
    /\ Vanishes
    /\ UNCHANGED <<diskVars, phoneVars, ahead, faults>>

\* SIGKILL, power loss: SQLite rolls an open transaction back.
Kill ==
    /\ main # "down"
    /\ Faulty
    /\ Vanishes
    /\ UNCHANGED <<diskVars, phoneVars, ahead>>

-----------------------------------------------------------------------------
Thread(r) ==
    \/ Admit(r) \/ TurnAway(r) \/ Refuse(r) \/ AnswerEmpty(r) \/ Check(r)
    \/ PersistDuplicate(r) \/ PersistNew(r) \/ Release(r) \/ Answer(r)

Main == Start \/ BeginWait \/ CloseListener \/ BeginDrain \/ DrainEnds \/ DrainTimesOut \/ Exit

Next ==
    \/ Main \/ Signal \/ Kill
    \/ \E r \in Requests : Thread(r) \/ DatabaseError(r) \/ AnswerLost(r)
    \/ \E r \in Requests, e \in Events : Send(r, e)
    \/ \E e \in Events : Ripens(e)

Spec == Init /\ [][Next]_vars

\* The main thread runs; nothing is assumed of the handler threads, one of which
\* may hang for ever, nor of the phone.
MainSpec == Spec /\ WF_vars(Main)

(***************************************************************************)
(* What deliveries need beyond that: threads are scheduled, and the phone  *)
(* keeps sending what it has no final answer for.  That one is strong,     *)
(* because the server starts a thread for every connection and the number  *)
(* of Requests is a bound of the model only.                               *)
(***************************************************************************)
Persistent ==
    /\ \A r \in Requests : WF_vars(Thread(r))
    /\ \A e \in Events : SF_vars(e \notin settled /\ \E r \in Requests : Send(r, e))

-----------------------------------------------------------------------------
(***************************************************************************)
(* Properties                                                              *)
(***************************************************************************)

\* Every variable has its type, the gate counts the threads inside it, and it
\* is closed exactly from the start of the drain to the end of the process.
TypeOK ==
    /\ main \in MainPhases
    /\ signalled \in BOOLEAN /\ draining \in BOOLEAN
    /\ draining <=> main \in {"draining", "drained", "overdue"}
    /\ phase \in [Requests -> ThreadPhases]
    /\ inflight \in Nat
    /\ inflight = Cardinality(Insiders)
    /\ event \in [Requests -> Events \cup {None}]
    /\ \A r \in Requests : (phase[r] = "idle") <=> (event[r] = None)
    /\ main = "down" => \A r \in Requests : phase[r] = "idle"
    /\ verdict \in [Requests -> Dispositions]
    /\ reply \in [Requests -> Replies]
    /\ rows \in Seq(RawEvents)
    /\ jobs \subseteq Nat /\ quarantine \subseteq Nat
    /\ ahead \subseteq Events
    /\ acked \in [Events -> SUBSET Nat]
    /\ settled \subseteq Events
    /\ faults \in 0..MaxFaults

\* An ingest_id the phone has received names a stored row of that very event,
\* whatever crashes, retries and concurrent duplicates came before or after.
AckedIsDurable ==
    \A e \in Events : \A i \in acked[e] : i \in DOMAIN rows /\ rows[i].event = e

\* An event is stored once, although it is sent again after a lost answer or
\* twice at the same time and its disposition may have changed meanwhile; a
\* row has a job or a quarantine entry, as its disposition says, never both.
StoredOnce ==
    /\ \A i, k \in DOMAIN rows : rows[i].event = rows[k].event => i = k
    /\ jobs = {i \in DOMAIN rows : rows[i].disposition = "accepted"}
    /\ quarantine = {i \in DOMAIN rows : rows[i].disposition = "quarantined"}

\* After a drain that reported success nothing is stored until the process is
\* gone: its end cuts no transaction off.
NothingStoredAfterDrain ==
    [][main = "drained" => UNCHANGED <<rows, jobs, quarantine>>]_vars

\* To the phone the receiver is the durable inbox.
Inbox == INSTANCE DurableInbox WITH
    stored <- [e \in Events |-> {rows[i].disposition : i \in Earlier(e)}],
    told <- {e \in Events : acked[e] # {}}

ImplementsInbox == Inbox!InboxSpec

\* A valid event that the phone keeps sending is acknowledged in the end, in
\* spite of finitely many restarts, database errors and lost answers.
ReportsDelivered ==
    Persistent => \A e \in Events : Kind[e] = "report" => <>(acked[e] # {})

\* A shutdown that has begun ends, even if a request inside the gate never does.
ShutdownEnds == main = "closing" ~> main = "down"
=============================================================================
