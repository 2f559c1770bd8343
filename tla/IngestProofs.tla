---------------------------- MODULE IngestProofs ----------------------------
(***************************************************************************)
(* Proofs about Ingest, for every set of messages, every finite number of  *)
(* handler threads and every number of faults.                             *)
(***************************************************************************)
EXTENDS Ingest, FiniteSetTheorems, TLAPS

-----------------------------------------------------------------------------
(***************************************************************************)
(* The in-flight gate counts the threads inside it                         *)
(***************************************************************************)

\* The threads inside the gate are finitely many.
LEMMA InsidersFinite == IsFiniteSet(Insiders)
BY IngestAssumption, FS_Subset DEF Insiders

\* A thread that enters the gate adds one to its population.
LEMMA Entering ==
    ASSUME NEW r \in Requests, r \notin Insiders, Insiders' = Insiders \cup {r}
    PROVE  Cardinality(Insiders') = Cardinality(Insiders) + 1
BY InsidersFinite, FS_AddElement

\* A thread that leaves the gate takes one from a population of at least one.
LEMMA Leaving ==
    ASSUME NEW r \in Requests, r \in Insiders, Insiders' = Insiders \ {r}
    PROVE  /\ Cardinality(Insiders) \in Nat \ {0}
           /\ Cardinality(Insiders') = Cardinality(Insiders) - 1
<1>1. Cardinality(Insiders) \in Nat
    BY InsidersFinite, FS_CardinalityType
<1>2. Cardinality(Insiders) # 0
    BY InsidersFinite, FS_EmptySet
<1>3. Cardinality(Insiders') = Cardinality(Insiders) - 1
    BY InsidersFinite, FS_RemoveElement
<1> QED
    BY <1>1, <1>2, <1>3

\* Nobody is inside the gate of a process that has just ended.
LEMMA Vanished ==
    ASSUME Vanishes
    PROVE  Cardinality(Insiders') = 0
<1>1. Insiders' = {}
    BY DEF Vanishes, Insiders
<1> QED
    BY <1>1, FS_EmptySet

\* Whatever happens, the gate's counter stays the number of threads inside.
LEMMA GateStep ==
    ASSUME TypeOK, [Next]_vars
    PROVE  inflight' \in Nat /\ inflight' = Cardinality(Insiders')
<1>1. ASSUME NEW r \in Requests, Admit(r) PROVE inflight' = Cardinality(Insiders')
    <2>1. r \notin Insiders /\ Insiders' = Insiders \cup {r}
        BY <1>1 DEF Admit, Moves, Insiders, TypeOK
    <2> QED
        <3>1. inflight' = inflight + 1 /\ inflight = Cardinality(Insiders)
            BY <1>1 DEF Admit, TypeOK
        <3> QED
            BY <2>1, <3>1, Entering
<1>2. ASSUME NEW r \in Requests, Release(r)
      PROVE  inflight' \in Nat /\ inflight' = Cardinality(Insiders')
    <2>1. r \in Insiders /\ Insiders' = Insiders \ {r}
        BY <1>2 DEF Release, Moves, Insiders, TypeOK
    <2>2. inflight' = inflight - 1 /\ inflight = Cardinality(Insiders)
        BY <1>2 DEF Release, TypeOK
    <2> QED
        BY <2>1, <2>2, Leaving
<1>3. CASE Exit \/ Kill
    <2>1. Vanishes
        BY <1>3 DEF Exit, Kill
    <2>2. inflight' = 0
        BY <2>1 DEF Vanishes
    <2> QED
        BY <2>1, <2>2, Vanished
<1>4. ASSUME NEW r \in Requests,
             \/ Refuse(r) \/ AnswerEmpty(r) \/ Check(r) \/ PersistDuplicate(r)
             \/ PersistNew(r) \/ DatabaseError(r)
      PROVE  Insiders' = Insiders /\ UNCHANGED inflight
    <2>1. phase[r] \in {"admitted", "checked"} /\ UNCHANGED inflight
        BY <1>4 DEF Refuse, AnswerEmpty, Check, PersistDuplicate, PersistNew, DatabaseError,
                    processVars
    <2>2. PICK p \in {"checked", "served"} : phase' = [phase EXCEPT ![r] = p]
        BY <1>4 DEF Refuse, AnswerEmpty, Check, PersistDuplicate, PersistNew, DatabaseError,
                    Serves, Moves
    <2> QED
        BY <2>1, <2>2 DEF Insiders, TypeOK
<1>5. ASSUME NEW r \in Requests,
             \/ TurnAway(r) \/ Answer(r) \/ AnswerLost(r) \/ \E e \in Events : Send(r, e)
      PROVE  Insiders' = Insiders /\ UNCHANGED inflight
    <2>1. phase[r] \in {"idle", "received", "answered"} /\ UNCHANGED inflight
        BY <1>5 DEF TurnAway, Answer, AnswerLost, Send, processVars
    <2>2. PICK p \in {"idle", "received", "answered"} : phase' = [phase EXCEPT ![r] = p]
        BY <1>5 DEF TurnAway, Answer, AnswerLost, Send, Ends, Moves
    <2> QED
        BY <2>1, <2>2 DEF Insiders, TypeOK
<1>6. CASE \/ Start \/ BeginWait \/ CloseListener \/ BeginDrain \/ DrainEnds \/ DrainTimesOut
           \/ Signal \/ (\E e \in Events : Ripens(e)) \/ UNCHANGED vars
    <2>1. UNCHANGED <<inflight, phase>>
        BY <1>6 DEF Start, BeginWait, CloseListener, BeginDrain, DrainEnds, DrainTimesOut,
                    Signal, Ripens, vars, processVars, threadVars
    <2> QED
        BY <2>1 DEF Insiders, TypeOK
<1>7. inflight' = Cardinality(Insiders')
    BY <1>1, <1>2, <1>3, <1>4, <1>5, <1>6 DEF Next, Main, Thread, TypeOK
<1>8. Cardinality(Insiders') \in Nat
    <2>1. IsFiniteSet(Insiders')
        BY IngestAssumption, FS_Subset DEF Insiders
    <2> QED
        BY <2>1, FS_CardinalityType
<1> QED
    BY <1>7, <1>8

-----------------------------------------------------------------------------
(***************************************************************************)
(* Type correctness                                                        *)
(***************************************************************************)

\* The responses are of their type.
LEMMA ReplyTypes ==
    /\ NoReply \in Replies /\ Refused \in Replies /\ Unavailable \in Replies
    /\ \A i \in Nat : Success(i) \in Replies
BY DEF NoReply, Refused, Unavailable, Success, Replies

\* Every step keeps the types, one action after the other; the gate's counter
\* is the business of GateStep.
LEMMA TypeStep == TypeOK /\ [Next]_vars => TypeOK'
<1> SUFFICES ASSUME TypeOK, [Next]_vars PROVE TypeOK'
    OBVIOUS
<1> USE IngestAssumption, ReplyTypes
<1>0. inflight' \in Nat /\ inflight' = Cardinality(Insiders')
    BY GateStep
<1>1. ASSUME NEW r \in Requests, NEW e \in Events, Send(r, e) PROVE TypeOK'
    BY <1>0, <1>1 DEF Send, Listening, Moves, TypeOK, processVars, diskVars, phoneVars,
                      ThreadPhases
<1>2. ASSUME NEW e \in Events, Ripens(e) PROVE TypeOK'
    BY <1>0, <1>2 DEF Ripens, TypeOK, processVars, threadVars, diskVars, phoneVars
<1>3. ASSUME NEW r \in Requests, Admit(r) PROVE TypeOK'
    BY <1>0, <1>3 DEF Admit, Moves, TypeOK, diskVars, phoneVars, ThreadPhases
<1>4. ASSUME NEW r \in Requests, TurnAway(r) PROVE TypeOK'
    BY <1>0, <1>4 DEF TurnAway, Moves, TypeOK, processVars, diskVars,
                      phoneVars, ThreadPhases
<1>5. ASSUME NEW r \in Requests, Refuse(r) \/ AnswerEmpty(r) PROVE TypeOK'
    <2>1. PICK response \in Replies : Serves(r, response)
        BY <1>5 DEF Refuse, AnswerEmpty
    <2>2. phase[r] = "admitted" /\ UNCHANGED <<processVars, diskVars, phoneVars, ahead, faults>>
        BY <1>5 DEF Refuse, AnswerEmpty
    <2> QED
        BY <1>0, <2>1, <2>2 DEF Serves, Moves, TypeOK, processVars, diskVars, phoneVars,
                                ThreadPhases
<1>6. ASSUME NEW r \in Requests, Check(r) PROVE TypeOK'
    BY <1>0, <1>6 DEF Check, Moves, TypeOK, processVars, diskVars, phoneVars,
                      ThreadPhases, Dispositions
<1>7. ASSUME NEW r \in Requests, PersistDuplicate(r) PROVE TypeOK'
    BY <1>0, <1>7 DEF PersistDuplicate, Earlier, Serves, Moves, TypeOK,
                      processVars, diskVars, phoneVars, ThreadPhases
<1>8. ASSUME NEW r \in Requests, PersistNew(r) PROVE TypeOK'
    <2>1. /\ Len(rows) + 1 \in Nat
          /\ [event |-> event[r], disposition |-> verdict[r]] \in RawEvents
        BY <1>8 DEF PersistNew, TypeOK, RawEvents
    <2>2. rows' \in Seq(RawEvents)
        BY <1>8, <2>1 DEF PersistNew, TypeOK
    <2>3. jobs' \subseteq Nat /\ quarantine' \subseteq Nat
        BY <1>8, <2>1 DEF PersistNew, TypeOK
    <2> QED
        BY <1>0, <1>8, <2>1, <2>2, <2>3
           DEF PersistNew, Serves, Moves, TypeOK, processVars, phoneVars, ThreadPhases
<1>9. ASSUME NEW r \in Requests, DatabaseError(r) PROVE TypeOK'
    BY <1>0, <1>9 DEF DatabaseError, Faulty, Serves, Moves, TypeOK,
                      processVars, diskVars, phoneVars, ThreadPhases
<1>10. ASSUME NEW r \in Requests, Release(r) PROVE TypeOK'
    BY <1>0, <1>10 DEF Release, Moves, TypeOK, diskVars, phoneVars, ThreadPhases
<1>11. ASSUME NEW r \in Requests, Answer(r) PROVE TypeOK'
    <2>1. event[r] \in Events /\ reply[r] \in Replies
        BY <1>11 DEF Answer, TypeOK
    <2>2. reply[r].id \in Nat
        BY <2>1 DEF Replies
    <2>3. acked' \in [Events -> SUBSET Nat] /\ settled' \subseteq Events
        BY <1>11, <2>1, <2>2 DEF Answer, TypeOK
    <2> QED
        BY <1>0, <1>11, <2>3 DEF Answer, Ends, Moves, TypeOK, processVars, diskVars,
                                 ThreadPhases, Dispositions
<1>12. ASSUME NEW r \in Requests, AnswerLost(r) PROVE TypeOK'
    BY <1>0, <1>12 DEF AnswerLost, Faulty, Ends, Moves, TypeOK, processVars,
                       diskVars, phoneVars, ThreadPhases, Dispositions
<1>13. CASE Start \/ BeginWait \/ CloseListener \/ DrainEnds \/ DrainTimesOut \/ BeginDrain
    <2>1. UNCHANGED <<signalled, threadVars, diskVars, phoneVars, ahead, faults>>
        BY <1>13 DEF Start, BeginWait, CloseListener, BeginDrain, DrainEnds, DrainTimesOut
    <2>2. /\ main' \in MainPhases \ {"down"} /\ draining' \in BOOLEAN
          /\ draining' <=> main' \in {"draining", "drained", "overdue"}
        <3>1. /\ main \in MainPhases /\ draining \in BOOLEAN
              /\ draining <=> main \in {"draining", "drained", "overdue"}
            BY DEF TypeOK
        <3>2. CASE BeginDrain
            BY <3>2 DEF BeginDrain, MainPhases
        <3>3. CASE Start \/ BeginWait \/ CloseListener \/ DrainEnds \/ DrainTimesOut
            <4>1. /\ draining' = draining
                  /\ \/ /\ main \in {"down", "starting", "closing"}
                        /\ main' \in {"starting", "waiting", "closed"}
                     \/ main = "draining" /\ main' \in {"drained", "overdue"}
                BY <3>3 DEF Start, BeginWait, CloseListener, DrainEnds, DrainTimesOut
            <4> QED
                BY <3>1, <4>1, Zenon DEF MainPhases
        <3> QED
            BY <1>13, <3>2, <3>3
    <2> QED
        BY <1>0, <2>1, <2>2 DEF TypeOK, threadVars, diskVars, phoneVars
<1>14. CASE Signal
    BY <1>0, <1>14 DEF Signal, Faulty, TypeOK, threadVars, diskVars, phoneVars, MainPhases
<1>15. CASE Exit \/ Kill
    <2>1. Vanishes /\ UNCHANGED <<diskVars, phoneVars, ahead>> /\ faults' \in 0..MaxFaults
        BY <1>15 DEF Exit, Kill, Faulty, TypeOK
    <2>2. main' = "down" /\ signalled' = FALSE /\ draining' = FALSE
        BY <2>1 DEF Vanishes
    <2>3. /\ phase' \in [Requests -> ThreadPhases] /\ event' \in [Requests -> Events \cup {None}]
          /\ \A r \in Requests : phase'[r] = "idle" /\ event'[r] = None
          /\ verdict' \in [Requests -> Dispositions] /\ reply' \in [Requests -> Replies]
        BY <2>1 DEF Vanishes, ThreadPhases, Dispositions
    <2> QED
        BY <1>0, <2>1, <2>2, <2>3 DEF TypeOK, diskVars, phoneVars, MainPhases
<1>16. CASE UNCHANGED vars
    BY <1>0, <1>16 DEF vars, TypeOK, processVars, threadVars, diskVars, phoneVars
<1> QED
    BY <1>1, <1>2, <1>3, <1>4, <1>5, <1>6, <1>7, <1>8, <1>9, <1>10, <1>11, <1>12, <1>13,
       <1>14, <1>15, <1>16 DEF Next, Main, Thread

\* The initial state is of the types.
LEMMA TypeInit == Init => TypeOK
<1> SUFFICES ASSUME Init PROVE TypeOK
    OBVIOUS
<1>1. Insiders = {}
    BY DEF Init, Insiders
<1>2. Cardinality(Insiders) = 0
    BY <1>1, FS_EmptySet
<1>3. rows \in Seq(RawEvents) /\ faults \in 0..MaxFaults
    BY IngestAssumption DEF Init
<1>4. /\ phase \in [Requests -> ThreadPhases] /\ event \in [Requests -> Events \cup {None}]
      /\ \A r \in Requests : phase[r] = "idle" /\ event[r] = None
      /\ verdict \in [Requests -> Dispositions] /\ reply \in [Requests -> Replies]
    BY ReplyTypes DEF Init, ThreadPhases, Dispositions
<1> QED
    BY <1>2, <1>3, <1>4 DEF Init, TypeOK, MainPhases

\* The receiver's variables keep their types, and InflightGate._inflight is the
\* number of threads inside the gate, for any number of threads.
THEOREM TypeCorrect == Spec => []TypeOK
<1> QED
    BY TypeInit, TypeStep, PTL DEF Spec

-----------------------------------------------------------------------------
(***************************************************************************)
(* What is stored, and what the phone is told                              *)
(***************************************************************************)

\* The rows grow by one, in PersistNew and nowhere else.
LEMMA DiskSteps ==
    ASSUME TypeOK, [Next]_vars
    PROVE  \/ UNCHANGED diskVars
           \/ \E r \in Requests : PersistNew(r)
BY DEF Next, Main, Thread, vars, Send, Ripens, Admit, TurnAway, Refuse, AnswerEmpty, Check,
       PersistDuplicate, DatabaseError, Release, Answer, AnswerLost, Start, BeginWait,
       Signal, CloseListener, BeginDrain, DrainEnds, DrainTimesOut, Exit, Kill

\* The row that persist_ingest appends.
LEMMA NewRow ==
    ASSUME TypeOK, NEW r \in Requests, PersistNew(r)
    PROVE  /\ event[r] \in Events /\ verdict[r] \in Dispositions
           /\ Len(rows) \in Nat /\ DOMAIN rows = 1..Len(rows)
           /\ DOMAIN rows' = 1..(Len(rows) + 1)
           /\ \A i \in DOMAIN rows : rows'[i] = rows[i] /\ rows[i].event # event[r]
           /\ rows'[Len(rows) + 1].event = event[r]
           /\ rows'[Len(rows) + 1].disposition = verdict[r]
<1>1. event[r] \in Events /\ verdict[r] \in Dispositions
    BY DEF PersistNew, TypeOK
<1>2. rows \in Seq(RawEvents) /\ [event |-> event[r], disposition |-> verdict[r]] \in RawEvents
    BY <1>1 DEF TypeOK, RawEvents
<1>3. rows' = Append(rows, [event |-> event[r], disposition |-> verdict[r]])
    BY DEF PersistNew
<1>4. \A i \in DOMAIN rows : rows[i].event # event[r]
    BY DEF PersistNew, Earlier
<1> QED
    BY <1>1, <1>2, <1>3, <1>4

\* One row for each event, and one place for each row, after every step.
LEMMA StoredStep ==
    ASSUME TypeOK, StoredOnce, [Next]_vars
    PROVE  StoredOnce'
<1>1. CASE UNCHANGED diskVars
    BY <1>1 DEF StoredOnce, diskVars
<1>2. ASSUME NEW r \in Requests, PersistNew(r) PROVE StoredOnce'
    <2>1. \A i, k \in DOMAIN rows' : rows'[i].event = rows'[k].event => i = k
        BY <1>2, NewRow DEF StoredOnce
    <2>2. /\ jobs' = IF verdict[r] = "accepted" THEN jobs \cup {Len(rows) + 1} ELSE jobs
          /\ quarantine' = IF verdict[r] = "accepted" THEN quarantine
                           ELSE quarantine \cup {Len(rows) + 1}
        BY <1>2 DEF PersistNew
    <2>3. jobs' = {i \in DOMAIN rows' : rows'[i].disposition = "accepted"}
        BY <1>2, <2>2, NewRow DEF StoredOnce
    <2>4. quarantine' = {i \in DOMAIN rows' : rows'[i].disposition = "quarantined"}
        BY <1>2, <2>2, NewRow DEF StoredOnce, Dispositions
    <2> QED
        BY <2>1, <2>3, <2>4 DEF StoredOnce
<1> QED
    BY <1>1, <1>2, DiskSteps

\* An event is stored at most once, as what its disposition says, for every
\* interleaving of duplicates, restarts and database errors.
THEOREM EventsStoredOnce == Spec => []StoredOnce
<1>1. Init => StoredOnce
    BY DEF Init, StoredOnce
<1> QED
    BY <1>1, StoredStep, TypeCorrect, PTL DEF Spec

\* A response that names an ingest_id, sent or not, is the response to a stored
\* event: this is what makes AckedIsDurable inductive.
RepliesDurable ==
    \A r \in Requests : reply[r].id > 0 =>
        /\ phase[r] \in {"served", "answered"}
        /\ reply[r].id \in DOMAIN rows
        /\ rows[reply[r].id].event = event[r]

\* The responses prepared or discarded by a step name stored events.
LEMMA RepliesStep ==
    ASSUME TypeOK, RepliesDurable, [Next]_vars
    PROVE  RepliesDurable'
<1> DEFINE Good(r) == reply[r].id > 0 =>
              /\ phase[r] \in {"served", "answered"}
              /\ reply[r].id \in DOMAIN rows
              /\ rows[reply[r].id].event = event[r]
<1>1. \A i \in DOMAIN rows : i \in DOMAIN rows' /\ rows'[i].event = rows[i].event
    BY DiskSteps, NewRow DEF diskVars
<1>2. ASSUME NEW r \in Requests, Thread(r) \/ DatabaseError(r) \/ AnswerLost(r)
             \/ \E e \in Events : Send(r, e)
      PROVE  /\ \A q \in Requests \ {r} : /\ reply'[q] = reply[q] /\ phase'[q] = phase[q]
                                         /\ event'[q] = event[q]
             /\ Good(r)'
    <2> USE DEF TypeOK
    <2>1. \A q \in Requests \ {r} : /\ reply'[q] = reply[q] /\ phase'[q] = phase[q]
                                    /\ event'[q] = event[q]
        BY <1>2 DEF Thread, Send, Admit, TurnAway, Refuse, AnswerEmpty, Check, PersistDuplicate,
                    PersistNew, DatabaseError, Release, Answer, AnswerLost, Serves, Ends, Moves
    <2>2. CASE AnswerEmpty(r) \/ Refuse(r) \/ DatabaseError(r) \/ TurnAway(r) \/ Answer(r)
               \/ AnswerLost(r)
        <3>1. reply'[r] \in {Success(0), Refused, Unavailable, NoReply}
            BY <2>2 DEF AnswerEmpty, Refuse, DatabaseError, TurnAway, Answer, AnswerLost,
                        Serves, Ends
        <3>2. reply'[r].id = 0
            BY <3>1 DEF Success, Refused, Unavailable, NoReply
        <3> QED
            BY <2>1, <3>2
    <2>3. CASE PersistDuplicate(r)
        <3>1. PICK i \in Earlier(event[r]) : Serves(r, Success(i))
            BY <2>3 DEF PersistDuplicate
        <3>2. reply'[r].id = i /\ phase'[r] = "served" /\ event'[r] = event[r]
            BY <3>1 DEF Serves, Moves, Success
        <3> QED
            BY <1>1, <2>1, <3>1, <3>2 DEF Earlier
    <2>4. CASE PersistNew(r)
        <3>1. reply'[r].id = Len(rows) + 1 /\ phase'[r] = "served" /\ event'[r] = event[r]
            BY <2>4 DEF PersistNew, Serves, Moves, Success
        <3> QED
            BY <2>1, <2>4, <3>1, NewRow
    <2>5. CASE Admit(r) \/ Check(r) \/ \E e \in Events : Send(r, e)
        <3>1. reply'[r] = reply[r] /\ phase[r] \notin {"served", "answered"}
            BY <2>5 DEF Admit, Check, Send
        <3> QED
            BY <2>1, <3>1 DEF RepliesDurable
    <2>6. CASE Release(r)
        <3>1. reply'[r] = reply[r] /\ event'[r] = event[r] /\ phase'[r] = "answered"
            BY <2>6 DEF Release, Moves
        <3> QED
            BY <1>1, <2>1, <3>1 DEF RepliesDurable
    <2> QED
        BY <1>2, <2>2, <2>3, <2>4, <2>5, <2>6 DEF Thread
<1>3. CASE Exit \/ Kill
    <2>1. \A r \in Requests : reply'[r] = NoReply
        BY <1>3 DEF Exit, Kill, Vanishes
    <2> QED
        BY <2>1 DEF RepliesDurable, NoReply
<1>4. CASE UNCHANGED threadVars
    BY <1>1, <1>4 DEF RepliesDurable, threadVars
<1>5. \/ \E r \in Requests : Thread(r) \/ DatabaseError(r) \/ AnswerLost(r)
                             \/ \E e \in Events : Send(r, e)
      \/ Exit \/ Kill \/ UNCHANGED threadVars
    BY DEF Next, Main, vars, Ripens, Start, BeginWait, Signal, CloseListener, BeginDrain,
           DrainEnds, DrainTimesOut
<1>6. ASSUME NEW r \in Requests, Thread(r) \/ DatabaseError(r) \/ AnswerLost(r)
             \/ \E e \in Events : Send(r, e)
      PROVE  RepliesDurable'
    <2>1. Good(r)'
        BY <1>2, <1>6
    <2>2. ASSUME NEW q \in Requests \ {r} PROVE Good(q)'
        BY <1>1, <1>2, <1>6 DEF RepliesDurable
    <2> QED
        BY <2>1, <2>2 DEF RepliesDurable
<1> QED
    BY <1>3, <1>4, <1>5, <1>6

\* The phone only ever learns ingest_ids from such responses.
LEMMA AckedStep ==
    ASSUME TypeOK, RepliesDurable, AckedIsDurable, [Next]_vars
    PROVE  AckedIsDurable'
<1>1. \A i \in DOMAIN rows : i \in DOMAIN rows' /\ rows'[i].event = rows[i].event
    BY DiskSteps, NewRow DEF diskVars
<1>2. CASE UNCHANGED acked
    BY <1>1, <1>2 DEF AckedIsDurable
<1>3. ASSUME NEW r \in Requests, Answer(r) PROVE AckedIsDurable'
    <2>1. event[r] \in Events /\ acked \in [Events -> SUBSET Nat]
        BY <1>3 DEF Answer, TypeOK
    <2>2. \A e \in Events : \A i \in acked'[e] : i \in acked[e] \/
              (e = event[r] /\ i = reply[r].id /\ reply[r].id > 0)
        BY <1>3, <2>1 DEF Answer
    <2> QED
        BY <1>1, <2>1, <2>2 DEF AckedIsDurable, RepliesDurable
<1>4. UNCHANGED acked \/ \E r \in Requests : Answer(r)
    BY DEF Next, Main, Thread, vars, phoneVars, Send, Ripens, Admit, TurnAway, Refuse,
           AnswerEmpty, Check, PersistDuplicate, PersistNew, DatabaseError, Release,
           AnswerLost, Start, BeginWait, Signal, CloseListener, BeginDrain, DrainEnds,
           DrainTimesOut, Exit, Kill
<1> QED
    BY <1>2, <1>3, <1>4

\* No response names an event that is not stored, in every reachable state.
LEMMA RepliesAlwaysDurable == Spec => []RepliesDurable
<1>1. Init => RepliesDurable
    BY DEF Init, RepliesDurable, NoReply
<1> QED
    BY <1>1, RepliesStep, TypeCorrect, PTL DEF Spec

\* An acknowledged event is on disk under the ingest_id it was given, for every
\* number of threads, retries, restarts and errors.
THEOREM AcknowledgedIsDurable == Spec => []AckedIsDurable
<1>1. Init => AckedIsDurable
    BY DEF Init, AckedIsDurable
<1> QED
    BY <1>1, AckedStep, RepliesAlwaysDurable, TypeCorrect, PTL DEF Spec

-----------------------------------------------------------------------------
(***************************************************************************)
(* The drain                                                               *)
(***************************************************************************)

\* A counter of zero means that nobody is inside.
LEMMA NobodyInside ==
    ASSUME TypeOK, inflight = 0
    PROVE  \A r \in Requests : r \notin Insiders
BY InsidersFinite, FS_EmptySet DEF TypeOK

\* Once drain has reported success the gate is empty and stays so.
DrainedIsEmpty == main = "drained" => inflight = 0

\* No step fills the gate again.
LEMMA DrainedStep ==
    ASSUME TypeOK, DrainedIsEmpty, [Next]_vars
    PROVE  DrainedIsEmpty'
<1> SUFFICES ASSUME main' = "drained" PROVE inflight' = 0
    BY DEF DrainedIsEmpty
<1>1. CASE DrainEnds
    BY <1>1 DEF DrainEnds
<1>2. CASE main = "drained" /\ UNCHANGED inflight
    BY <1>2 DEF DrainedIsEmpty
<1>3. ASSUME NEW r \in Requests, main = "drained", Admit(r) \/ Release(r) PROVE FALSE
    <2>1. draining /\ inflight = 0
        BY <1>3 DEF TypeOK, DrainedIsEmpty
    <2>2. r \in Insiders
        BY <1>3, <2>1 DEF Admit, Release, Insiders
    <2> QED
        BY <2>1, <2>2, NobodyInside
<1>4. \/ main = "drained" /\ UNCHANGED inflight
      \/ DrainEnds
      \/ main = "drained" /\ \E r \in Requests : Admit(r) \/ Release(r)
    BY DEF Next, Main, Thread, vars, processVars, Send, Ripens, Admit, TurnAway, Refuse,
           AnswerEmpty, Check, PersistDuplicate, PersistNew, DatabaseError, Release, Answer,
           AnswerLost, Start, BeginWait, Signal, CloseListener, BeginDrain, DrainTimesOut,
           Exit, Kill, Vanishes
<1> QED
    BY <1>1, <1>2, <1>3, <1>4

\* Nothing is stored with an empty gate.
LEMMA DrainedStores ==
    ASSUME TypeOK, DrainedIsEmpty, [Next]_vars, main = "drained"
    PROVE  UNCHANGED <<rows, jobs, quarantine>>
<1>1. ASSUME NEW r \in Requests, PersistNew(r) PROVE FALSE
    <2>1. r \in Insiders
        BY <1>1 DEF PersistNew, Insiders
    <2> QED
        BY <2>1, NobodyInside DEF DrainedIsEmpty
<1> QED
    BY <1>1, DiskSteps DEF diskVars

\* A successful drain is final: when the process ends after it, no transaction
\* is cut off, for any number of handler threads.
THEOREM DrainIsFinal == Spec => NothingStoredAfterDrain
<1>1. Init => DrainedIsEmpty
    BY DEF Init, DrainedIsEmpty
<1>2. TypeOK /\ DrainedIsEmpty /\ [Next]_vars
      => [main = "drained" => UNCHANGED <<rows, jobs, quarantine>>]_vars
    BY DrainedStores
<1> QED
    BY <1>1, <1>2, DrainedStep, TypeCorrect, PTL DEF Spec, NothingStoredAfterDrain

-----------------------------------------------------------------------------
(***************************************************************************)
(* The receiver implements the durable inbox                               *)
(***************************************************************************)

\* The dispositions under which an event is on disk, and the events told.
StoredMap == [e \in Events |-> {rows[i].disposition : i \in Earlier(e)}]
ToldMap == {e \in Events : acked[e] # {}}

\* The commit of a new row is Store, an answer with an ingest_id is Tell, and
\* nothing else is visible to the phone.
LEMMA InboxStep ==
    ASSUME TypeOK, RepliesDurable, [Next]_vars
    PROVE  [Inbox!InboxNext]_<<StoredMap, ToldMap>>
<1>1. ASSUME NEW r \in Requests, PersistNew(r)
      PROVE  Inbox!InboxNext
    <2>1. PICK e \in Events : e = event[r]
        BY <1>1, NewRow
    <2>2. verdict[r] \in {"accepted", "quarantined"} /\ Earlier(e) = {} /\ UNCHANGED acked
        BY <1>1, <2>1, NewRow DEF PersistNew, phoneVars, Dispositions
    <2>3. {i \in DOMAIN rows' : rows'[i].event = e} = {Len(rows) + 1}
        BY <1>1, <2>1, NewRow
    <2>4. ASSUME NEW f \in Events \ {e}
          PROVE  /\ {i \in DOMAIN rows' : rows'[i].event = f}
                       = {i \in DOMAIN rows : rows[i].event = f}
                 /\ \A i \in DOMAIN rows : rows'[i] = rows[i]
        BY <1>1, <2>1, NewRow
    <2>5. StoredMap' = [StoredMap EXCEPT ![e] = {verdict[r]}]
        <3>1. {rows'[i].disposition : i \in {Len(rows) + 1}} = {verdict[r]}
            BY <1>1, NewRow
        <3>2. StoredMap'[e] = {verdict[r]}
            BY <2>3, <3>1 DEF StoredMap, Earlier
        <3>3. ASSUME NEW f \in Events \ {e} PROVE StoredMap'[f] = StoredMap[f]
            BY <2>4 DEF StoredMap, Earlier
        <3>4. StoredMap' = [f \in Events |-> StoredMap'[f]]
            BY DEF StoredMap
        <3>5. StoredMap = [f \in Events |-> StoredMap[f]]
            BY DEF StoredMap
        <3> HIDE DEF StoredMap
        <3> QED
            BY <3>2, <3>3, <3>4, <3>5
    <2>6. StoredMap[e] = {} /\ UNCHANGED ToldMap
        BY <2>2 DEF StoredMap, ToldMap
    <2>7. Inbox!Store(e)
        BY <2>2, <2>5, <2>6 DEF Inbox!Store, StoredMap, ToldMap
    <2> QED
        BY <2>7 DEF Inbox!InboxNext
<1>2. ASSUME NEW r \in Requests, Answer(r)
      PROVE  Inbox!InboxNext \/ UNCHANGED <<StoredMap, ToldMap>>
    <2>1. PICK e \in Events : e = event[r]
        BY <1>2 DEF Answer, TypeOK
    <2>2. UNCHANGED StoredMap
        BY <1>2 DEF Answer, diskVars, StoredMap, Earlier
    <2>3. CASE reply[r].id > 0
        <3>1. reply[r].id \in Earlier(e)
            BY <2>1, <2>3 DEF RepliesDurable, Earlier
        <3>2. StoredMap[e] # {}
            BY <3>1 DEF StoredMap
        <3>3. acked' = [acked EXCEPT ![e] = @ \cup {reply[r].id}]
            BY <1>2, <2>1, <2>3 DEF Answer
        <3>4. ToldMap' = ToldMap \cup {e}
            BY <3>3 DEF TypeOK, ToldMap
        <3>5. Inbox!Tell(e)
            BY <2>2, <3>2, <3>4 DEF Inbox!Tell, StoredMap, ToldMap
        <3> QED
            BY <3>5 DEF Inbox!InboxNext
    <2>4. CASE ~(reply[r].id > 0)
        BY <1>2, <2>2, <2>4 DEF Answer, ToldMap
    <2> QED
        BY <2>3, <2>4
<1>3. CASE UNCHANGED <<rows, acked>>
    BY <1>3 DEF StoredMap, ToldMap, Earlier
<1>4. \/ UNCHANGED <<rows, acked>>
      \/ \E r \in Requests : PersistNew(r) \/ Answer(r)
    BY DEF Next, Main, Thread, vars, diskVars, phoneVars, Send, Ripens, Admit, TurnAway,
           Refuse, AnswerEmpty, Check, PersistDuplicate, DatabaseError, Release,
           AnswerLost, Start, BeginWait, Signal, CloseListener, BeginDrain, DrainEnds,
           DrainTimesOut, Exit, Kill
<1> QED
    BY <1>1, <1>2, <1>3, <1>4

\* The receiver with its threads, drains, crashes and retries implements the
\* durable inbox: to the phone an event is stored under one disposition for
\* good, and acknowledged only after that.
THEOREM IngestImplementsInbox == Spec => ImplementsInbox
<1>1. Init => Inbox!InboxInit
    BY DEF Init, Inbox!InboxInit, Earlier
<1>2. [Inbox!InboxNext]_<<StoredMap, ToldMap>> => [Inbox!InboxNext]_Inbox!inboxVars
    BY DEF Inbox!inboxVars, StoredMap, ToldMap
<1>3. TypeOK /\ RepliesDurable /\ [Next]_vars => [Inbox!InboxNext]_Inbox!inboxVars
    BY <1>2, InboxStep
<1> QED
    BY <1>1, <1>3, TypeCorrect, RepliesAlwaysDurable, PTL
       DEF Spec, ImplementsInbox, Inbox!InboxSpec
=============================================================================
