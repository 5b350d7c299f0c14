-------------------------- MODULE FormServiceProofs --------------------------
(***************************************************************************)
(* What the whole system promises, for any requests, keys, payloads,       *)
(* workers and failures.  The invariant puts the parts together: a message *)
(* is what its request was sent, a claim names a request that sent the     *)
(* same, a synchronous request saves what it was sent, and so a row that   *)
(* one part saved is what another part tells its client of.  What the      *)
(* workers keep is WorkInv (PartsProofs).                                  *)
(*                                                                         *)
(* First FormService, where any key and payload may arrive; then           *)
(* FormPages, where requests come from visitors through the routes.  Every *)
(* behaviour of the second is one of the first (PagesAreServed), and keeps *)
(* what was proved there.                                                  *)
(*                                                                         *)
(* SubmissionIds bounds the ids TLC may meet; here the ids are unbounded.  *)
(***************************************************************************)
EXTENDS FormPages, PartsProofs

USE DEF ReqAt, Arrived, SyncAt, AtStatement, GoTo, MaybeKeys, Doing

EarlySteps == {"get_claim", "insert_claim", "get_again", "take_over",
               "read_status", "move_claim"}

\* The claim was made by the request whose task it names.
Names(claim, key) ==
    /\ Arrived(claim.task)
    /\ req[claim.task].key = key
    /\ Fingerprint(req[claim.task].payload) = claim.fingerprint

\* What DeskInv says of the tables, of a request and of the claim of a key.
LEMMA DeskIsOK == DeskInv => ClaimsInv /\ DeskOK
    BY DEF DeskInv, ClaimsInv, ClaimsOK

LEMMA RequestsThatArrived ==
    ASSUME DeskInv, NEW t \in Tasks, req[t].step # "idle"
    PROVE  /\ req[t] \in ActiveRequests
           /\ req[t].key \in RequestKeys
           /\ req[t].key # NoKey => req[t].key \in Keys
           /\ req[t].step \in EarlySteps => req[t].key # NoKey
           /\ req[t].step \in {"get_again", "take_over", "read_status",
                               "move_claim"} => claims[req[t].key] # NoClaim
<1>1. req[t] \in ActiveRequests /\ RequestIsSound(req[t])
    BY DeskIsOK, KeyedSteps
<1> QED
    BY <1>1
    DEF DeskInv, RequestsCarryKeys, RequestIsSound, StepsFollowTheKey,
        ActiveRequests, EarlySteps

LEMMA ClaimOfKey ==
    ASSUME DeskInv, NEW k \in Keys, claims[k] # NoClaim
    PROVE  claims[k] \in ClaimRows /\ Names(claims[k], k)
    BY DeskIsOK
    DEF DeskOK, ClaimsInv, OwnersArrived, ClaimDescribesOwner, Names

LEMMA ServiceBegins == Init => ServiceInv
<1> SUFFICES ASSUME Init PROVE ServiceInv
    OBVIOUS
<1>1. WorkInv
    BY WorkBegins DEF Init
<1>2. NotArrived.step = "idle" /\ SyncNotArrived.step = "idle"
    BY DEF NotArrived, SyncNotArrived
<1>3. /\ claims = [k \in Keys |-> NoClaim]
      /\ req = [t \in Tasks |-> NotArrived]
      /\ sync = [s \in SyncRequestIds |-> SyncNotArrived]
      /\ accepted = {}
      /\ submissions = << >>
    BY DEF Init, InitDesk, InitSync, InitBroker, InitStore
<1>4. DeskInv
    BY <1>2, <1>3, ClaimsBegin
    DEF Init, DeskInv, RequestsCarryKeys, MessagesAreRequests
<1>5. SyncInv
    BY <1>2, <1>3 DEF SyncInv, SyncCalls, SyncSavesItsRequest
<1>6. RowsHaveOwners
    BY <1>3 DEF RowsHaveOwners, Ids
<1>7. ConflictIsReal
    BY DEF Init, InitTaskTable, Absent, Row, ConflictIsReal
<1>8. ConflictsArrived
    BY DEF Init, InitTaskTable, Absent, Row, ConflictsArrived
<1> QED BY <1>1, <1>4, <1>5, <1>6, <1>7, <1>8 DEF ServiceInv

-----------------------------------------------------------------------------
\* The claims and the requests, whoever moves.

\* Requests keep what they were sent.
RequestsGrow ==
    \A u \in Tasks : req[u].step # "idle" =>
        /\ req'[u].step # "idle"
        /\ req'[u].key = req[u].key
        /\ req'[u].payload = req[u].payload

\* Somebody else moves.
LEMMA DeskStands ==
    ASSUME DeskInv, WorkInv', KeepsWord, now <= now', claims' = claims,
           req' = req, accepted' = accepted
    PROVE  DeskInv' /\ RequestsGrow
<1>1. ClaimsOK'
    BY DeskIsOK DEF WorkInv, StoreInv, ClaimsOK, DeskOK
<1>2. ClaimsInv'
    BY <1>1, DeskIsOK, RequestsRest
<1> QED
    BY <1>2
    DEF DeskInv, RequestsCarryKeys, MessagesAreRequests, Accepted, RequestsGrow

-----------------------------------------------------------------------------
\* What the requests do to statuses and messages.

LEMMA StatusWritten ==
    ASSUME WorkInv, NEW t \in Tasks, NEW write \in WriteRows,
           RecordTaskStatus(t, write)
    PROVE  /\ taskStatus' \in TaskTable /\ KeepsWord
           /\ \A u \in Tasks :
                 \/ taskStatus'[u].status = taskStatus[u].status
                 \/ u = t /\ taskStatus'[u].status = write.status
<1>1. taskStatus \in TaskTable
    BY DEF WorkInv
<1>2. taskStatus' \in TaskTable /\ KeepsWord
    BY <1>1, RecordKeepsWord
<1>3. \A u \in Tasks : taskStatus'[u] =
          IF u = t THEN Recorded(taskStatus[t], write) ELSE taskStatus[u]
    BY <1>1 DEF RecordTaskStatus, TaskTable
<1>4. Recorded(taskStatus[t], write).status
          \in {taskStatus[t].status, write.status}
    BY <1>1, RecordedRow DEF TaskTable
<1> QED BY <1>2, <1>3, <1>4

LEMMA StatusMarked ==
    ASSUME WorkInv, NEW t \in Tasks, MarkTaskQueued(t)
    PROVE  /\ taskStatus' \in TaskTable /\ KeepsWord
           /\ \A u \in Tasks :
                 \/ taskStatus'[u].status = taskStatus[u].status
                 \/ taskStatus'[u].status = "queued"
<1>1. taskStatus \in TaskTable
    BY DEF WorkInv
<1>2. taskStatus' \in TaskTable /\ KeepsWord
    BY <1>1, MarkKeepsWord
<1>3. \A u \in Tasks : taskStatus'[u] =
          IF u = t THEN Marked(taskStatus[t]) ELSE taskStatus[u]
    BY <1>1 DEF MarkTaskQueued, TaskTable
<1> QED BY <1>2, <1>3 DEF Marked, Queued, Row

\* No request makes a task processed or puts it in conflict.
ModestWrite ==
    \A u \in Tasks, status \in {"processed", "conflict"} :
        taskStatus'[u].status = status => taskStatus[u].status = status

AnyRequestStep(t) ==
    \/ RequestStep(t)
    \/ \E key \in RequestKeys, payload \in Payloads : Arrive(t, key, payload)

LEMMA RequestsWrite ==
    ASSUME WorkInv, DeskInv, NEW t \in Tasks, AnyRequestStep(t)
    PROVE  /\ taskStatus' \in TaskTable /\ KeepsWord /\ ModestWrite
           /\ now' = now /\ faults' \in 0 .. MaxFaults
           /\ \/ UNCHANGED broker
              \/ /\ req[t].step = "publish"
                 /\ Publish(Message(t))
<1>1. /\ faults \in 0 .. MaxFaults
      /\ taskStatus \in TaskTable
      /\ taskStatus' = taskStatus => KeepsWord /\ ModestWrite
    BY TableStands DEF WorkInv, StoreInv, EnvironmentOK, ModestWrite
<1>2. /\ NoFault => now' = now /\ faults' = faults
      /\ Fault => now' = now /\ faults' \in 0 .. MaxFaults
    BY <1>1, EnvironmentAssumption DEF NoFault, Fault, environment
<1>3. TryMark(t) => /\ taskStatus' \in TaskTable /\ KeepsWord /\ ModestWrite
                    /\ now' = now /\ faults' \in 0 .. MaxFaults
    BY <1>1, <1>2, StatusMarked DEF TryMark, ModestWrite
<1>4. CASE MarkQueued(t) \/ MarkLate(t)
    BY <1>3, <1>4 DEF MarkQueued, MarkLate
<1>5. CASE PublishTask(t)
    BY <1>1, <1>5 DEF PublishTask, environment
<1>6. CASE PublishFails(t)
    BY <1>1, <1>2, <1>6 DEF PublishFails
<1>7. CASE RecordUnavailable(t)
    <2>1. NeverQueued \in WriteRows /\ NeverQueued.status = "failed"
        BY CallSites DEF NeverQueued, Failed, Row
    <2>2. RecordTaskStatus(t, NeverQueued) =>
              taskStatus' \in TaskTable /\ KeepsWord /\ ModestWrite
        BY <2>1, StatusWritten DEF ModestWrite
    <2> QED BY <1>1, <1>2, <1>7, <2>2 DEF RecordUnavailable
<1>8. CASE RequestDies(t)
    BY <1>1, <1>2, <1>8 DEF RequestDies
<1>9. CASE UNCHANGED Elsewhere
    BY <1>1, <1>9 DEF Elsewhere, environment
<1> QED
    BY <1>4, <1>5, <1>6, <1>7, <1>8, <1>9
    DEF AnyRequestStep, RequestStep, Arrive, GetClaim, InsertClaim,
        ClaimRefused, GetClaimAgain, TakeOver, ReadStatus, MoveClaim

\* The workers do not mind.
LEMMA RequestsKeepWork ==
    ASSUME ServiceInv, NEW t \in Tasks, AsyncRequest(t)
    PROVE  WorkInv' /\ KeepsWord /\ ModestWrite
<1>1. /\ WorkInv /\ DeskInv
      /\ AnyRequestStep(t)
      /\ UNCHANGED store /\ UNCHANGED workers
      /\ submissions' = submissions /\ persist' = persist
    BY DEF ServiceInv, AsyncRequest, AnyRequestStep, store
<1>2. /\ taskStatus' \in TaskTable /\ KeepsWord /\ ModestWrite
      /\ now' = now /\ faults' \in 0 .. MaxFaults
      /\ UNCHANGED broker \/ (req[t].step = "publish" /\ Publish(Message(t)))
    BY <1>1, RequestsWrite
<1>3. ASSUME req[t].step = "publish"
      PROVE  /\ Message(t) \in Messages
             /\ \A a \in accepted : a.task # Message(t).task
    <2>1. req[t] \in ActiveRequests
        BY <1>1, <1>3, RequestsThatArrived
    <2> QED
        BY <1>1, <1>3, <2>1, TaskRowsAssumption
        DEF Message, NewMessage, Messages, ActiveRequests, DeskInv,
            MessagesAreRequests
<1>4. StoreInv'
    BY <1>1, <1>2, HistoriesOK, StoreRests
<1>5. RowsStay /\ Ids' = Ids
    BY <1>1, RowsStand
<1>6. \A u \in Tasks : taskStatus'[u].status = "processed" =>
          taskStatus[u].status = "processed"
    BY <1>2 DEF ModestWrite
<1>7. WorkInv'
    BY <1>1, <1>2, <1>3, <1>4, <1>5, <1>6, OthersMove
<1> QED BY <1>2, <1>7

-----------------------------------------------------------------------------
\* What the requests do to themselves and to the messages.

PublishedSteps == {"mark_late", "record_unavailable", "answered"}

\* A request moves and publishes nothing.
Keeps(t) ==
    /\ accepted' = accepted
    /\ req[t].step \in PublishedSteps => req'[t].step \in PublishedSteps
    /\ req'[t].step # "mark_late"
    /\ req'[t].step = "answered" /\ req'[t].answer = "accepted" =>
          req[t].step = "mark_late"

\* It publishes.
Sends(t) ==
    /\ req[t].step = "publish"
    /\ accepted' = accepted \cup {Message(t)}
    /\ req'[t].step \in PublishedSteps

LEMMA KeepsOrSends ==
    ASSUME DeskInv, NEW t \in Tasks, RequestStep(t)
    PROVE  Keeps(t) \/ Sends(t)
<1> USE DEF PublishedSteps
<1>1. Arrived(t) /\ req[t] \in ActiveRequests /\ req \in [Tasks -> Requests]
    BY DeskIsOK, OneMoves, RequestsThatArrived DEF DeskOK
<1>2. ASSUME NEW step, ReqGoTo(t, step)
      PROVE  req'[t].step = step
    BY <1>1, <1>2 DEF ReqGoTo, ActiveRequests
<1>3. ASSUME NEW step, NEW claim, ReqSees(t, step, claim)
      PROVE  req'[t].step = step
    BY <1>1, <1>3 DEF ReqSees, ActiveRequests
<1>4. ASSUME NEW answer, Answer(t, answer)
      PROVE  req'[t].step = "answered" /\ req'[t].answer = answer
    BY <1>1, <1>4 DEF Answer, ActiveRequests
<1>5. ASSUME NEW claim, BecomeOwner(t, claim)
      PROVE  req'[t].step = "mark"
    BY <1>1, <1>5 DEF BecomeOwner, ActiveRequests
<1>6. CASE \/ GetClaim(t)
           \/ InsertClaim(t)
           \/ ClaimRefused(t)
           \/ GetClaimAgain(t)
           \/ TakeOver(t)
           \/ ReadStatus(t)
           \/ MoveClaim(t)
    <2>1. req[t].step \notin PublishedSteps /\ accepted' = accepted
        BY <1>6
        DEF GetClaim, InsertClaim, ClaimRefused, GetClaimAgain, TakeOver,
            ReadStatus, MoveClaim, Elsewhere, broker
    <2>2. \/ \E step \in {"insert_claim", "get_again", "move_claim"} :
                ReqGoTo(t, step)
          \/ \E step \in {"take_over", "read_status"} :
                \E claim : ReqSees(t, step, claim)
          \/ \E answer \in {"replayed", "mismatch", "in_flight"} :
                Answer(t, answer)
          \/ \E claim : BecomeOwner(t, claim)
        BY <1>6
        DEF GetClaim, InsertClaim, ClaimRefused, GetClaimAgain, TakeOver,
            ReadStatus, MoveClaim, Consider
    <2> QED BY <1>2, <1>3, <1>4, <1>5, <2>1, <2>2 DEF Keeps
<1>7. CASE MarkQueued(t)
    BY <1>2, <1>7 DEF MarkQueued, broker, Keeps
<1>8. CASE PublishTask(t)
    BY <1>2, <1>4, <1>8 DEF PublishTask, Publish, Sends
<1>9. CASE PublishFails(t)
    <2>1. /\ req[t].step = "publish"
          /\ Answer(t, "unavailable") \/ ReqGoTo(t, "record_unavailable")
          /\ \/ accepted' = accepted
             \/ accepted' = accepted \cup {Message(t)}
        BY <1>9 DEF PublishFails, Publish, broker
    <2> QED BY <1>2, <1>4, <2>1 DEF Keeps, Sends
<1>10. CASE RecordUnavailable(t) \/ MarkLate(t) \/ RequestDies(t)
    BY <1>4, <1>10 DEF RecordUnavailable, MarkLate, RequestDies, broker, Keeps
<1> QED BY <1>6, <1>7, <1>8, <1>9, <1>10 DEF RequestStep

LEMMA StepsKeepMessages ==
    ASSUME WorkInv, DeskInv, NEW t \in Tasks, RequestStep(t)
    PROVE  MessagesAreRequests'
<1>1. /\ Arrived(t)
      /\ \A u \in Tasks \ {t} : req'[u] = req[u]
      /\ req'[t].key = req[t].key /\ req'[t].payload = req[t].payload
    BY DeskIsOK, OneMoves
<1>2. Message(t).task = t /\ Message(t).key = req[t].key
      /\ Message(t).payload = req[t].payload
    BY DEF Message, NewMessage
<1>3. Keeps(t) \/ Sends(t)
    BY KeepsOrSends
<1>4. ASSUME NEW m \in accepted'
      PROVE  /\ req'[m.task].step \in PublishedSteps
             /\ req'[m.task].key = m.key
             /\ req'[m.task].payload = m.payload
    <2>1. CASE m \in accepted
        <3>1. /\ m.task \in Tasks
              /\ req[m.task].step \in PublishedSteps
              /\ req[m.task].key = m.key
              /\ req[m.task].payload = m.payload
            BY <2>1
            DEF WorkInv, BrokerOK, Messages, DeskInv, MessagesAreRequests,
                PublishedSteps
        <3> QED BY <1>1, <1>3, <3>1 DEF Keeps, Sends
    <2>2. CASE m \notin accepted
        BY <1>1, <1>2, <1>3, <1>4, <2>2 DEF Keeps, Sends
    <2> QED BY <2>1, <2>2
<1>5. ASSUME NEW u \in Tasks,
             \/ req'[u].step = "mark_late"
             \/ req'[u].step = "answered" /\ req'[u].answer = "accepted"
      PROVE  \E m \in accepted' : m.task = u
    <2>1. CASE u = t /\ Sends(t)
        BY <1>2, <2>1 DEF Sends
    <2>2. CASE u # t \/ Keeps(t)
        <3>1. Accepted(u)
            BY <1>1, <1>5, <2>2 DEF Keeps, DeskInv, MessagesAreRequests
        <3> QED BY <1>3, <3>1 DEF Accepted, Keeps, Sends
    <2> QED BY <1>3, <2>1, <2>2
<1> QED BY <1>4, <1>5 DEF MessagesAreRequests, PublishedSteps, Accepted

\* A request comes in; nobody has published for it.
LEMMA ArrivalsKeepMessages ==
    ASSUME WorkInv, DeskInv, NEW t \in Tasks, NEW key, NEW payload,
           Arrive(t, key, payload)
    PROVE  MessagesAreRequests'
<1>1. /\ req[t].step = "idle"
      /\ req'[t].step \in {"get_claim", "publish"}
      /\ \A u \in Tasks \ {t} : req'[u] = req[u]
    BY DeskIsOK, ArrivalMoves
<1>2. accepted' = accepted
    BY DEF Arrive, Elsewhere, broker
<1>3. \A m \in accepted : m.task \in Tasks \ {t}
    BY <1>1 DEF WorkInv, BrokerOK, Messages, DeskInv, MessagesAreRequests
<1> QED
    BY <1>1, <1>2, <1>3 DEF DeskInv, MessagesAreRequests, Accepted

LEMMA RequestsKeepDesk ==
    ASSUME WorkInv, DeskInv, NEW t \in Tasks, AnyRequestStep(t)
    PROVE  DeskInv' /\ RequestsGrow
<1>1. CASE RequestStep(t)
    <2>1. /\ \A u \in Tasks \ {t} : req'[u] = req[u]
          /\ req'[t].key = req[t].key /\ req'[t].payload = req[t].payload
          /\ Arrived(t) /\ Arrived(t)'
        BY <1>1, DeskIsOK, OneMoves
    <2>2. ClaimsInv' /\ MessagesAreRequests'
        BY <1>1, DeskIsOK, RequestKeepsClaims, StepsKeepMessages
    <2> QED BY <2>1, <2>2 DEF DeskInv, RequestsCarryKeys, RequestsGrow
<1>2. ASSUME NEW key \in RequestKeys, NEW payload \in Payloads,
             Arrive(t, key, payload)
      PROVE  DeskInv' /\ RequestsGrow
    <2>1. /\ ~Arrived(t) /\ req'[t].key = key
          /\ \A u \in Tasks \ {t} : req'[u] = req[u]
        BY <1>2, DeskIsOK, ArrivalMoves
    <2>2. ClaimsInv' /\ MessagesAreRequests'
        BY <1>2, DeskIsOK, ArriveKeepsClaims, ArrivalsKeepMessages,
           FormServiceAssumption
    <2> QED BY <2>1, <2>2 DEF DeskInv, RequestsCarryKeys, RequestsGrow
<1> QED BY <1>1, <1>2 DEF AnyRequestStep

-----------------------------------------------------------------------------
\* What the synchronous requests and the rows owe to others.

\* Neither rows nor synchronous requests change under a request's step.
LEMMA RequestsKeepOthers ==
    ASSUME ServiceInv, ModestWrite, RequestsGrow,
           UNCHANGED store, UNCHANGED sync
    PROVE  /\ SyncInv' /\ RowsHaveOwners'
           /\ ConflictsArrived' /\ ConflictIsReal'
<1>1. submissions' = submissions /\ persist' = persist /\ Ids' = Ids
    BY DEF store, Ids
<1>2. SyncInv' /\ RowsHaveOwners'
    BY <1>1 DEF ServiceInv, SyncInv, SyncSavesItsRequest, RowsHaveOwners
<1>3. ConflictsArrived' /\ ConflictIsReal'
    BY <1>1 DEF ServiceInv, ConflictsArrived, ConflictIsReal, ModestWrite,
                RequestsGrow
<1> QED BY <1>2, <1>3

LEMMA AsyncRequestKeepsService ==
    ASSUME ServiceInv, NEW t \in Tasks, AsyncRequest(t)
    PROVE  ServiceInv'
<1>1. WorkInv' /\ KeepsWord /\ ModestWrite
    BY RequestsKeepWork
<1>2. DeskInv' /\ RequestsGrow
    BY RequestsKeepDesk DEF ServiceInv, AsyncRequest, AnyRequestStep
<1>3. UNCHANGED store /\ UNCHANGED sync
    BY DEF AsyncRequest
<1>4. /\ SyncInv' /\ RowsHaveOwners'
      /\ ConflictsArrived' /\ ConflictIsReal'
    BY <1>1, <1>2, <1>3, RequestsKeepOthers
<1> QED BY <1>1, <1>2, <1>4 DEF ServiceInv

-----------------------------------------------------------------------------
\* The synchronous requests.

SyncSteps == {"check_claim", "check_status", "saving", "answered"}

ActiveSyncCalls ==
    [step : SyncSteps, key : MaybeKeys, payload : Payloads,
     owner : Tasks \cup {NoClaim},
     answer : {"none", "saved", "mismatch", "in_flight", "error"}, row : Nat]

LEMMA SyncCallsAre == SyncCalls = {SyncNotArrived} \cup ActiveSyncCalls
    BY DEF SyncCalls, ActiveSyncCalls, SyncSteps

LEMMA SyncThatArrived ==
    ASSUME SyncInv, NEW s \in SyncRequestIds, sync[s].step # "idle"
    PROVE  /\ sync[s] \in ActiveSyncCalls /\ sync[s].key \in RequestKeys
           /\ sync[s].step = "check_claim" => sync[s].key # NoKey
<1>1. sync[s] \in SyncCalls /\ sync[s] # SyncNotArrived
    BY DEF SyncInv, SyncNotArrived
<1> QED BY <1>1, SyncCallsAre DEF SyncInv, SyncSavesItsRequest

\* One synchronous request moves.
LEMMA SyncMoves ==
    ASSUME SyncInv, RowsStay, NEW s \in SyncRequestIds,
           NEW call \in ActiveSyncCalls, sync' = [sync EXCEPT ![s] = call],
           call.key \in RequestKeys,
           call.step = "check_claim" => call.key # NoKey,
           \A r \in SyncRequestIds \ {s} : persist'[r] = persist[r],
           call.step = "saving" =>
               /\ persist'[s].step # "idle"
               /\ persist'[s].key = call.key
               /\ persist'[s].payload = call.payload
               /\ persist'[s].origin = s,
           call.step = "answered" /\ call.answer = "saved" =>
               /\ call.row \in Ids
               /\ submissions[call.row].born = call.key
               /\ submissions[call.row].payload = call.payload
    PROVE  SyncInv'
<1>1. /\ sync'[s] = call
      /\ \A r \in SyncRequestIds \ {s} : sync'[r] = sync[r]
      /\ sync' \in [SyncRequestIds -> SyncCalls]
    BY SyncCallsAre DEF SyncInv
<1>2. ASSUME NEW r \in SyncRequestIds
      PROVE  /\ sync'[r].step # "idle" => sync'[r].key \in RequestKeys
             /\ sync'[r].step = "check_claim" => sync'[r].key # NoKey
             /\ sync'[r].step = "saving" =>
                   /\ persist'[r].step # "idle"
                   /\ persist'[r].key = sync'[r].key
                   /\ persist'[r].payload = sync'[r].payload
                   /\ persist'[r].origin = r
             /\ sync'[r].step = "answered" /\ sync'[r].answer = "saved" =>
                   /\ sync'[r].row \in Ids'
                   /\ submissions'[sync'[r].row].born = sync'[r].key
                   /\ submissions'[sync'[r].row].payload = sync'[r].payload
    <2>1. CASE r = s
        BY <1>1, <2>1 DEF RowsStay
    <2>2. CASE r # s
        BY <1>1, <2>2 DEF RowsStay, SyncInv, SyncSavesItsRequest
    <2> QED BY <2>1, <2>2
<1> QED BY <1>1, <1>2 DEF SyncInv, SyncSavesItsRequest

\* Somebody else saves.
LEMMA SyncStands ==
    ASSUME SyncInv, RowsStay, sync' = sync,
           \A r \in SyncRequestIds : persist'[r] = persist[r]
    PROVE  SyncInv'
    BY DEF SyncInv, SyncSavesItsRequest, RowsStay

\* What a synchronous request does to the store.
SyncWrites(s) ==
    /\ StoreInv'
    /\ RowsStay
    /\ \A c \in Callers \ {s} : persist'[c] = persist[c]
    /\ \A id \in Ids' \ Ids : /\ submissions'[id].origin = s
                             /\ sync[s].step = "saving"
                             /\ submissions'[id].born = sync[s].key
                             /\ submissions'[id].payload = sync[s].payload

\* Once it has arrived, it keeps what it was sent.
SyncsGrow ==
    \A r \in SyncRequestIds : sync[r].step # "idle" =>
        /\ sync'[r].step # "idle"
        /\ sync'[r].key = sync[r].key
        /\ sync'[r].payload = sync[r].payload

\* It begins to save, or only reads.
LEMMA SyncStarts ==
    ASSUME StoreInv, NEW s \in SyncRequestIds,
           NEW key \in RequestKeys, NEW payload \in Payloads,
           \/ StartPersist(s, key, payload, s)
           \/ UNCHANGED persist,
           UNCHANGED <<submissions, environment>>
    PROVE  /\ SyncWrites(s)
           /\ StartPersist(s, key, payload, s) =>
                 /\ persist'[s].step # "idle"
                 /\ persist'[s].key = key
                 /\ persist'[s].payload = payload
                 /\ persist'[s].origin = s
<1>1. /\ s \in Callers /\ s \in Origins
      /\ key \in MaybeKeys
      /\ persist \in [Callers -> PersistCalls]
      /\ submissions' = submissions
      /\ now' = now /\ faults' = faults
      /\ faults \in 0 .. MaxFaults
    BY SyncRequestsAssumption, FormServiceAssumption
    DEF StoreInv, StoreOK, EnvironmentOK, environment
<1>2. RowsStay /\ Ids' = Ids
    BY <1>1, RowsStand
<1>3. CASE StartPersist(s, key, payload, s)
    <2>1. StoreInv'
        BY <1>1, <1>3, StartKeepsStore
    <2> QED BY <1>1, <1>2, <1>3, <2>1 DEF SyncWrites, StartPersist
<1>4. CASE UNCHANGED persist /\ ~StartPersist(s, key, payload, s)
    <2>1. StoreInv'
        BY <1>1, <1>4, StoreRests DEF store
    <2> QED BY <1>1, <1>2, <1>4, <2>1 DEF SyncWrites
<1> QED BY <1>3, <1>4

LEMMA ArriveSyncKeeps ==
    ASSUME StoreInv, SyncInv, NEW s \in SyncRequestIds,
           NEW key \in RequestKeys, NEW payload \in Payloads,
           ArriveSync(s, key, payload)
    PROVE  SyncWrites(s) /\ SyncInv'
<1> DEFINE call == [step |-> IF key = NoKey THEN "saving" ELSE "check_claim",
                    key |-> key, payload |-> payload, owner |-> NoClaim,
                    answer |-> "none", row |-> 0]
<1>1. /\ sync' = [sync EXCEPT ![s] = call]
      /\ IF key = NoKey THEN StartPersist(s, key, payload, s)
                        ELSE UNCHANGED persist
      /\ UNCHANGED <<submissions, environment>>
    BY DEF ArriveSync
<1>2. /\ call \in ActiveSyncCalls
      /\ call.key = key /\ call.payload = payload
      /\ call.step = "saving" => key = NoKey
      /\ call.step = "check_claim" => call.key # NoKey
      /\ call.step # "answered"
    BY FormServiceAssumption DEF ActiveSyncCalls, SyncSteps
<1> HIDE DEF call
<1>3. /\ SyncWrites(s)
      /\ call.step = "saving" =>
            /\ persist'[s].step # "idle"
            /\ persist'[s].key = call.key
            /\ persist'[s].payload = call.payload
            /\ persist'[s].origin = s
    BY <1>1, <1>2, SyncStarts
<1>4. RowsStay /\ \A r \in SyncRequestIds \ {s} : persist'[r] = persist[r]
    BY <1>3, SyncRequestsAssumption DEF SyncWrites
<1>5. SyncInv'
    BY <1>1, <1>2, <1>3, <1>4, SyncMoves
<1> QED BY <1>3, <1>5

LEMMA SyncAnswered ==
    ASSUME SyncInv, NEW s \in SyncRequestIds, sync[s].step # "idle",
           NEW answer \in {"none", "saved", "mismatch", "in_flight", "error"},
           SyncAnswer(s, answer)
    PROVE  LET call == [sync[s] EXCEPT !.step = "answered", !.answer = answer,
                                       !.owner = NoClaim]
           IN  /\ call \in ActiveSyncCalls
               /\ call.step = "answered"
               /\ call.answer = answer
               /\ call.key = sync[s].key
               /\ sync' = [sync EXCEPT ![s] = call]
<1>1. sync[s] \in ActiveSyncCalls /\ sync \in [SyncRequestIds -> SyncCalls]
    BY SyncThatArrived DEF SyncInv
<1> DEFINE half == [sync[s] EXCEPT !.step = "answered", !.answer = answer]
<1>2. /\ half \in ActiveSyncCalls
      /\ half.step = "answered"
      /\ half.answer = answer
      /\ half.key = sync[s].key
    BY <1>1 DEF ActiveSyncCalls, SyncSteps
<1>3. [sync[s] EXCEPT !.step = "answered", !.answer = answer,
                      !.owner = NoClaim] = [half EXCEPT !.owner = NoClaim]
    OBVIOUS
<1>4. sync' = [sync EXCEPT ![s] =
                 [sync[s] EXCEPT !.step = "answered", !.answer = answer,
                                 !.owner = NoClaim]]
    BY <1>1 DEF SyncAnswer, ActiveSyncCalls
<1> HIDE DEF half
<1> QED BY <1>2, <1>3, <1>4 DEF ActiveSyncCalls

LEMMA SyncBegins ==
    ASSUME SyncInv, NEW s \in SyncRequestIds, sync[s].step # "idle",
           SyncSave(s)
    PROVE  LET call == [sync[s] EXCEPT !.step = "saving", !.owner = NoClaim]
           IN  /\ call \in ActiveSyncCalls
               /\ call.step = "saving"
               /\ call.key = sync[s].key
               /\ call.payload = sync[s].payload
               /\ sync' = [sync EXCEPT ![s] = call]
<1>1. sync[s] \in ActiveSyncCalls /\ sync \in [SyncRequestIds -> SyncCalls]
    BY SyncThatArrived DEF SyncInv
<1>2. sync' = [sync EXCEPT ![s] =
                 [sync[s] EXCEPT !.step = "saving", !.owner = NoClaim]]
    BY <1>1 DEF SyncSave, ActiveSyncCalls
<1> QED BY <1>1, <1>2 DEF ActiveSyncCalls, SyncSteps

\* It is refused, or fails.
LEMMA SyncIsRefused ==
    ASSUME SyncInv, NEW s \in SyncRequestIds, sync[s].step # "idle",
           NEW answer \in {"mismatch", "in_flight", "error"},
           SyncAnswer(s, answer), SyncWrites(s)
    PROVE  SyncInv'
<1> DEFINE call == [sync[s] EXCEPT !.step = "answered", !.answer = answer,
                                   !.owner = NoClaim]
<1>0. answer \in {"none", "saved", "mismatch", "in_flight", "error"}
    OBVIOUS
<1>1. /\ call \in ActiveSyncCalls
      /\ call.step = "answered"
      /\ call.answer = answer
      /\ call.key = sync[s].key
      /\ sync' = [sync EXCEPT ![s] = call]
    BY <1>0, SyncAnswered
<1>2. sync[s].key \in RequestKeys
    BY SyncThatArrived
<1> HIDE DEF call
<1>3. RowsStay /\ \A r \in SyncRequestIds \ {s} : persist'[r] = persist[r]
    BY SyncRequestsAssumption DEF SyncWrites
<1> QED BY <1>1, <1>2, <1>3, SyncMoves

LEMMA CheckKeeps ==
    ASSUME StoreInv, SyncInv, DeskInv, NEW s \in SyncRequestIds,
           CheckClaim(s) \/ CheckStatus(s)
    PROVE  SyncWrites(s) /\ SyncInv'
<1>1. /\ sync[s].step \in {"check_claim", "check_status"}
      /\ UNCHANGED <<submissions, environment>>
    BY DEF CheckClaim, CheckStatus
<1>2. /\ sync[s] \in ActiveSyncCalls
      /\ sync[s].key \in RequestKeys
      /\ sync[s].payload \in Payloads
    BY <1>1, SyncThatArrived DEF ActiveSyncCalls
<1>3. CASE SyncSave(s)
    <2> DEFINE call == [sync[s] EXCEPT !.step = "saving", !.owner = NoClaim]
    <2>1. /\ call \in ActiveSyncCalls
          /\ call.step = "saving"
          /\ call.key = sync[s].key
          /\ call.payload = sync[s].payload
          /\ sync' = [sync EXCEPT ![s] = call]
        BY <1>1, <1>3, SyncBegins
    <2> HIDE DEF call
    <2>2. StartPersist(s, sync[s].key, sync[s].payload, s)
        BY <1>3 DEF SyncSave
    <2>3. /\ SyncWrites(s)
          /\ persist'[s].step # "idle"
          /\ persist'[s].key = call.key
          /\ persist'[s].payload = call.payload
          /\ persist'[s].origin = s
        BY <1>1, <1>2, <2>1, <2>2, SyncStarts
    <2>4. RowsStay /\ \A r \in SyncRequestIds \ {s} : persist'[r] = persist[r]
        BY <2>3, SyncRequestsAssumption DEF SyncWrites
    <2>5. SyncInv'
        BY <1>2, <2>1, <2>3, <2>4, SyncMoves
    <2> QED BY <2>3, <2>5
<1>4. ASSUME UNCHANGED persist
      PROVE  SyncWrites(s)
    BY <1>1, <1>2, <1>4, SyncStarts
<1>5. CASE /\ SyncAnswer(s, "mismatch") \/ SyncAnswer(s, "in_flight")
           /\ UNCHANGED persist
    BY <1>1, <1>4, <1>5, SyncIsRefused
<1>6. CASE /\ sync' = [sync EXCEPT ![s].step = "check_status",
                                  ![s].owner = claims[sync[s].key].task]
           /\ claims[sync[s].key] # NoClaim
           /\ sync[s].step = "check_claim"
           /\ sync[s].key # NoKey
           /\ UNCHANGED persist
    <2> DEFINE call == [sync[s] EXCEPT !.step = "check_status",
                                       !.owner = claims[sync[s].key].task]
    <2>1. claims[sync[s].key].task \in Tasks
        BY <1>2, <1>6, DeskIsOK, FormServiceAssumption DEF DeskOK, ClaimRows
    <2>2. /\ call \in ActiveSyncCalls
          /\ call.step = "check_status"
          /\ call.key = sync[s].key
          /\ sync' = [sync EXCEPT ![s] = call]
        BY <1>2, <1>6, <2>1 DEF ActiveSyncCalls, SyncSteps, SyncInv
    <2> HIDE DEF call
    <2>3. RowsStay /\ \A r \in SyncRequestIds \ {s} : persist'[r] = persist[r]
        BY <1>4, <1>6, SyncRequestsAssumption DEF SyncWrites
    <2>4. SyncInv'
        BY <1>2, <2>2, <2>3, SyncMoves
    <2> QED BY <1>4, <1>6, <2>4
<1>7. sync[s].step = "check_claim" => sync[s].key # NoKey
    BY <1>1, SyncThatArrived
<1>8. CheckClaim(s) =>
          \/ SyncSave(s)
          \/ /\ UNCHANGED persist
             /\ SyncAnswer(s, "mismatch")
          \/ /\ sync' = [sync EXCEPT ![s].step = "check_status",
                                     ![s].owner = claims[sync[s].key].task]
             /\ claims[sync[s].key] # NoClaim
             /\ sync[s].step = "check_claim"
             /\ UNCHANGED persist
    BY DEF CheckClaim
<1>9. CheckStatus(s) =>
          \/ SyncSave(s)
          \/ /\ UNCHANGED persist
             /\ SyncAnswer(s, "in_flight")
    BY DEF CheckStatus
<1> QED
    BY <1>3, <1>5, <1>6, <1>7, <1>8, <1>9

\* A call that is saving does so for its request.
LEMMA SyncSaving ==
    ASSUME StoreInv, SyncInv, NEW s \in SyncRequestIds,
           sync[s].step = "saving"
    PROVE  /\ s \in Callers
           /\ sync[s] \in ActiveSyncCalls
           /\ sync[s].key \in RequestKeys
           /\ persist[s].step # "idle"
           /\ persist[s].key = sync[s].key
           /\ persist[s].payload = sync[s].payload
           /\ persist[s].origin = s
           /\ faults \in 0 .. MaxFaults
    BY SyncThatArrived, SyncRequestsAssumption
    DEF SyncInv, SyncSavesItsRequest, StoreInv, EnvironmentOK

LEMMA SaveStepKeeps ==
    ASSUME StoreInv, SyncInv, NEW s \in SyncRequestIds, SyncSaveStep(s)
    PROVE  SyncWrites(s) /\ SyncInv'
<1>1. /\ sync[s].step = "saving"
      /\ PersistStep(s)
      /\ sync' = sync
    BY DEF SyncSaveStep
<1>2. /\ s \in Callers
      /\ sync[s] \in ActiveSyncCalls
      /\ sync[s].key \in RequestKeys
      /\ persist[s].key = sync[s].key
      /\ persist[s].payload = sync[s].payload
      /\ persist[s].origin = s
    BY <1>1, SyncSaving
<1>3. StoreInv'
    BY <1>1, <1>2, PersistStepKeepsStore
<1>4. /\ RowsStay
      /\ \A id \in Ids' \ Ids :
            /\ submissions'[id].born = persist[s].key
            /\ submissions'[id].payload = persist[s].payload
            /\ submissions'[id].origin = persist[s].origin
      /\ \A c \in Callers \ {s} : persist'[c] = persist[c]
      /\ persist'[s].step # "idle"
      /\ persist'[s].key = persist[s].key
      /\ persist'[s].payload = persist[s].payload
      /\ persist'[s].origin = persist[s].origin
    BY <1>1, <1>2, PersistStepAdds DEF RowsStay
<1>5. SyncWrites(s)
    BY <1>1, <1>2, <1>3, <1>4 DEF SyncWrites
<1>6. SyncInv'
    BY <1>1, <1>2, <1>4, SyncRequestsAssumption
    DEF SyncInv, SyncSavesItsRequest, RowsStay
<1> QED BY <1>5, <1>6

\* The call is over, one way or another.
LEMMA SyncLeaves ==
    ASSUME StoreInv, NEW s \in SyncRequestIds,
           persist' = [persist EXCEPT ![s] = NotSaving],
           submissions' = submissions, now' = now,
           faults' \in 0 .. MaxFaults
    PROVE  SyncWrites(s)
<1>1. s \in Callers /\ persist \in [Callers -> PersistCalls]
    BY SyncRequestsAssumption DEF StoreInv, StoreOK
<1>2. StoreInv'
    BY <1>1, LeaveKeepsStore
<1>3. RowsStay /\ Ids' = Ids
    BY RowsStand
<1> QED BY <1>1, <1>2, <1>3 DEF SyncWrites

LEMMA SavedKeeps ==
    ASSUME StoreInv, SyncInv, NEW s \in SyncRequestIds, SyncSaved(s)
    PROVE  SyncWrites(s) /\ SyncInv'
<1> DEFINE row == persist[s].row
           call == [sync[s] EXCEPT !.step = "answered", !.answer = "saved",
                                   !.row = row]
<1>1. /\ sync[s].step = "saving"
      /\ persist[s].step = "saved"
      /\ persist' = [persist EXCEPT ![s] = NotSaving]
      /\ submissions' = submissions /\ now' = now /\ faults' = faults
    BY DEF SyncSaved, LeavePersist, environment
<1>2. /\ s \in Callers
      /\ sync[s] \in ActiveSyncCalls
      /\ sync[s].key \in RequestKeys
      /\ persist[s].key = sync[s].key
      /\ persist[s].payload = sync[s].payload
      /\ faults \in 0 .. MaxFaults
    BY <1>1, SyncSaving
<1>3. SyncWrites(s)
    BY <1>1, <1>2, SyncLeaves
<1>4. /\ row \in Ids /\ row \in Nat
      /\ submissions[row].born = sync[s].key
      /\ submissions[row].payload = sync[s].payload
    BY <1>1, <1>2 DEF StoreInv, StoreOK, SavedRowIsMine, Ids
<1>5. sync' = [sync EXCEPT ![s] = call]
    BY <1>2 DEF SyncSaved, ActiveSyncCalls, SyncInv
<1> HIDE DEF row
<1>6. /\ call \in ActiveSyncCalls
      /\ call.step = "answered"
      /\ call.row = row
      /\ call.key = sync[s].key
      /\ call.payload = sync[s].payload
    BY <1>2, <1>4 DEF ActiveSyncCalls, SyncSteps
<1> HIDE DEF call
<1>7. RowsStay /\ \A r \in SyncRequestIds \ {s} : persist'[r] = persist[r]
    BY <1>3, SyncRequestsAssumption DEF SyncWrites
<1>8. SyncInv'
    BY <1>2, <1>4, <1>5, <1>6, <1>7, SyncMoves
<1> QED BY <1>3, <1>8

LEMMA RefusedOrDeadKeeps ==
    ASSUME StoreInv, SyncInv, NEW s \in SyncRequestIds,
           SyncRefused(s) \/ SyncDies(s)
    PROVE  SyncWrites(s) /\ SyncInv'
<1>1. /\ sync[s].step # "idle"
      /\ SyncAnswer(s, "mismatch") \/ SyncAnswer(s, "error")
      /\ persist' = [persist EXCEPT ![s] = NotSaving]
      /\ submissions' = submissions
    BY DEF SyncRefused, SyncDies, LeavePersist
<1>2. now' = now /\ faults' \in 0 .. MaxFaults
    BY EnvironmentAssumption
    DEF SyncRefused, SyncDies, environment, Fault, StoreInv, EnvironmentOK
<1>3. SyncWrites(s)
    BY <1>1, <1>2, SyncLeaves
<1>4. SyncInv'
    BY <1>1, <1>3, SyncIsRefused
<1> QED BY <1>3, <1>4

LEMMA SyncKeeps ==
    ASSUME ServiceInv, NEW s \in SyncRequestIds, SyncRequest(s)
    PROVE  SyncWrites(s) /\ SyncInv'
<1>1. StoreInv /\ SyncInv /\ DeskInv
    BY DEF ServiceInv, WorkInv
<1>2. CASE CheckClaim(s) \/ CheckStatus(s)
    BY <1>1, <1>2, CheckKeeps
<1>3. CASE SyncSaveStep(s)
    BY <1>1, <1>3, SaveStepKeeps
<1>4. CASE SyncSaved(s)
    BY <1>1, <1>4, SavedKeeps
<1>5. CASE SyncRefused(s) \/ SyncDies(s)
    BY <1>1, <1>5, RefusedOrDeadKeeps
<1>6. CASE \E key \in RequestKeys, payload \in Payloads :
               ArriveSync(s, key, payload)
    BY <1>1, <1>6, ArriveSyncKeeps
<1> QED
    BY <1>2, <1>3, <1>4, <1>5, <1>6 DEF SyncRequest, SyncStep

LEMMA SyncsGrowWhenOneMoves ==
    ASSUME SyncInv, NEW s \in SyncRequestIds, SyncRequest(s)
    PROVE  SyncsGrow
<1>1. sync \in [SyncRequestIds -> SyncCalls]
    BY DEF SyncInv
<1>2. sync[s].step # "idle" => sync[s] \in ActiveSyncCalls
    BY SyncThatArrived
<1>3. CASE sync[s].step = "idle"
    <2>1. \A r \in SyncRequestIds \ {s} : sync'[r] = sync[r]
        BY <1>1, <1>3
        DEF SyncRequest, SyncStep, ArriveSync, CheckClaim, CheckStatus,
            SyncSaveStep, SyncSaved, SyncRefused, SyncDies
    <2> QED BY <1>3, <2>1 DEF SyncsGrow
<1>4. CASE sync[s].step # "idle"
    <2>1. \/ sync' = sync
          \/ SyncSave(s)
          \/ \E answer \in {"mismatch", "in_flight", "error"} :
                SyncAnswer(s, answer)
          \/ sync' = [sync EXCEPT ![s].step = "check_status",
                                  ![s].owner = claims[sync[s].key].task]
          \/ sync' = [sync EXCEPT ![s].step = "answered",
                                  ![s].answer = "saved",
                                  ![s].row = persist[s].row]
        BY <1>4
        DEF SyncRequest, SyncStep, ArriveSync, CheckClaim, CheckStatus,
            SyncSaveStep, SyncSaved, SyncRefused, SyncDies
    <2>2. /\ sync'[s].step # "idle"
          /\ sync'[s].key = sync[s].key
          /\ sync'[s].payload = sync[s].payload
          /\ \A r \in SyncRequestIds \ {s} : sync'[r] = sync[r]
        <3>1. sync[s] \in ActiveSyncCalls
            BY <1>2, <1>4
        <3> QED BY <1>1, <1>4, <2>1, <3>1
                DEF SyncSave, SyncAnswer, ActiveSyncCalls
    <2> QED BY <2>2 DEF SyncsGrow
<1> QED BY <1>3, <1>4

-----------------------------------------------------------------------------
\* Rows and conflicts, whoever saves.

LEMMA RowsOwned ==
    ASSUME RowsHaveOwners, RowsStay, SyncsGrow,
           \A id \in Ids' \ Ids :
               \/ submissions'[id].origin \in Tasks
               \/ /\ submissions'[id].origin \in SyncRequestIds
                  /\ LET call == sync[submissions'[id].origin]
                     IN  /\ call.step # "idle"
                         /\ submissions'[id].born = call.key
                         /\ submissions'[id].payload = call.payload
    PROVE  RowsHaveOwners'
    BY DEF RowsHaveOwners, RowsStay, SyncsGrow

\* A row under a key that no request carries is a task's.
LEMMA RowsOfSyncRequests ==
    ASSUME SyncInv, RowsHaveOwners, NEW id \in Ids,
           submissions[id].born \notin RequestKeys
    PROVE  submissions[id].origin \in Tasks
    BY SyncThatArrived DEF RowsHaveOwners

\* The row that refutes a task is there, and is somebody else's.
Refuted(t) ==
    \E id \in Ids : /\ submissions[id].born = req[t].key
                    /\ submissions[id].payload # req[t].payload
                    /\ submissions[id].origin # t

LEMMA ConflictsStay ==
    ASSUME ConflictsArrived, ConflictIsReal, RowsStay, req' = req,
           \A t \in Tasks : taskStatus'[t].status = "conflict" =>
               \/ taskStatus[t].status = "conflict"
               \/ req[t].step # "idle" /\ Refuted(t)
    PROVE  ConflictsArrived' /\ ConflictIsReal'
    BY DEF ConflictsArrived, ConflictIsReal, RowsStay, Refuted

\* Time passes between the steps of requests and workers only.
LEMMA ClockStandsForSyncs ==
    ASSUME ServiceInv, NEW s \in SyncRequestIds, SyncRequest(s)
    PROVE  now' = now
<1>1. s \in Callers /\ StoreInv
    BY SyncRequestsAssumption, FormServiceAssumption DEF ServiceInv, WorkInv
<1>2. CASE SyncSaveStep(s)
    BY <1>1, <1>2, PersistStepAdds DEF SyncSaveStep
<1>3. CASE ~SyncSaveStep(s)
    BY <1>3
    DEF SyncRequest, SyncStep, ArriveSync, CheckClaim, CheckStatus, SyncSaved,
        SyncRefused, SyncDies, Fault, environment
<1> QED BY <1>2, <1>3

LEMMA SyncRequestKeepsService ==
    ASSUME ServiceInv, NEW s \in SyncRequestIds, SyncRequest(s)
    PROVE  ServiceInv'
<1>1. /\ WorkInv /\ DeskInv /\ SyncInv /\ RowsHaveOwners
      /\ ConflictsArrived /\ ConflictIsReal
    BY DEF ServiceInv
<1>2. /\ taskStatus' = taskStatus /\ UNCHANGED broker /\ UNCHANGED workers
      /\ claims' = claims /\ req' = req /\ accepted' = accepted
    BY DEF SyncRequest, broker, desk
<1>3. SyncWrites(s) /\ SyncInv'
    BY SyncKeeps
<1>4. s \notin Tasks /\ s \notin Workers /\ Workers \subseteq Callers
    BY FormServiceAssumption, AsyncWorkerAssumption
<1>5. /\ StoreInv' /\ RowsStay
      /\ \A w \in Workers : persist'[w] = persist[w]
      /\ \A id \in Ids' \ Ids : submissions'[id].origin \notin Tasks
    BY <1>3, <1>4 DEF SyncWrites
<1>6. /\ taskStatus' \in TaskTable /\ KeepsWord
      /\ \A u \in Tasks : taskStatus'[u].status = "processed" =>
            taskStatus[u].status = "processed"
    BY <1>1, <1>2, TableStands
<1>7. WorkInv'
    BY <1>1, <1>2, <1>5, <1>6, OthersMove
<1>8. DeskInv'
    <2>1. now \in Nat /\ now' = now
        BY <1>1, EnvironmentAssumption, ClockStandsForSyncs
        DEF WorkInv, StoreInv, EnvironmentOK
    <2> QED BY <1>1, <1>2, <1>6, <1>7, <2>1, DeskStands
<1>9. RowsHaveOwners'
    <2>1. SyncsGrow
        BY <1>1, SyncsGrowWhenOneMoves
    <2> QED BY <1>1, <1>3, <2>1, RowsOwned DEF SyncWrites
<1>10. ConflictsArrived' /\ ConflictIsReal'
    BY <1>1, <1>2, <1>5, ConflictsStay
<1> QED BY <1>3, <1>7, <1>8, <1>9, <1>10 DEF ServiceInv

-----------------------------------------------------------------------------
\* The workers.

LEMMA WritesItsStatus ==
    ASSUME WorkInv, NEW t \in Tasks, NEW status, NEW submission, NEW error,
           NEW retries, TryRecord(t, Row(status, submission, error, retries))
    PROVE  \A u \in Tasks :
               \/ taskStatus'[u].status = taskStatus[u].status
               \/ u = t /\ taskStatus'[u].status = status
<1> DEFINE write == Row(status, submission, error, retries)
<1>1. taskStatus \in TaskTable
    BY DEF WorkInv
<1>2. Recorded(taskStatus[t], write).status \in {taskStatus[t].status, status}
    BY DEF Recorded, Updated, Inserted, Row
<1> HIDE DEF write
<1>3. CASE RecordTaskStatus(t, write)
    <2>1. \A u \in Tasks : taskStatus'[u] =
              IF u = t THEN Recorded(taskStatus[t], write) ELSE taskStatus[u]
        BY <1>1, <1>3 DEF RecordTaskStatus, TaskTable
    <2> QED BY <1>2, <2>1
<1>4. CASE taskStatus' = taskStatus
    BY <1>4
<1> QED BY <1>3, <1>4 DEF TryRecord, write

\* Whom a worker puts in conflict.
LEMMA ConflictHasACause ==
    ASSUME WorkInv, NEW w \in Workers, WorkerMayMove(w),
           NEW u \in Tasks, taskStatus'[u].status = "conflict",
           taskStatus[u].status # "conflict"
    PROVE  /\ worker[w].step = "saving"
           /\ persist[w].step = "mismatch"
           /\ u = worker[w].message.task
<1> DEFINE m == worker[w].message
<1>1. taskStatus' # taskStatus
    OBVIOUS
<1>2. BeginTask(w) \/ RecordProcessed(w) \/ RecordRetrying(w) \/ RecordFailure(w)
    BY <1>1
    DEF WorkerMayMove, WorkerStep, Deliver, DatabaseNotReady, SaveStep, Retry,
        RetryLost, Ack, Crash, CrashWith, Redeliver
<1>3. worker[w].step # "idle"
    BY <1>2 DEF BeginTask, RecordProcessed, RecordRetrying, RecordFailure
<1>4. m.task \in Tasks
    BY <1>3, BusyWorker
<1>5. CASE BeginTask(w)
    <2>1. TryRecord(m.task, Row("processing", NoSubmission, NoError, m.retries))
        BY <1>5 DEF BeginTask, Processing
    <2> QED BY <1>4, <2>1, WritesItsStatus
<1>6. CASE RecordProcessed(w)
    <2>1. TryRecord(m.task,
                    Row("processed", persist[w].row, NoError, m.retries))
        BY <1>6 DEF RecordProcessed, Processed
    <2> QED BY <1>4, <2>1, WritesItsStatus
<1>7. CASE RecordRetrying(w)
    <2>1. TryRecord(m.task,
                    Row("retrying", NoSubmission, "OperationalError", m.retries))
        BY <1>7 DEF RecordRetrying, Retrying
    <2> QED BY <1>4, <2>1, WritesItsStatus
<1>8. CASE RecordFailure(w)
    <2>1. worker[w].step = "saving" /\ TryRecord(m.task, Verdict(w))
        BY <1>8 DEF RecordFailure
    <2>2. CASE persist[w].step = "mismatch"
        <3>1. TryRecord(m.task, Row("conflict", NoSubmission,
                                    "IdempotencyKeyMismatch", m.retries))
            BY <2>1, <2>2 DEF Verdict, Conflict
        <3> QED BY <1>4, <2>1, <2>2, <3>1, WritesItsStatus
    <2>3. CASE persist[w].step # "mismatch"
        <3>1. \/ Verdict(w) = Row("failed", NoSubmission, "IntegrityError",
                                  m.retries)
              \/ Verdict(w) = Row("failed", NoSubmission, "OperationalError",
                                  m.retries)
            BY <2>3 DEF Verdict, Failed
        <3> QED BY <1>4, <2>1, <3>1, WritesItsStatus
    <2> QED BY <2>2, <2>3
<1> QED BY <1>2, <1>5, <1>6, <1>7, <1>8

\* A worker is refused for a row that another request saved under the key of
\* its request.  No row is saved under the id of a task by anyone else, so a
\* task without a key is never refused.
LEMMA RefusalIsReal ==
    ASSUME ServiceInv, NEW w \in Workers, worker[w].step = "saving",
           persist[w].step = "mismatch"
    PROVE  LET t == worker[w].message.task
           IN  req[t].step # "idle" /\ Refuted(t)
<1> DEFINE m == worker[w].message
           t == m.task
<1>1. /\ WorkInv /\ StoreInv /\ DeskInv /\ SyncInv /\ RowsHaveOwners
      /\ OneMessagePerTask /\ TasksSaveTheirMessage
    BY DEF ServiceInv, WorkInv
<1>2. PICK a \in accepted : IsCopyOf(m, a)
    BY <1>1, BusyWorker
<1>3. w \in Callers /\ t \in Tasks
    BY <1>1, BusyWorker
<1>4. persist[w].key = EffectiveKey(m) /\ persist[w].payload = m.payload
    BY <1>1 DEF WorkInv, WorkersSaveTheirMessage
<1>5. PICK id \in Ids : /\ submissions[id].born = EffectiveKey(m)
                       /\ submissions[id].payload # m.payload
    BY <1>1, <1>3, <1>4 DEF StoreInv, MismatchIsReal
<1>6. \A b \in accepted : /\ req[b.task].step # "idle"
                         /\ req[b.task].key = b.key
                         /\ req[b.task].payload = b.payload
    BY <1>1 DEF DeskInv, MessagesAreRequests
<1>7. a.task = t /\ a.key = m.key /\ a.payload = m.payload
    BY <1>2 DEF IsCopyOf
<1>8. ASSUME NEW b \in accepted, b.task = submissions[id].origin,
             IsRowOf(submissions[id], b)
      PROVE  /\ b.task # t
             /\ EffectiveKey(m) = EffectiveKey(b)
    <2>1. b # a
        BY <1>5, <1>7, <1>8 DEF IsRowOf
    <2> QED BY <1>1, <1>5, <1>7, <1>8, <2>1 DEF OneMessagePerTask, IsRowOf
<1>9. submissions[id].origin # t
    BY <1>1, <1>3, <1>8 DEF TasksSaveTheirMessage
<1>10. m.key # NoKey
    <2> SUFFICES ASSUME m.key = NoKey PROVE FALSE
        OBVIOUS
    <2>1. submissions[id].born = t
        BY <1>5 DEF EffectiveKey
    <2>2. submissions[id].born \notin RequestKeys
        BY <1>3, <2>1, FormServiceAssumption
    <2>3. submissions[id].origin \in Tasks
        BY <1>1, <2>2, RowsOfSyncRequests
    <2>4. PICK b \in accepted : /\ b.task = submissions[id].origin
                               /\ IsRowOf(submissions[id], b)
        BY <1>1, <2>3 DEF TasksSaveTheirMessage
    <2>5. b.task # t /\ EffectiveKey(b) = t
        BY <1>8, <2>4 DEF EffectiveKey
    <2>6. b.key = t
        BY <2>5 DEF EffectiveKey
    <2>7. req[b.task].key \in RequestKeys
        BY <1>1, <1>6, <2>3, <2>4
        DEF DeskInv, RequestsCarryKeys
    <2> QED BY <1>3, <1>6, <2>6, <2>7, FormServiceAssumption
<1>11. EffectiveKey(m) = req[t].key /\ m.payload = req[t].payload
    BY <1>6, <1>7, <1>10 DEF EffectiveKey
<1>12. req[t].step # "idle"
    BY <1>6, <1>7
<1> QED BY <1>5, <1>9, <1>11, <1>12 DEF Refuted

LEMMA WorkerLeavesOthers ==
    ASSUME WorkInv, NEW w \in Workers, WorkerMayMove(w)
    PROVE  \A c \in Callers \ {w} : persist'[c] = persist[c]
<1>1. w \in Callers /\ StoreInv /\ persist \in [Callers -> PersistCalls]
    BY AsyncWorkerAssumption DEF WorkInv, StoreInv, StoreOK
<1>2. CASE SaveStep(w)
    BY <1>1, <1>2, PersistStepAdds DEF SaveStep
<1>3. CASE Deliver(w) \/ Retry(w) \/ RetryLost(w) \/ Ack(w) \/ Redeliver(w)
    <2>1. persist' = persist
        BY <1>3 DEF Deliver, Retry, RetryLost, Ack, Redeliver, store
    <2> QED BY <2>1
<1>4. CASE \/ BeginTask(w) \/ DatabaseNotReady(w) \/ RecordProcessed(w)
           \/ RecordRetrying(w) \/ RecordFailure(w) \/ Crash(w)
    <2>1. \E call : persist' = [persist EXCEPT ![w] = call]
        BY <1>4
        DEF BeginTask, DatabaseNotReady, RecordProcessed, RecordRetrying,
            RecordFailure, Crash, CrashWith, StartPersist, LeavePersist
    <2> QED BY <1>1, <2>1
<1> QED BY <1>2, <1>3, <1>4 DEF WorkerMayMove, WorkerStep

\* The same of a worker.
LEMMA ClockStandsForWorkers ==
    ASSUME ServiceInv, NEW w \in Workers, WorkerRuns(w)
    PROVE  now' = now
<1>1. w \in Callers /\ StoreInv
    BY AsyncWorkerAssumption DEF ServiceInv, WorkInv
<1>2. CASE SaveStep(w)
    BY <1>1, <1>2, PersistStepAdds DEF SaveStep
<1>3. ASSUME NEW t, NEW write, TryRecord(t, write)
      PROVE  now' = now
    BY <1>3 DEF TryRecord, NoFault, Fault, environment
<1>4. CASE BeginTask(w) \/ RecordProcessed(w) \/ RecordRetrying(w)
           \/ RecordFailure(w)
    BY <1>3, <1>4
    DEF BeginTask, RecordProcessed, RecordRetrying, RecordFailure
<1>5. CASE \/ Deliver(w) \/ DatabaseNotReady(w) \/ Retry(w) \/ RetryLost(w)
           \/ Ack(w) \/ Crash(w) \/ Redeliver(w)
    BY <1>5
    DEF Deliver, DatabaseNotReady, Retry, RetryLost, Ack, Crash, CrashWith,
        Redeliver, Fault, environment
<1> QED BY <1>2, <1>4, <1>5 DEF WorkerRuns, WorkerStep

LEMMA WorkerRunsKeepsService ==
    ASSUME UnboundedIds, ServiceInv, NEW w \in Workers, WorkerRuns(w)
    PROVE  ServiceInv'
<1>1. /\ WorkInv /\ DeskInv /\ SyncInv /\ RowsHaveOwners
      /\ ConflictsArrived /\ ConflictIsReal
    BY DEF ServiceInv
<1>2. /\ WorkerMayMove(w)
      /\ claims' = claims /\ req' = req /\ sync' = sync
    BY DEF WorkerRuns, WorkerMayMove, desk
<1>3. WorkInv'
    BY <1>1, <1>2, WorkerKeepsWork
<1>4. /\ RowsStay
      /\ \A id \in Ids' \ Ids : submissions'[id].origin \in Tasks
      /\ accepted' = accepted
      /\ KeepsWord
    BY <1>1, <1>2, WorkerSavesForItsTask
<1>5. DeskInv'
    <2>1. now \in Nat /\ now' = now
        BY <1>1, EnvironmentAssumption, ClockStandsForWorkers
        DEF WorkInv, StoreInv, EnvironmentOK
    <2> QED BY <1>1, <1>2, <1>3, <1>4, <2>1, DeskStands
<1>6. SyncInv'
    <2>1. \A r \in SyncRequestIds : persist'[r] = persist[r]
        BY <1>1, <1>2, WorkerLeavesOthers, SyncRequestsAssumption,
           FormServiceAssumption
    <2> QED BY <1>1, <1>2, <1>4, <2>1, SyncStands
<1>7. RowsHaveOwners'
    BY <1>1, <1>2, <1>4, RowsOwned DEF SyncsGrow
<1>8. \A u \in Tasks : taskStatus'[u].status = "conflict" =>
          \/ taskStatus[u].status = "conflict"
          \/ req[u].step # "idle" /\ Refuted(u)
    BY <1>1, <1>2, ConflictHasACause, RefusalIsReal
<1>9. ConflictsArrived' /\ ConflictIsReal'
    BY <1>1, <1>2, <1>4, <1>8, ConflictsStay
<1> QED BY <1>3, <1>5, <1>6, <1>7, <1>9 DEF ServiceInv

\* The clock, or nothing, moves.
LEMMA TimeKeepsService ==
    ASSUME ServiceInv, PassTime \/ UNCHANGED vars
    PROVE  ServiceInv'
<1>1. /\ WorkInv /\ DeskInv /\ SyncInv /\ RowsHaveOwners
      /\ ConflictsArrived /\ ConflictIsReal
      /\ StoreInv /\ faults \in 0 .. MaxFaults
    BY DEF ServiceInv, WorkInv, StoreInv, EnvironmentOK
<1>2. /\ UNCHANGED store /\ submissions' = submissions /\ persist' = persist
      /\ taskStatus' = taskStatus /\ UNCHANGED broker /\ UNCHANGED workers
      /\ claims' = claims /\ req' = req /\ accepted' = accepted
      /\ sync' = sync
      /\ Tick \/ UNCHANGED environment
    BY DEF PassTime, vars, store, broker, desk
<1>3. StoreInv'
    <2>1. CASE Tick
        BY <1>1, <1>2, <2>1, TickKeepsStore
    <2>2. CASE UNCHANGED environment
        BY <1>1, <1>2, <2>2, StoreRests DEF environment
    <2> QED BY <1>2, <2>1, <2>2
<1>4. RowsStay /\ Ids' = Ids
    BY <1>2, RowsStand
<1>5. /\ taskStatus' \in TaskTable /\ KeepsWord
      /\ \A u \in Tasks : taskStatus'[u].status = "processed" =>
            taskStatus[u].status = "processed"
    BY <1>1, <1>2, TableStands
<1>6. WorkInv'
    BY <1>1, <1>2, <1>3, <1>4, <1>5, OthersMove
<1>7. DeskInv'
    <2>1. now <= now'
        BY <1>1, <1>2, EnvironmentAssumption
        DEF Tick, environment, StoreInv, EnvironmentOK
    <2> QED BY <1>1, <1>2, <1>5, <1>6, <2>1, DeskStands
<1>8. SyncInv'
    BY <1>1, <1>2, <1>4, SyncStands
<1>9. RowsHaveOwners'
    BY <1>1, <1>2, <1>4, RowsOwned DEF SyncsGrow
<1>10. ConflictsArrived' /\ ConflictIsReal'
    BY <1>1, <1>2, <1>4, ConflictsStay
<1> QED BY <1>6, <1>7, <1>8, <1>9, <1>10 DEF ServiceInv

LEMMA ServiceGoesOn ==
    ASSUME UnboundedIds, ServiceInv, [Next]_vars
    PROVE  ServiceInv'
<1>1. ASSUME NEW t \in Tasks, AsyncRequest(t) PROVE ServiceInv'
    BY <1>1, AsyncRequestKeepsService
<1>2. ASSUME NEW s \in SyncRequestIds, SyncRequest(s) PROVE ServiceInv'
    BY <1>2, SyncRequestKeepsService
<1>3. ASSUME NEW w \in Workers, WorkerRuns(w) PROVE ServiceInv'
    BY <1>3, WorkerRunsKeepsService
<1>4. CASE PassTime
    BY <1>4, TimeKeepsService
<1>5. CASE AllDone \/ UNCHANGED vars
    BY <1>5, TimeKeepsService DEF AllDone
<1> QED BY <1>1, <1>2, <1>3, <1>4, <1>5 DEF Next

\* Requests mark tasks and publish messages; neither begins a run.
LEMMA ServiceTellsOfRuns ==
    ASSUME UnboundedIds, ServiceInv, QueuedMeansWaiting, [Next]_vars
    PROVE  QueuedMeansWaiting'
<1>1. WorkInv
    BY DEF ServiceInv
<1>2. ASSUME NEW t \in Tasks, AsyncRequest(t)
      PROVE  QueuedMeansWaiting'
    <2>1. /\ KeepsWord /\ UNCHANGED workers
          /\ submissions' = submissions /\ persist' = persist
        BY <1>2, RequestsKeepWork DEF AsyncRequest, store
    <2>2. UNCHANGED broker \/ Publish(Message(t))
        BY <1>1, <1>2, RequestsWrite
        DEF ServiceInv, AsyncRequest, AnyRequestStep
    <2>3. \A m \in queue' \ queue : m.retries = 0
        BY <2>2 DEF broker, Publish, Message, NewMessage
    <2>4. RowsStay /\ Ids' = Ids
        BY <2>1, RowsStand
    <2> QED BY <1>1, <2>1, <2>3, <2>4, OthersTellOfRuns
<1>3. ASSUME NEW s \in SyncRequestIds, SyncRequest(s)
      PROVE  QueuedMeansWaiting'
    <2>1. taskStatus' = taskStatus /\ queue' = queue /\ UNCHANGED workers
        BY <1>3 DEF SyncRequest, broker
    <2>2. s \notin Tasks /\ s \notin Workers /\ Workers \subseteq Callers
        BY FormServiceAssumption, AsyncWorkerAssumption
    <2>3. /\ RowsStay
          /\ \A w \in Workers : persist'[w] = persist[w]
          /\ \A id \in Ids' \ Ids : submissions'[id].origin \notin Tasks
        BY <1>3, <2>2, SyncKeeps DEF SyncWrites
    <2> QED BY <1>1, <2>1, <2>3, TableStands, OthersTellOfRuns
<1>4. ASSUME NEW w \in Workers, WorkerRuns(w)
      PROVE  QueuedMeansWaiting'
    BY <1>1, <1>4, WorkersTellOfRuns DEF WorkerRuns, WorkerMayMove
<1>5. CASE PassTime \/ AllDone \/ UNCHANGED vars
    <2>1. /\ submissions' = submissions /\ persist' = persist
          /\ taskStatus' = taskStatus /\ queue' = queue /\ UNCHANGED workers
        BY <1>5 DEF PassTime, AllDone, vars, store, broker
    <2>2. RowsStay /\ Ids' = Ids
        BY <2>1, RowsStand
    <2> QED BY <1>1, <2>1, <2>2, TableStands, OthersTellOfRuns
<1> QED BY <1>2, <1>3, <1>4, <1>5 DEF Next

-----------------------------------------------------------------------------
\* The claims, when synchronous requests and workers share the tables with the
\* requests that make them.

\* Nobody but asynchronous requests changes a claim, a request or what was
\* accepted, and all keep their word.
LEMMA OthersLeaveClaims ==
    ASSUME UnboundedIds, ServiceInv, [Next]_vars,
           \A t \in Tasks : ~AsyncRequest(t)
    PROVE  /\ KeepsWord /\ now <= now'
           /\ req' = req /\ claims' = claims /\ accepted' = accepted
<1>1. now \in Nat /\ taskStatus \in TaskTable
    BY EnvironmentAssumption DEF ServiceInv, WorkInv, StoreInv, EnvironmentOK
<1>2. ASSUME NEW s \in SyncRequestIds, SyncRequest(s)
      PROVE  /\ KeepsWord /\ now <= now'
             /\ req' = req /\ claims' = claims /\ accepted' = accepted
    <2>1. now' = now
        BY <1>2, ClockStandsForSyncs
    <2>2. /\ taskStatus' = taskStatus /\ req' = req /\ claims' = claims
          /\ accepted' = accepted
        BY <1>2 DEF SyncRequest, broker, desk
    <2> QED BY <1>1, <2>1, <2>2, TableKept
<1>3. ASSUME NEW w \in Workers, WorkerRuns(w)
      PROVE  /\ KeepsWord /\ now <= now'
             /\ req' = req /\ claims' = claims /\ accepted' = accepted
    <2>1. now' = now
        BY <1>3, ClockStandsForWorkers
    <2>2. WorkInv /\ WorkerMayMove(w) /\ req' = req /\ claims' = claims
        BY <1>3 DEF WorkerRuns, WorkerMayMove, desk, ServiceInv
    <2>3. accepted' = accepted /\ KeepsWord
        BY <2>2, WorkerSavesForItsTask
    <2> QED BY <1>1, <2>1, <2>2, <2>3
<1>4. CASE PassTime \/ AllDone \/ UNCHANGED vars
    <2>1. now <= now'
        BY <1>1, <1>4 DEF PassTime, Tick, AllDone, vars, environment
    <2>2. taskStatus' = taskStatus
        BY <1>4 DEF PassTime, AllDone, vars
    <2>3. req' = req /\ claims' = claims /\ accepted' = accepted
        BY <1>4 DEF PassTime, AllDone, vars, desk, broker
    <2> QED BY <1>1, <2>1, <2>2, <2>3, TableKept
<1> QED BY <1>2, <1>3, <1>4 DEF Next

LEMMA ServiceKeepsLeases ==
    ASSUME UnboundedIds, ServiceInv, [Next]_vars
    PROVE  Leasing!NextLeases
<1>1. ASSUME NEW t \in Tasks, AsyncRequest(t)
      PROVE  Leasing!NextLeases
    <2>1. ClaimsInv
        BY DEF ServiceInv, DeskInv
    <2> QED
        BY <1>1, <2>1, RequestStepLeases, ArriveGivesNothing,
           FormServiceAssumption
        DEF AsyncRequest
<1>2. CASE \A t \in Tasks : ~AsyncRequest(t)
    BY <1>2, OthersLeaveClaims, LeasesRest
<1> QED BY <1>1, <1>2

\* A request that is alone with its key remains so, and is not refused.
LEMMA ServiceGivesFreeKeys ==
    ASSUME UnboundedIds, ServiceInv, [Next]_vars, NEW t \in Tasks,
           \/ Comes(t) /\ req'[t].key # NoKey /\ Unopposed(req'[t].key)
           \/ /\ IsAlone(t)
              /\ \/ t \notin UnderWay
                 \/ \A u \in Tasks : Comes(u) => req'[u].key # req[t].key
    PROVE  IsAlone(t)'
<1>1. ClaimsInv
    BY DEF ServiceInv, DeskInv
<1>2. ASSUME NEW u \in Tasks, RequestStep(u)
      PROVE  IsAlone(t)'
    <2>1. Arrived(u) /\ \A v \in Tasks \ {u} : req'[v] = req[v]
        BY <1>1, <1>2, OneMoves
    <2>2. ~Comes(t)
        BY <2>1 DEF Comes, Arrived
    <2> QED BY <1>1, <1>2, <2>2, AloneMoves, AloneWhileOthersMove
<1>3. ASSUME NEW u \in Tasks, NEW key \in RequestKeys, NEW payload \in Payloads,
             Arrive(u, key, payload)
      PROVE  IsAlone(t)'
    <2>1. /\ Comes(u) /\ req'[u].key = key
          /\ \A v \in Tasks \ {u} : req'[v] = req[v]
        BY <1>1, <1>3, ArrivalMoves DEF Comes, Arrived
    <2>2. CASE Comes(t)
        BY <1>1, <1>3, <2>1, <2>2, AloneFromArrival
        DEF Comes, Arrived, IsAlone
    <2>3. CASE ~Comes(t)
        BY <1>1, <1>3, <2>1, <2>3, AloneWhenOthersArrive DEF SameKey
    <2> QED BY <2>2, <2>3
<1>4. CASE \A u \in Tasks : ~AsyncRequest(u)
    <2>1. req' = req /\ claims' = claims /\ now <= now'
        BY <1>4, OthersLeaveClaims
    <2>2. now' \in Nat
        BY ServiceGoesOn
        DEF ServiceInv, WorkInv, StoreInv, EnvironmentOK
    <2>3. ~Comes(t)
        BY <2>1 DEF Comes, Arrived
    <2> QED BY <1>1, <2>1, <2>2, <2>3, AloneAtRest
<1> QED BY <1>2, <1>3, <1>4 DEF AsyncRequest

-----------------------------------------------------------------------------
\* Why a request is refused, or given another one's task.

OwnerSteps == {"mark", "publish", "mark_late", "record_unavailable", "answered"}

\* Whoever is told of another request, from now on or as before.
Refusals == {"replayed", "mismatch", "in_flight"}

\* Requests of either kind keep what they were sent.
WebGrows ==
    \A r \in WebRequests : ~Idle(r) =>
        /\ ~Idle(r)'
        /\ KeyOf(r)' = KeyOf(r)
        /\ PayloadOf(r)' = PayloadOf(r)

LEMMA BothGrow ==
    ASSUME RequestsGrow, SyncsGrow
    PROVE  WebGrows
<1> SUFFICES ASSUME NEW r \in WebRequests, ~Idle(r)
             PROVE  /\ ~Idle(r)'
                    /\ KeyOf(r)' = KeyOf(r)
                    /\ PayloadOf(r)' = PayloadOf(r)
    BY DEF WebGrows
<1>1. CASE r \in Tasks
    BY <1>1 DEF RequestsGrow, Idle, KeyOf, PayloadOf
<1>2. CASE r \notin Tasks
    BY <1>2 DEF SyncsGrow, WebRequests, Idle, KeyOf, PayloadOf
<1> QED BY <1>1, <1>2

LEMMA MeetingStays ==
    ASSUME WebGrows, NEW r \in WebRequests, NEW answer, ~Idle(r),
           Meets(r, answer)
    PROVE  Meets(r, answer)'
<1>1. PICK other \in WebRequests \ {r} :
          /\ ~Idle(other)
          /\ KeyOf(other) = KeyOf(r)
          /\ answer = "mismatch" => PayloadOf(other) # PayloadOf(r)
    BY DEF Meets
<1>2. /\ ~Idle(other)'
      /\ KeyOf(other)' = KeyOf(r)'
      /\ answer = "mismatch" => PayloadOf(other)' # PayloadOf(r)'
      /\ KeyOf(r)' # NoKey
    BY <1>1 DEF WebGrows, Meets
<1>3. (WebRequests \ {r})' = WebRequests \ {r}
    BY DEF WebRequests
<1> QED BY <1>2, <1>3 DEF Meets

LEMMA OthersStay ==
    ASSUME OthersHaveTheKey, WebGrows,
           \A r \in WebRequests, answer \in Refusals :
               Answered(r)' /\ AnswerTo(r)' = answer =>
                   \/ Answered(r) /\ AnswerTo(r) = answer
                   \/ ~Idle(r) /\ Meets(r, answer)
    PROVE  OthersHaveTheKey'
<1>1. ASSUME NEW r \in WebRequests, NEW answer \in Refusals,
             Answered(r)', AnswerTo(r)' = answer
      PROVE  Meets(r, answer)'
    <2>1. Answered(r) => ~Idle(r)
        BY DEF Answered, Idle
    <2>2. ~Idle(r) /\ Meets(r, answer)
        BY <1>1, <2>1 DEF OthersHaveTheKey, Refusals
    <2> QED BY <2>2, MeetingStays
<1>2. WebRequests' = WebRequests
    BY DEF WebRequests
<1>3. ASSUME NEW r \in WebRequests, NEW answer, AnswerTo(r)' = answer,
             Meets(r, answer)'
      PROVE  Meets(r, AnswerTo(r))'
    BY <1>3 DEF Meets
<1> QED BY <1>1, <1>2, <1>3 DEF OthersHaveTheKey, Refusals

\* The request that a claim names.
LEMMA OwnerIsMet ==
    ASSUME DeskInv, NEW r \in WebRequests, NEW answer,
           KeyOf(r) # NoKey, KeyOf(r) \in RequestKeys,
           claims[KeyOf(r)] # NoClaim,
           claims[KeyOf(r)].task # r,
           answer = "mismatch" =>
               claims[KeyOf(r)].fingerprint # Fingerprint(PayloadOf(r))
    PROVE  Meets(r, answer)
<1> DEFINE u == claims[KeyOf(r)].task
<1>1. KeyOf(r) \in Keys
    BY FormServiceAssumption
<1>2. claims[KeyOf(r)] \in ClaimRows /\ Names(claims[KeyOf(r)], KeyOf(r))
    BY <1>1, ClaimOfKey
<1>3. u \in Tasks /\ u \in WebRequests \ {r}
    BY <1>2 DEF ClaimRows, WebRequests
<1>4. /\ ~Idle(u) /\ KeyOf(u) = KeyOf(r)
      /\ Fingerprint(PayloadOf(u)) = claims[KeyOf(r)].fingerprint
    BY <1>2, <1>3 DEF Names, Idle, KeyOf, PayloadOf
<1> QED BY <1>3, <1>4 DEF Meets

-----------------------------------------------------------------------------
\* An asynchronous request moves.

RequestSteps ==
    {"insert_claim", "get_again", "take_over", "read_status", "move_claim",
     "mark", "publish", "record_unavailable", "mark_late", "answered"}

Answers == {"none", "accepted", "replayed", "mismatch", "in_flight",
            "unavailable", "error"}

\* The ways a request that has arrived can go on.
GoesTo(t) ==
    \E step \in RequestSteps \ {"answered"} :
        /\ ReqGoTo(t, step)
        /\ req[t].step \in OwnerSteps => step \in OwnerSteps
        /\ claims' = claims

Looks(t) ==
    \E step \in RequestSteps \ {"answered"}, claim \in ClaimRows \cup {NoClaim} :
        /\ ReqSees(t, step, claim)
        /\ req[t].step \in EarlySteps
        /\ claims' = claims

IsTold(t) ==
    \E answer \in Answers :
        /\ Answer(t, answer)
        /\ answer \in Refusals =>
              /\ req[t].step \in EarlySteps
              /\ claims[req[t].key] # NoClaim
              /\ answer = "mismatch" =>
                    claims[req[t].key].fingerprint # Fingerprint(req[t].payload)
        /\ claims' = claims

Owns(t) ==
    /\ req[t].step \in EarlySteps
    /\ \E claim \in ClaimRows : claim.task = t /\ BecomeOwner(t, claim)

LEMMA WaysToGoOn ==
    ASSUME WorkInv, DeskInv, NEW t \in Tasks, RequestStep(t)
    PROVE  /\ req[t].step \notin {"idle", "answered"}
           /\ GoesTo(t) \/ Looks(t) \/ IsTold(t) \/ Owns(t)
<1>1. req[t].step \notin {"idle", "answered"}
    BY DEF RequestStep, GetClaim, InsertClaim, ClaimRefused, GetClaimAgain,
           TakeOver, ReadStatus, MoveClaim, MarkQueued, PublishTask,
           PublishFails, RecordUnavailable, MarkLate, RequestDies
<1>2. req[t] \in ActiveRequests
    BY <1>1, RequestsThatArrived
<1>3. /\ req[t].step \in {"get_again", "take_over", "read_status",
                         "move_claim"} => claims[req[t].key] # NoClaim
      /\ req[t].step \in EarlySteps => req[t].key \in Keys
    BY <1>1, RequestsThatArrived
<1>4. ASSUME Consider(t, claims[req[t].key]), claims[req[t].key] # NoClaim,
             req[t].step \in EarlySteps, claims' = claims
      PROVE  Looks(t) \/ IsTold(t)
    <2>1. claims[req[t].key] \in ClaimRows
        BY <1>1, <1>3, <1>4, ClaimOfKey
    <2> QED BY <1>4, <2>1 DEF Consider, Looks, IsTold, Answers, RequestSteps
<1>5. CASE GetClaim(t)
    BY <1>4, <1>5 DEF GetClaim, GoesTo, RequestSteps, EarlySteps, OwnerSteps
<1>6. CASE ClaimRefused(t)
    BY <1>6 DEF ClaimRefused, GoesTo, RequestSteps, OwnerSteps
<1>7. CASE GetClaimAgain(t)
    BY <1>3, <1>4, <1>7 DEF GetClaimAgain, EarlySteps
<1>8. CASE ReadStatus(t)
    BY <1>3, <1>8
    DEF ReadStatus, GoesTo, IsTold, RequestSteps, OwnerSteps, EarlySteps,
        Answers
<1>9. ASSUME Answer(t, "in_flight"), claims[req[t].key] # NoClaim,
             req[t].step \in EarlySteps, claims' = claims
      PROVE  IsTold(t)
    BY <1>9 DEF IsTold, Answers
<1>10. /\ NewClaim(t) \in ClaimRows
       /\ NewClaim(t).task = t
    <2>1. Fingerprint(req[t].payload) \in Fingerprints
        BY <1>2 DEF ActiveRequests, Fingerprints
    <2>2. now \in 0 .. MaxTime
        BY DEF WorkInv, StoreInv, EnvironmentOK
    <2> QED BY <2>1, <2>2 DEF NewClaim, ClaimRows
<1>11. CASE InsertClaim(t)
    BY <1>10, <1>11 DEF InsertClaim, Owns, EarlySteps
<1>12. CASE TakeOver(t)
    <2>1. CASE BecomeOwner(t, NewClaim(t))
        BY <1>10, <1>12, <2>1 DEF TakeOver, Owns, EarlySteps
    <2>2. CASE Answer(t, "in_flight") /\ claims' = claims
        BY <1>3, <1>9, <1>12, <2>2 DEF TakeOver, EarlySteps
    <2> QED BY <1>12, <2>1, <2>2 DEF TakeOver
<1>13. CASE MoveClaim(t)
    <2> DEFINE claim == [claims[req[t].key] EXCEPT !.task = t]
    <2>1. req[t].step = "move_claim" /\ req[t].step \in EarlySteps
        BY <1>13 DEF MoveClaim, EarlySteps
    <2>2. claims[req[t].key] \in ClaimRows
        BY <1>3, <2>1, ClaimOfKey
    <2>3. claim \in ClaimRows /\ claim.task = t
        BY <2>2 DEF ClaimRows
    <2> HIDE DEF claim
    <2>4. CASE BecomeOwner(t, claim)
        BY <2>1, <2>3, <2>4 DEF Owns
    <2>5. CASE Answer(t, "in_flight") /\ claims' = claims
        BY <1>3, <1>9, <2>1, <2>5
    <2>6. BecomeOwner(t, claim) \/ (Answer(t, "in_flight") /\ claims' = claims)
        BY <1>13 DEF MoveClaim, claim
    <2> QED BY <2>4, <2>5, <2>6
<1>14. CASE MarkQueued(t)
    BY <1>14 DEF MarkQueued, GoesTo, RequestSteps, OwnerSteps
<1>15. CASE PublishTask(t) \/ PublishFails(t)
    BY <1>15
    DEF PublishTask, PublishFails, GoesTo, IsTold, RequestSteps, OwnerSteps,
        Answers, Refusals
<1>16. CASE RecordUnavailable(t) \/ MarkLate(t) \/ RequestDies(t)
    BY <1>16
    DEF RecordUnavailable, MarkLate, RequestDies, IsTold, Answers, Refusals
<1> QED
    BY <1>1, <1>5, <1>6, <1>7, <1>8, <1>11, <1>12, <1>13, <1>14, <1>15, <1>16
    DEF RequestStep

\* What becomes of it.
LEMMA RequestBecomes ==
    ASSUME DeskInv, NEW t \in Tasks, req[t].step # "idle",
           GoesTo(t) \/ Looks(t) \/ IsTold(t) \/ Owns(t)
    PROVE  /\ \A u \in Tasks \ {t} : req'[u] = req[u]
           /\ req[t].step \in OwnerSteps => req'[t].step \in OwnerSteps
           /\ \/ claims' = claims
              \/ \E claim \in ClaimRows :
                    /\ claim.task = t
                    /\ claims' = [claims EXCEPT ![req[t].key] = claim]
                    /\ req'[t].step = "mark"
           /\ req'[t].step = "answered" /\ req'[t].answer \in Refusals =>
                 /\ req[t].step \in EarlySteps
                 /\ claims[req[t].key] # NoClaim
                 /\ req'[t].answer = "mismatch" =>
                       claims[req[t].key].fingerprint
                           # Fingerprint(req[t].payload)
<1>1. req \in [Tasks -> Requests] /\ req[t] \in ActiveRequests
    BY DeskIsOK, RequestsThatArrived DEF DeskOK
<1>2. CASE GoesTo(t)
    <2>1. PICK step \in RequestSteps \ {"answered"} :
              /\ ReqGoTo(t, step)
              /\ req[t].step \in OwnerSteps => step \in OwnerSteps
              /\ claims' = claims
        BY <1>2 DEF GoesTo
    <2> QED BY <1>1, <2>1 DEF ReqGoTo, ActiveRequests
<1>3. CASE Looks(t)
    <2>1. PICK step \in RequestSteps \ {"answered"},
                   claim \in ClaimRows \cup {NoClaim} :
              /\ ReqSees(t, step, claim)
              /\ req[t].step \in EarlySteps
              /\ claims' = claims
        BY <1>3 DEF Looks
    <2> QED BY <1>1, <2>1 DEF ReqSees, ActiveRequests, EarlySteps, OwnerSteps
<1>4. CASE IsTold(t)
    <2>1. PICK answer \in Answers :
              /\ Answer(t, answer)
              /\ answer \in Refusals =>
                    /\ req[t].step \in EarlySteps
                    /\ claims[req[t].key] # NoClaim
                    /\ answer = "mismatch" =>
                          claims[req[t].key].fingerprint
                              # Fingerprint(req[t].payload)
              /\ claims' = claims
        BY <1>4 DEF IsTold
    <2>2. /\ req'[t].step = "answered" /\ req'[t].answer = answer
          /\ \A u \in Tasks \ {t} : req'[u] = req[u]
        BY <1>1, <2>1 DEF Answer, ActiveRequests
    <2> QED BY <2>1, <2>2 DEF OwnerSteps
<1>5. CASE Owns(t)
    <2>1. PICK claim \in ClaimRows : claim.task = t /\ BecomeOwner(t, claim)
        BY <1>5 DEF Owns
    <2>2. /\ req'[t].step = "mark"
          /\ claims' = [claims EXCEPT ![req[t].key] = claim]
          /\ \A u \in Tasks \ {t} : req'[u] = req[u]
        BY <1>1, <2>1 DEF BecomeOwner, ActiveRequests
    <2> QED BY <2>1, <2>2 DEF OwnerSteps
<1> QED BY <1>2, <1>3, <1>4, <1>5

\* Nothing changes for a request that has just arrived.
LEMMA RequestComesIn ==
    ASSUME DeskInv, NEW t \in Tasks, NEW key, NEW payload,
           Arrive(t, key, payload)
    PROVE  /\ \A u \in Tasks \ {t} : req'[u] = req[u]
           /\ req[t].step = "idle"
           /\ req'[t].step # "answered"
           /\ claims' = claims
    BY DeskIsOK DEF DeskOK, Arrive

LEMMA AsyncKeepsCause ==
    ASSUME ServiceInv, CauseInv, NEW t \in Tasks, AsyncRequest(t)
    PROVE  CauseInv'
<1>1. /\ WorkInv /\ DeskInv /\ SyncInv
      /\ AnyRequestStep(t)
      /\ sync' = sync
    BY DEF ServiceInv, AsyncRequest, AnyRequestStep
<1>2. RequestsGrow
    BY <1>1, RequestsKeepDesk
<1>3. WebGrows
    BY <1>1, <1>2, BothGrow DEF SyncsGrow
<1>4. /\ req[t].step = "idle" =>
            /\ \A u \in Tasks \ {t} : req'[u] = req[u]
            /\ req'[t].step # "answered"
            /\ claims' = claims
      /\ req[t].step # "idle" =>
            /\ req[t].step # "answered"
            /\ GoesTo(t) \/ Looks(t) \/ IsTold(t) \/ Owns(t)
    BY <1>1, RequestComesIn, WaysToGoOn DEF AnyRequestStep
<1>5. /\ \A u \in Tasks \ {t} : req'[u] = req[u]
      /\ req[t].step \in OwnerSteps => req'[t].step \in OwnerSteps
      /\ \/ claims' = claims
         \/ /\ req[t].step # "idle"
            /\ \E claim \in ClaimRows :
                  /\ claim.task = t
                  /\ claims' = [claims EXCEPT ![req[t].key] = claim]
                  /\ req'[t].step = "mark"
    BY <1>1, <1>4, RequestBecomes DEF OwnerSteps
<1>6. OwnersHaveClaimed'
    <2> SUFFICES ASSUME NEW k \in Keys, claims'[k] # NoClaim
                 PROVE  req'[claims'[k].task].step \in OwnerSteps
        BY DEF OwnersHaveClaimed, OwnerSteps
    <2>1. CASE claims'[k] = claims[k]
        <3>1. /\ claims[k].task \in Tasks
              /\ req[claims[k].task].step \in OwnerSteps
            BY <1>1, <2>1, DeskIsOK
            DEF CauseInv, OwnersHaveClaimed, OwnerSteps, DeskOK, ClaimRows
        <3> QED BY <1>5, <2>1, <3>1
    <2>2. CASE claims'[k] # claims[k]
        <3>1. claims'[k].task = t /\ req'[t].step = "mark"
            BY <1>1, <1>5, <2>2, DeskIsOK DEF DeskOK
        <3> QED BY <3>1 DEF OwnerSteps
    <2> QED BY <2>1, <2>2
<1>7. OwnersAreKnown'
    <2>1. \A k \in Keys : claims[k] # NoClaim => claims'[k] # NoClaim
        BY <1>1, <1>5, DeskIsOK, RowsAreRows DEF DeskOK
    <2>2. \A s \in SyncRequestIds :
              sync[s].step # "idle" /\ sync[s].key # NoKey =>
                  sync[s].key \in Keys
        BY <1>1, SyncThatArrived, FormServiceAssumption
    <2> QED BY <1>1, <2>1, <2>2 DEF CauseInv, OwnersAreKnown
<1>8. ASSUME req'[t].step = "answered", req'[t].answer \in Refusals
      PROVE  req[t].step # "idle" /\ Meets(t, req'[t].answer)
    <2>1. /\ req[t].step # "idle"
          /\ req[t].step \in EarlySteps
          /\ claims[req[t].key] # NoClaim
          /\ req'[t].answer = "mismatch" =>
                claims[req[t].key].fingerprint # Fingerprint(req[t].payload)
        BY <1>1, <1>4, <1>8, RequestBecomes
    <2>2. req[t].key # NoKey /\ req[t].key \in RequestKeys /\ req[t].key \in Keys
        BY <1>1, <2>1, RequestsThatArrived
    <2>3. claims[req[t].key].task # t
        BY <2>1, <2>2 DEF CauseInv, OwnersHaveClaimed, EarlySteps
    <2>4. /\ t \in WebRequests
          /\ KeyOf(t) = req[t].key
          /\ PayloadOf(t) = req[t].payload
        BY DEF WebRequests, KeyOf, PayloadOf
    <2> QED BY <1>1, <2>1, <2>2, <2>3, <2>4, OwnerIsMet
<1>9. OthersHaveTheKey'
    <2> SUFFICES ASSUME NEW r \in WebRequests, NEW answer \in Refusals,
                        Answered(r)', AnswerTo(r)' = answer
                 PROVE  \/ Answered(r) /\ AnswerTo(r) = answer
                        \/ ~Idle(r) /\ Meets(r, answer)
        BY <1>3, OthersStay DEF CauseInv
    <2>1. CASE r = t
        BY <1>8, <2>1 DEF Answered, AnswerTo, Idle
    <2>2. CASE r # t
        BY <1>1, <1>5, <2>2 DEF Answered, AnswerTo
    <2> QED BY <2>1, <2>2
<1> QED BY <1>6, <1>7, <1>9 DEF CauseInv

-----------------------------------------------------------------------------
\* A synchronous request moves.

\* A request that its own call refuses meets the one that saved the row.
LEMMA RefusedMeetsAnother ==
    ASSUME ServiceInv, NEW s \in SyncRequestIds, sync[s].step = "saving",
           persist[s].step = "mismatch"
    PROVE  Meets(s, "mismatch")
<1>1. /\ StoreInv /\ SyncInv /\ DeskInv /\ RowsHaveOwners
      /\ TasksSaveTheirMessage
    BY DEF ServiceInv, WorkInv
<1>2. /\ s \in Callers
      /\ sync[s].key \in RequestKeys
      /\ persist[s].key = sync[s].key
      /\ persist[s].payload = sync[s].payload
    BY <1>1, SyncSaving
<1>3. sync[s].key # NoKey
    BY <1>1, <1>2 DEF StoreInv, MismatchIsReal
<1>4. PICK id \in Ids : /\ submissions[id].born = sync[s].key
                       /\ submissions[id].payload # sync[s].payload
    BY <1>1, <1>2 DEF StoreInv, MismatchIsReal
<1> DEFINE other == submissions[id].origin
<1>5. /\ s \in WebRequests /\ s \notin Tasks
      /\ KeyOf(s) = sync[s].key /\ PayloadOf(s) = sync[s].payload
    BY FormServiceAssumption DEF WebRequests, KeyOf, PayloadOf
<1>6. CASE other \in Tasks
    <2>1. PICK a \in accepted : a.task = other /\ IsRowOf(submissions[id], a)
        BY <1>1, <1>6 DEF TasksSaveTheirMessage
    <2>2. /\ req[other].step # "idle"
          /\ req[other].key = a.key
          /\ req[other].payload = a.payload
        BY <1>1, <2>1 DEF DeskInv, MessagesAreRequests
    <2>3. EffectiveKey(a) = sync[s].key /\ a.payload = submissions[id].payload
        BY <1>4, <2>1 DEF IsRowOf
    <2>4. a.key = sync[s].key
        BY <1>2, <1>6, <2>1, <2>3, FormServiceAssumption DEF EffectiveKey
    <2>5. /\ other \in WebRequests \ {s}
          /\ ~Idle(other)
          /\ KeyOf(other) = sync[s].key
          /\ PayloadOf(other) # sync[s].payload
        BY <1>4, <1>5, <1>6, <2>2, <2>3, <2>4
        DEF WebRequests, Idle, KeyOf, PayloadOf
    <2> QED BY <1>3, <1>5, <2>5 DEF Meets
<1>7. CASE other \in SyncRequestIds
    <2>1. other \notin Tasks
        BY <1>7, FormServiceAssumption
    <2>2. /\ sync[other].step # "idle"
          /\ sync[other].key = sync[s].key
          /\ sync[other].payload # sync[s].payload
        BY <1>1, <1>4, <2>1 DEF RowsHaveOwners
    <2>3. /\ other \in WebRequests \ {s}
          /\ ~Idle(other)
          /\ KeyOf(other) = sync[s].key
          /\ PayloadOf(other) # sync[s].payload
        BY <1>7, <2>1, <2>2 DEF WebRequests, Idle, KeyOf, PayloadOf
    <2> QED BY <1>3, <1>5, <2>3 DEF Meets
<1> QED BY <1>1, <1>6, <1>7 DEF RowsHaveOwners

\* What a synchronous request that moves is told, and by which step.
LEMMA SyncBecomes ==
    ASSUME SyncInv, NEW s \in SyncRequestIds, SyncRequest(s)
    PROVE  /\ \A r \in SyncRequestIds \ {s} : sync'[r] = sync[r]
           /\ sync'[s].step = "check_status" =>
                 CheckClaim(s) /\ claims[sync[s].key] # NoClaim
           /\ sync'[s].step = "answered" /\ sync'[s].answer \in Refusals =>
                 \/ /\ CheckClaim(s)
                    /\ claims[sync[s].key] # NoClaim
                    /\ claims[sync[s].key].fingerprint
                           # Fingerprint(sync[s].payload)
                 \/ CheckStatus(s) /\ sync'[s].answer = "in_flight"
                 \/ /\ sync[s].step = "saving"
                    /\ persist[s].step = "mismatch"
                    /\ sync'[s].answer = "mismatch"
<1>1. sync \in [SyncRequestIds -> SyncCalls]
    BY DEF SyncInv
<1>2. CASE sync[s].step = "idle"
    <2>1. \E key \in RequestKeys, payload \in Payloads :
              ArriveSync(s, key, payload)
        BY <1>2 DEF SyncRequest, SyncStep, CheckClaim, CheckStatus,
                    SyncSaveStep, SyncSaved, SyncRefused, SyncDies
    <2> QED BY <1>1, <2>1 DEF ArriveSync
<1>3. CASE sync[s].step # "idle"
    <2>1. sync[s] \in ActiveSyncCalls
        BY <1>3, SyncThatArrived
    <2>2. SyncStep(s)
        BY <1>3 DEF SyncRequest, ArriveSync
    <2>3. ASSUME SyncSave(s)
          PROVE  /\ \A r \in SyncRequestIds \ {s} : sync'[r] = sync[r]
                 /\ sync'[s].step = "saving"
        BY <1>1, <2>1, <2>3 DEF SyncSave, ActiveSyncCalls
    <2>4. ASSUME NEW answer, SyncAnswer(s, answer)
          PROVE  /\ \A r \in SyncRequestIds \ {s} : sync'[r] = sync[r]
                 /\ sync'[s].step = "answered"
                 /\ sync'[s].answer = answer
        BY <1>1, <2>1, <2>4 DEF SyncAnswer, ActiveSyncCalls
    <2>5. CASE CheckClaim(s)
        <3>1. CASE claims[sync[s].key] = NoClaim \/ SyncSave(s)
            BY <2>3, <2>5, <3>1 DEF CheckClaim
        <3>2. CASE /\ claims[sync[s].key] # NoClaim
                   /\ claims[sync[s].key].fingerprint
                          # Fingerprint(sync[s].payload)
                   /\ SyncAnswer(s, "mismatch")
            BY <2>4, <2>5, <3>2
        <3>3. CASE /\ claims[sync[s].key] # NoClaim
                   /\ sync' = [sync EXCEPT ![s].step = "check_status",
                                           ![s].owner = claims[sync[s].key].task]
            BY <1>1, <2>1, <2>5, <3>3 DEF ActiveSyncCalls
        <3> QED BY <2>5, <3>1, <3>2, <3>3 DEF CheckClaim
    <2>6. CASE CheckStatus(s)
        BY <2>3, <2>4, <2>6 DEF CheckStatus
    <2>7. CASE SyncSaveStep(s)
        BY <1>1, <2>7 DEF SyncSaveStep
    <2>8. CASE SyncSaved(s)
        BY <1>1, <2>1, <2>8 DEF SyncSaved, ActiveSyncCalls, Refusals
    <2>9. CASE SyncRefused(s)
        BY <2>4, <2>9 DEF SyncRefused, Refusals
    <2>10. CASE SyncDies(s)
        BY <2>4, <2>10 DEF SyncDies, Refusals
    <2> QED BY <2>2, <2>5, <2>6, <2>7, <2>8, <2>9, <2>10 DEF SyncStep
<1> QED BY <1>2, <1>3

LEMMA SyncKeepsCause ==
    ASSUME ServiceInv, CauseInv, NEW s \in SyncRequestIds, SyncRequest(s)
    PROVE  CauseInv'
<1>1. /\ DeskInv /\ SyncInv
      /\ claims' = claims /\ req' = req
      /\ s \notin Tasks
    BY FormServiceAssumption DEF ServiceInv, SyncRequest, desk
<1>2. WebGrows
    <2>1. RequestsGrow
        BY <1>1 DEF RequestsGrow
    <2> QED BY <1>1, <2>1, SyncsGrowWhenOneMoves, BothGrow
<1>3. /\ \A r \in SyncRequestIds \ {s} : sync'[r] = sync[r]
      /\ sync'[s].step = "check_status" =>
            CheckClaim(s) /\ claims[sync[s].key] # NoClaim
    BY <1>1, SyncBecomes
<1>4. OwnersHaveClaimed'
    BY <1>1 DEF CauseInv, OwnersHaveClaimed
<1>5. OwnersAreKnown'
    <2>1. CheckClaim(s) => /\ sync[s].step # "idle"
                           /\ sync[s].key # NoKey
        BY <1>1, SyncThatArrived DEF CheckClaim
    <2>2. sync[s].step # "idle" => sync'[s].key = sync[s].key
        BY <1>1, SyncsGrowWhenOneMoves DEF SyncsGrow
    <2> QED BY <1>1, <1>3, <2>1, <2>2 DEF CauseInv, OwnersAreKnown
<1>6. ASSUME sync'[s].step = "answered", sync'[s].answer \in Refusals
      PROVE  sync[s].step # "idle" /\ Meets(s, sync'[s].answer)
    <2>1. /\ s \in WebRequests
          /\ KeyOf(s) = sync[s].key
          /\ PayloadOf(s) = sync[s].payload
        BY <1>1 DEF WebRequests, KeyOf, PayloadOf
    <2>2. CASE /\ CheckClaim(s)
               /\ claims[sync[s].key] # NoClaim
               /\ claims[sync[s].key].fingerprint # Fingerprint(sync[s].payload)
        <3>1. /\ sync[s].step # "idle"
              /\ sync[s].key # NoKey /\ sync[s].key \in RequestKeys
              /\ sync[s].key \in Keys
            BY <1>1, <2>2, SyncThatArrived, FormServiceAssumption DEF CheckClaim
        <3>2. claims[sync[s].key].task # s
            BY <1>1, <2>2, <3>1, DeskIsOK DEF DeskOK, ClaimRows
        <3> QED BY <1>1, <2>1, <2>2, <3>1, <3>2, OwnerIsMet
    <2>3. CASE CheckStatus(s) /\ sync'[s].answer = "in_flight"
        <3>1. /\ sync[s].step # "idle"
              /\ sync[s].key # NoKey /\ sync[s].key \in RequestKeys
              /\ sync[s].key \in Keys
              /\ claims[sync[s].key] # NoClaim
            BY <1>1, <2>3, SyncThatArrived, FormServiceAssumption
            DEF CheckStatus, CauseInv, OwnersAreKnown
        <3>2. claims[sync[s].key].task # s
            BY <1>1, <3>1, DeskIsOK DEF DeskOK, ClaimRows
        <3> QED BY <1>1, <2>1, <2>3, <3>1, <3>2, OwnerIsMet
    <2>4. CASE /\ sync[s].step = "saving"
               /\ persist[s].step = "mismatch"
               /\ sync'[s].answer = "mismatch"
        BY <2>4, RefusedMeetsAnother
    <2> QED BY <1>1, <1>6, <2>2, <2>3, <2>4, SyncBecomes
<1>7. OthersHaveTheKey'
    <2> SUFFICES ASSUME NEW r \in WebRequests, NEW answer \in Refusals,
                        Answered(r)', AnswerTo(r)' = answer
                 PROVE  \/ Answered(r) /\ AnswerTo(r) = answer
                        \/ ~Idle(r) /\ Meets(r, answer)
        BY <1>2, OthersStay DEF CauseInv
    <2>1. CASE r = s
        BY <1>1, <1>6, <2>1 DEF Answered, AnswerTo, Idle
    <2>2. CASE r # s
        BY <1>1, <1>3, <2>2 DEF Answered, AnswerTo, WebRequests
    <2> QED BY <2>1, <2>2
<1> QED BY <1>4, <1>5, <1>7 DEF CauseInv

-----------------------------------------------------------------------------
\* Anything else moves.

LEMMA OthersKeepCause ==
    ASSUME CauseInv, claims' = claims, req' = req, sync' = sync
    PROVE  CauseInv'
    BY DEF CauseInv, OwnersHaveClaimed, OwnersAreKnown, OthersHaveTheKey,
           Meets, Answered, AnswerTo, KeyOf, PayloadOf, Idle, WebRequests

LEMMA CauseGoesOn ==
    ASSUME ServiceInv, CauseInv, [Next]_vars
    PROVE  CauseInv'
<1>1. ASSUME NEW t \in Tasks, AsyncRequest(t) PROVE CauseInv'
    BY <1>1, AsyncKeepsCause
<1>2. ASSUME NEW s \in SyncRequestIds, SyncRequest(s) PROVE CauseInv'
    BY <1>2, SyncKeepsCause
<1>3. CASE (\E w \in Workers : WorkerRuns(w)) \/ PassTime \/ AllDone
           \/ UNCHANGED vars
    <2>1. claims' = claims /\ req' = req /\ sync' = sync
        BY <1>3 DEF WorkerRuns, PassTime, AllDone, vars, desk
    <2> QED BY <2>1, OthersKeepCause
<1> QED BY <1>1, <1>2, <1>3 DEF Next

LEMMA CauseBegins == Init => CauseInv
<1> SUFFICES ASSUME Init PROVE CauseInv
    OBVIOUS
<1>1. /\ claims = [k \in Keys |-> NoClaim]
      /\ req = [t \in Tasks |-> NotArrived]
      /\ sync = [s \in SyncRequestIds |-> SyncNotArrived]
    BY DEF Init, InitDesk, InitSync
<1>2. NotArrived.step = "idle" /\ SyncNotArrived.step = "idle"
    BY DEF NotArrived, SyncNotArrived
<1> QED
    BY <1>1, <1>2
    DEF CauseInv, OwnersHaveClaimed, OwnersAreKnown, OthersHaveTheKey,
        Answered, WebRequests

-----------------------------------------------------------------------------
\* The store in the whole system acts as IdempotentStore.

LEMMA SyncKeepsPromise ==
    ASSUME ServiceInv, WorkersCallToSave, NEW s \in SyncRequestIds,
           SyncRequest(s)
    PROVE  KeepsPromise /\ WorkersCallToSave'
<1>1. /\ s \in Callers /\ s \in Origins /\ s \notin Workers
      /\ Workers \subseteq Callers
      /\ StoreInv
      /\ persist \in [Callers -> PersistCalls]
      /\ worker' = worker
    BY SyncRequestsAssumption, FormServiceAssumption, AsyncWorkerAssumption
    DEF ServiceInv, WorkInv, StoreInv, StoreOK, SyncRequest, workers
<1>2. SyncSaveStep(s) => /\ PersistStep(s)
                         /\ now' = now
                         /\ \A c \in Callers \ {s} : persist'[c] = persist[c]
    BY <1>1, PersistStepAdds DEF SyncSaveStep
<1>3. ~SyncSaveStep(s) =>
         /\ submissions' = submissions /\ now' = now
         /\ \/ persist' = persist
            \/ persist' = [persist EXCEPT ![s] = NotSaving]
            \/ \E key \in MaybeKeys, payload \in Payloads :
                  StartPersist(s, key, payload, s)
    <2>1. ASSUME NEW key \in RequestKeys, NEW payload \in Payloads,
                 ArriveSync(s, key, payload)
          PROVE  /\ submissions' = submissions /\ now' = now
                 /\ \/ persist' = persist
                    \/ StartPersist(s, key, payload, s)
        BY <2>1 DEF ArriveSync, environment
    <2>2. CASE CheckClaim(s) \/ CheckStatus(s)
        <3>1. ~SyncAt(s, "idle")
            BY <2>2 DEF CheckClaim, CheckStatus
        <3>2. sync[s].key \in MaybeKeys /\ sync[s].payload \in Payloads
            BY <3>1, SyncThatArrived DEF ServiceInv, SyncAt, ActiveSyncCalls
        <3>3. /\ submissions' = submissions /\ now' = now
              /\ \/ persist' = persist
                 \/ StartPersist(s, sync[s].key, sync[s].payload, s)
            BY <2>2 DEF CheckClaim, CheckStatus, SyncSave, environment
        <3> QED BY <3>2, <3>3
    <2>3. CASE SyncSaved(s) \/ SyncRefused(s) \/ SyncDies(s)
        BY <2>3
        DEF SyncSaved, SyncRefused, SyncDies, LeavePersist, Fault, environment
    <2> QED
        BY <2>1, <2>2, <2>3, FormServiceAssumption DEF SyncRequest, SyncStep
<1>4. KeepsPromise
    BY <1>1, <1>2, <1>3, StoreKeepsPromise
<1>5. \A c \in Callers \ {s} : persist'[c] = persist[c]
    BY <1>1, <1>2, <1>3 DEF StartPersist
<1>6. WorkersCallToSave'
    BY <1>1, <1>5 DEF WorkersCallToSave
<1> QED BY <1>4, <1>6

LEMMA ServiceKeepsPromise ==
    ASSUME ServiceInv, WorkersCallToSave, [Next]_vars
    PROVE  KeepsPromise /\ WorkersCallToSave'
<1>1. CASE UNCHANGED vars \/ AllDone
    BY <1>1, RestIsPromised
    DEF AllDone, KeepsPromise, WorkersCallToSave, vars, environment, store,
        workers
<1>2. CASE PassTime
    BY <1>2, TickIsPromised
    DEF PassTime, KeepsPromise, WorkersCallToSave, store, workers
<1>3. ASSUME NEW t \in Tasks, AsyncRequest(t)
      PROVE  KeepsPromise /\ WorkersCallToSave'
    <2>1. WorkInv /\ DeskInv /\ AnyRequestStep(t)
        BY <1>3 DEF ServiceInv, AsyncRequest, AnyRequestStep
    <2>2. now' = now
        BY <2>1, RequestsWrite
    <2> QED
        BY <1>3, <2>2, RestIsPromised
        DEF AsyncRequest, KeepsPromise, WorkersCallToSave, store, workers
<1>4. ASSUME NEW s \in SyncRequestIds, SyncRequest(s)
      PROVE  KeepsPromise /\ WorkersCallToSave'
    BY <1>4, SyncKeepsPromise
<1>5. ASSUME NEW w \in Workers, WorkerRuns(w)
      PROVE  KeepsPromise /\ WorkersCallToSave'
    BY <1>5, WorkersKeepPromise DEF WorkerRuns, ServiceInv
<1> QED BY <1>1, <1>2, <1>3, <1>4, <1>5 DEF Next

-----------------------------------------------------------------------------
\* The theorems.

\* The parts keep their word to each other in every reachable state, however
\* requests, workers, the clock and failures are interleaved.
THEOREM ServiceInvariant == ASSUME UnboundedIds PROVE Spec => []ServiceInv
<1>1. Init => ServiceInv
    BY ServiceBegins
<1>2. ServiceInv /\ [Next]_vars => ServiceInv'
    BY ServiceGoesOn
<1> QED BY <1>1, <1>2, PTL DEF Spec

\* Type correctness of the whole system.
THEOREM ServiceTypeCorrect == ASSUME UnboundedIds PROVE Spec => []TypeOK
<1>1. ServiceInv => TypeOK
    BY DeskIsOK DEF ServiceInv, WorkInv, StoreInv, SyncInv, TypeOK
<1> QED BY <1>1, ServiceInvariant, PTL

\* Synchronous requests and workers that save under one key, in any number and
\* order, leave one row for each lifetime of the key.
THEOREM OneRowPerKey == ASSUME UnboundedIds PROVE Spec => []OneRowPerKeyWithinTtl
<1>1. ServiceInv => OneRowPerKeyWithinTtl
    BY DEF ServiceInv, WorkInv, StoreInv
<1> QED BY <1>1, ServiceInvariant, PTL

\* In the whole system too a task that is queued waits for its first run, unless
\* a write of its status was lost: no request, early or late, takes a task back.
THEOREM ServiceQueuedTasksWait ==
    ASSUME UnboundedIds
    PROVE  Spec => []QueuedMeansWaiting
<1>1. Init => QueuedMeansWaiting
    BY RunsBegin DEF Init
<1>2. ServiceInv /\ QueuedMeansWaiting /\ [Next]_vars => QueuedMeansWaiting'
    BY ServiceTellsOfRuns
<1> QED BY <1>1, <1>2, ServiceInvariant, PTL DEF Spec

\* Whoever is told "done", the redirected browser as well as the client that is
\* given the original task id, finds a row with its own payload under its key.
THEOREM DoneIsBacked == ASSUME UnboundedIds PROVE Spec => []DoneAnswersAreBacked
<1>1. ServiceInv => DoneAnswersAreBacked
    <2> SUFFICES ASSUME ServiceInv PROVE DoneAnswersAreBacked
        OBVIOUS
    <2>1. ASSUME NEW t \in Tasks, req[t].step = "answered",
                 req[t].answer = "replayed"
          PROVE  HasRow(req[t].key, req[t].payload)
        <3> DEFINE u == req[t].seen.task
        <3>1. /\ req[t].seen \in ClaimRows
              /\ req[u].lease # NoLease
              /\ Arrived(u)
            BY <2>1, DeskIsOK, KeyedSteps, RowsAreRows
            DEF ServiceInv, RequestIsSound, SeenIsTrue, ActsOnSeen,
                ActiveRequests
        <3>2. /\ req[u].key = req[t].key
              /\ req[u].payload = req[t].payload
              /\ taskStatus[u].status = "processed"
            BY <2>1, DeskIsOK, ClaimsPromise DEF ServiceInv, ReplayIsFaithful
        <3>3. u \in Tasks
            BY <3>1 DEF ClaimRows
        <3>4. req[t].key # NoKey
            BY <3>1, <3>2, <3>3, DeskIsOK, KeyedSteps
            DEF ServiceInv, RequestIsSound, StepsFollowTheKey
        <3>5. PICK m \in accepted :
                  /\ m.task = u
                  /\ taskStatus[u].submission \in Ids
                  /\ LET row == submissions[taskStatus[u].submission]
                     IN  row.born = EffectiveKey(m) /\ row.payload = m.payload
            BY <3>2, <3>3 DEF ServiceInv, WorkInv, ProcessedMeansSaved
        <3>6. m.key = req[u].key /\ m.payload = req[u].payload
            BY <3>5 DEF ServiceInv, DeskInv, MessagesAreRequests
        <3> QED BY <3>2, <3>4, <3>5, <3>6 DEF HasRow, EffectiveKey
    <2>2. ASSUME NEW s \in SyncRequestIds, sync[s].step = "answered",
                 sync[s].answer = "saved"
          PROVE  /\ submissions[sync[s].row].born = sync[s].key
                 /\ submissions[sync[s].row].payload = sync[s].payload
        BY <2>2 DEF ServiceInv, SyncInv, SyncSavesItsRequest
    <2> QED BY <2>1, <2>2 DEF DoneAnswersAreBacked
<1> QED BY <1>1, ServiceInvariant, PTL

\* Beside synchronous requests that save under the same keys, all runs of a task
\* save one row for each lifetime of its key, "processed" names a row with what
\* was asked for, and a caller of _persist_submission is told "saved" or
\* "mismatch" for a row that is so.
THEOREM ServiceSavesAreKept ==
    ASSUME UnboundedIds
    PROVE  Spec => [](/\ \A i, j \in Ids :
                            /\ i < j
                            /\ submissions[i].origin \in Tasks
                            /\ submissions[i].origin = submissions[j].origin
                            => submissions[i].created + TTL
                                  <= submissions[j].created
                      /\ ProcessedMeansSaved
                      /\ SavedRowIsMine
                      /\ MismatchIsReal)
<1>1. ServiceInv
      => /\ \A i, j \in Ids :
               /\ i < j
               /\ submissions[i].origin \in Tasks
               /\ submissions[i].origin = submissions[j].origin
               => submissions[i].created + TTL <= submissions[j].created
         /\ ProcessedMeansSaved
         /\ SavedRowIsMine
         /\ MismatchIsReal
    BY TasksSaveOnce DEF ServiceInv, WorkInv, StoreInv
<1> QED BY <1>1, ServiceInvariant, PTL

\* A request that was told its task is queued is never forgotten.
THEOREM AcceptedRemembered == ASSUME UnboundedIds PROVE Spec => []AcceptedIsRemembered
<1>1. ServiceInv => AcceptedIsRemembered
    BY NothingIsLost
    DEF ServiceInv, DeskInv, MessagesAreRequests, AcceptedIsRemembered
<1> QED BY <1>1, ServiceInvariant, PTL

\* A task ends in conflict only over a row that somebody else saved under its
\* key with another payload.
THEOREM ConflictsAreReal == ASSUME UnboundedIds PROVE Spec => []ConflictIsReal
<1>1. ServiceInv => ConflictIsReal
    BY DEF ServiceInv
<1> QED BY <1>1, ServiceInvariant, PTL

\* Whoever is told that its key is taken, by a replayed task, a mismatch or a
\* request in flight, is told so because of another request that has come with
\* that key, and with another payload if there is a mismatch.
THEOREM RefusalsHaveACause == ASSUME UnboundedIds PROVE Spec => []CauseInv
<1>1. Init => ServiceInv /\ CauseInv
    BY ServiceBegins, CauseBegins
<1>2. ServiceInv /\ CauseInv /\ [Next]_vars => (ServiceInv /\ CauseInv)'
    BY ServiceGoesOn, CauseGoesOn
<1> QED BY <1>1, <1>2, PTL DEF Spec

\* A claim still describes the request whose task it names, no two owners of one
\* key overlap, and what a request concluded from the claim it read stays true,
\* when synchronous requests and workers move between the statements of those
\* that make the claims, and task statuses are what the workers report.
THEOREM ServiceClaims == ASSUME UnboundedIds PROVE Spec => []ClaimsInv
<1>1. ServiceInv => ClaimsInv
    BY DEF ServiceInv, DeskInv
<1> QED BY <1>1, ServiceInvariant, PTL

\* In the whole system, tasks published with one key had its claim a lifetime
\* apart, or one of them failed; a request is told an earlier task only if that
\* one sent the same and is processed, and refused with 422 only for another
\* payload that had the claim.
THEOREM ServiceClaimsAreKept ==
    ASSUME UnboundedIds
    PROVE  Spec => [](/\ OneTaskPerKeyWithinTtl
                      /\ ClaimDescribesOwner
                      /\ ReplayIsFaithful
                      /\ RefusedForAnother)
<1>1. ClaimsInv => /\ OneTaskPerKeyWithinTtl
                   /\ ClaimDescribesOwner
                   /\ ReplayIsFaithful
                   /\ RefusedForAnother
    BY ClaimsPromise
<1> QED BY <1>1, ServiceClaims, PTL

\* Keys are leased as KeyLeases promises, among synchronous requests, retries,
\* crashes and second copies: one holder at a time, until its lifetime is over or
\* it has failed.
THEOREM ServiceImplementsLeases ==
    ASSUME UnboundedIds PROVE Spec => ImplementsKeyLeases
<1>1. Init => Leasing!InitLeases
    BY LeasesBegin DEF Init
<1>2. ServiceInv /\ [Next]_vars => Leasing!NextLeases
    BY ServiceKeepsLeases
<1> QED
    BY <1>1, <1>2, ServiceInvariant, PTL
    DEF Spec, ImplementsKeyLeases, Leasing!LeaseSpec

\* A key is free again one lifetime after it was claimed last, also where
\* synchronous requests save under it and workers end, fail and come back.
THEOREM ServiceFreesKeys == ASSUME UnboundedIds PROVE Spec => FreeKeysAreGiven
<1>1. /\ ServiceInv /\ [Next]_vars
      => \A t \in Tasks :
             \/ Comes(t) /\ req'[t].key # NoKey /\ Unopposed(req'[t].key)
             \/ /\ IsAlone(t)
                /\ \/ t \notin UnderWay
                   \/ \A u \in Tasks : Comes(u) => req'[u].key # req[t].key
             => IsAlone(t)'
    BY ServiceGivesFreeKeys
<1> QED
    BY <1>1, ServiceInvariant, PTL DEF Spec, FreeKeysAreGiven

\* Every caller of _persist_submission, a web request or a worker, is served as
\* IdempotentStore promises: by one decision, over the row that was saved last
\* under its key.
THEOREM StoreKeepsItsPromise ==
    ASSUME UnboundedIds PROVE Spec => ImplementsIdempotentStore
<1>1. Init => Promised!InitPromise /\ WorkersCallToSave
    <2>1. InitStore /\ InitWorkers => WorkersCallToSave
        BY AsyncWorkerAssumption
        DEF InitStore, InitWorkers, WorkersCallToSave, NotSaving, Waiting
    <2> QED BY <2>1, BeginningIsPromised DEF Init
<1>2. /\ ServiceInv /\ WorkersCallToSave /\ [Next]_vars
      => WorkersCallToSave' /\ [Promised!NextPromise]_(Promised!promise)
    BY ServiceKeepsPromise DEF KeepsPromise
<1> QED
    BY <1>1, <1>2, ServiceInvariant, PTL
    DEF Spec, ImplementsIdempotentStore, Promised!PromiseSpec

-----------------------------------------------------------------------------
\* Keys and clients.

\* Behind nginx, the client is the address that the request came from.
LEMMA ClientIsAddress ==
    ASSUME NEW v \in Visitors
    PROVE  Client(v) = Address[v] /\ Address[v] \in Addresses
<1> DEFINE seen == ViaNginx(Address[v])
           values == <<seen.x_real_ip, FirstHop(seen.x_forwarded_for),
                       seen.remote_addr>>
           given == {i \in 1 .. 3 : values[i] # Unset}
<1>1. Address[v] \in Addresses
    BY FormPagesAssumption
<1>2. values[1] = Address[v]
    BY DEF ViaNginx
<1>3. 1 \in given /\ given \subseteq 1 .. 3
    BY <1>1, <1>2, ClientKeysAssumption
<1>4. TrustedClientIdentifier(seen) =
          IF given = {} THEN "unknown"
          ELSE values[CHOOSE i \in given : \A j \in given : i <= j]
    BY DEF TrustedClientIdentifier
<1> HIDE DEF values, given
<1>5. \A i \in given : (\A j \in given : i <= j) => i = 1
    BY <1>3
<1>6. \A j \in given : 1 <= j
    BY <1>3
<1>7. (CHOOSE i \in given : \A j \in given : i <= j) = 1
    BY <1>3, <1>5, <1>6
<1> QED BY <1>1, <1>2, <1>3, <1>4, <1>7 DEF Client

LEMMA ScopedKeyIs ==
    ASSUME NEW v \in Visitors, NEW raw \in RawKeys \cup {NoKey}
    PROVE  /\ Scoped(raw, Client(v)) \in RequestKeys
           /\ raw = NoKey <=> Scoped(raw, Client(v)) = NoKey
           /\ \A u \in Visitors, other \in RawKeys \cup {NoKey} :
                 /\ Scoped(raw, Client(v)) = Scoped(other, Client(u))
                 /\ raw # NoKey
                 => other = raw /\ Address[u] = Address[v]
<1>1. \A u \in Visitors : /\ Client(u) = Address[u]
                         /\ Address[u] \in Addresses
    BY ClientIsAddress
<1>2. CASE raw = NoKey
    BY <1>2, FormPagesAssumption DEF Scoped
<1>3. CASE raw # NoKey
    <2>1. /\ Scoped(raw, Client(v)) = <<Address[v], raw>>
          /\ raw \in RawKeys
        BY <1>1, <1>3 DEF Scoped
    <2>2. <<Address[v], raw>> \in ScopedKeys
        BY <1>1, <2>1 DEF ScopedKeys
    <2>3. NoKey # <<Address[v], raw>>
        BY <1>1, <2>1, ClientKeysAssumption
    <2>4. ASSUME NEW u \in Visitors, NEW other \in RawKeys \cup {NoKey},
                 Scoped(raw, Client(v)) = Scoped(other, Client(u))
          PROVE  other = raw /\ Address[u] = Address[v]
        <3>1. other # NoKey
            BY <2>1, <2>3, <2>4 DEF Scoped
        <3>2. <<Address[u], other>> = <<Address[v], raw>>
            BY <1>1, <2>1, <2>4, <3>1 DEF Scoped
        <3> QED BY <3>2
    <2> QED BY <1>3, <2>1, <2>2, <2>3, <2>4, FormPagesAssumption
<1> QED BY <1>2, <1>3

LEMMA ResolvedIs ==
    ASSUME NEW header, NEW form
    PROVE  /\ Resolved(header, form) \in RawKeys \cup {NoKey}
           /\ Sanitized(header) # NoKey => Resolved(header, form) = header
           /\ Sanitized(header) = NoKey =>
                 /\ form \in RawKeys => Resolved(header, form) = form
                 /\ form \notin RawKeys => Resolved(header, form) = NoKey
    BY DEF Resolved, Sanitized

-----------------------------------------------------------------------------
\* The services do with the pages' requests what they do with any.

LEMMA PostIsARequest ==
    ASSUME NEW v \in Visitors, Post(v)
    PROVE  \E r \in WebRequests, form \in FormKeys(v) :
              /\ Sender[r] = v
              /\ Idle(r)
              /\ LET key == Scoped(Resolved(Header[v], form), Client(v))
                 IN  /\ key \in RequestKeys
                     /\ IF r \in Tasks
                        THEN Arrive(r, key, Payload[v]) /\ AsyncRequest(r)
                        ELSE /\ r \in SyncRequestIds
                             /\ ArriveSync(r, key, Payload[v])
                             /\ SyncRequest(r)
              /\ page' = [page EXCEPT ![v].sent = form, ![v].waits = r]
              /\ issued' = issued /\ renewed' = renewed
<1>1. PICK r \in WebRequests, form \in FormKeys(v) :
          /\ Sender[r] = v
          /\ Idle(r)
          /\ HandToService(r, Scoped(Resolved(Header[v], form), Client(v)),
                           Payload[v])
          /\ page' = [page EXCEPT ![v].sent = form, ![v].waits = r]
    BY DEF Post
<1> DEFINE key == Scoped(Resolved(Header[v], form), Client(v))
<1>2. key \in RequestKeys /\ Payload[v] \in Payloads
    BY ResolvedIs, ScopedKeyIs, FormPagesAssumption
<1>3. HandToService(r, key, Payload[v])
    BY <1>1
<1>4. issued' = issued /\ renewed' = renewed
    BY DEF Post
<1> HIDE DEF key
<1>5. CASE r \in Tasks
    <2>1. Arrive(r, key, Payload[v]) /\ AsyncRequest(r)
        BY <1>2, <1>3, <1>5 DEF HandToService, AsyncRequest
    <2> QED BY <1>1, <1>2, <1>4, <1>5, <2>1 DEF key
<1>6. CASE r \notin Tasks
    <2>1. r \in SyncRequestIds
        BY <1>6 DEF WebRequests
    <2>2. ArriveSync(r, key, Payload[v]) /\ SyncRequest(r)
        BY <1>2, <1>3, <1>6 DEF HandToService, SyncRequest
    <2> QED BY <1>1, <1>2, <1>4, <1>6, <2>1, <2>2 DEF key
<1> QED BY <1>5, <1>6

LEMMA PagesStepIsServed ==
    ASSUME [PagesNext]_pagesVars
    PROVE  [Next]_vars
<1>1. ASSUME NEW v \in Visitors, Post(v) PROVE Next
    BY <1>1, PostIsARequest DEF Next
<1>2. ASSUME NEW v \in Visitors,
             OpenForm(v) \/ ReceiveAnswer(v) \/ TurnedAway(v)
      PROVE  UNCHANGED vars
    BY <1>2 DEF OpenForm, ReceiveAnswer, TurnedAway
<1>3. ASSUME NEW t \in Tasks, AsyncGoesOn(t) PROVE Next
    BY <1>3 DEF AsyncGoesOn, AsyncRequest, Next
<1>4. ASSUME NEW s \in SyncRequestIds, SyncGoesOn(s) PROVE Next
    BY <1>4 DEF SyncGoesOn, SyncRequest, Next
<1>5. ASSUME NEW w \in Workers, WorkerGoesOn(w) PROVE Next
    BY <1>5 DEF WorkerGoesOn, Next
<1>6. CASE TimePasses
    BY <1>6 DEF TimePasses, Next
<1>7. CASE PagesDone \/ UNCHANGED pagesVars
    BY <1>7 DEF PagesDone, pagesVars
<1> QED BY <1>1, <1>2, <1>3, <1>4, <1>5, <1>6, <1>7 DEF PagesNext

\* Whatever visitors do with their pages, the services behind the routes see
\* requests as FormService has them: all that it promises holds for the pages.
THEOREM PagesAreServed == PagesSpec => Spec
<1>1. PagesInit => Init
    BY DEF PagesInit
<1> QED BY <1>1, PagesStepIsServed, PTL DEF PagesSpec, Spec

-----------------------------------------------------------------------------
\* What requests and pages have to do with each other.

\* No request arrives, and those that have arrived keep what they were sent.
NobodyArrives ==
    \A r \in WebRequests :
        /\ Idle(r)' <=> Idle(r)
        /\ ~Idle(r) => KeyOf(r)' = KeyOf(r) /\ PayloadOf(r)' = PayloadOf(r)

LEMMA SentKeysStay ==
    ASSUME NobodyArrives, NEW v \in Visitors
    PROVE  SentKeys(v)' = SentKeys(v)
<1>1. WebRequests' = WebRequests /\ Client(v)' = Client(v)
    BY DEF WebRequests, Client
<1>2. \A raw \in RawKeys : Scoped(raw, Client(v))' = Scoped(raw, Client(v))
    BY <1>1 DEF Scoped
<1> QED BY <1>1, <1>2 DEF NobodyArrives, SentKeys

LEMMA RequestsStay ==
    ASSUME PagesWaitForTheirOwn, RequestsComeFromPages, NobodyArrives,
           \A v \in Browsers : page[v].sent # NoKey => page'[v].sent # NoKey,
           \A v \in Visitors : page'[v].waits \in {Nothing, page[v].waits},
           \A v \in Visitors :
               page[v].waits # Nothing => page[v].waits \in WebRequests
    PROVE  PagesWaitForTheirOwn' /\ RequestsComeFromPages'
<1>1. PagesWaitForTheirOwn'
    BY DEF PagesWaitForTheirOwn, NobodyArrives
<1>2. \A v \in Visitors, raw \in RawKeys \cup {NoKey} :
          Scoped(raw, Client(v))' = Scoped(raw, Client(v))
    BY DEF Scoped, Client
<1>3. RequestsComeFromPages'
    <2> SUFFICES ASSUME NEW r \in WebRequests, ~Idle(r)'
                 PROVE  LET v == Sender[r]
                        IN  /\ PayloadOf(r)' = Payload[v]
                            /\ v \in Browsers => page'[v].sent # NoKey
                            /\ KeyOf(r)' \in {Scoped(raw, Client(v)) :
                                                raw \in RawKeys \cup {NoKey}}
                            /\ IF Sanitized(Header[v]) # NoKey
                               THEN KeyOf(r)' = Scoped(Header[v], Client(v))
                               ELSE KeyOf(r)' # NoKey <=> v \in Browsers
        BY DEF RequestsComeFromPages, WebRequests, Scoped, Client, Sanitized
    <2> QED BY DEF NobodyArrives, RequestsComeFromPages
<1> QED BY <1>1, <1>3

\* The page of one visitor changes: it may show keys that are new.
LEMMA KeysStayApart ==
    ASSUME KeysAreApart, FormsKeepTheirKey, NEW v \in Visitors,
           issued \subseteq issued',
           \A u \in Visitors \ {v} :
               /\ SendsFormKey(u) => KnownKeys(u)' \subseteq KnownKeys(u)
               /\ renewed'[u] = renewed[u],
           SendsFormKey(v) =>
               /\ KnownKeys(v)' \subseteq KnownKeys(v) \cup (issued' \ issued)
               /\ App = "flask" /\ NoHeaderNextToForms =>
                     "mismatch" \notin renewed'[v]
               /\ renewed'[v] = {} /\ renewed[v] = {}
                     /\ (\A a, b \in KnownKeys(v) : a = b)
                  => \A a, b \in KnownKeys(v)' : a = b
               /\ renewed'[v] = {} => renewed[v] = {}
    PROVE  KeysAreApart' /\ FormsKeepTheirKey'
<1>1. KeysAreApart'
    <2> SUFFICES ASSUME NEW u \in Visitors, SendsFormKey(u)
                 PROVE  /\ KnownKeys(u)' \subseteq issued'
                        /\ \A x \in Visitors \ {u} :
                              SendsFormKey(x) =>
                                  KnownKeys(x)' \cap KnownKeys(u)' = {}
        BY DEF KeysAreApart, SendsFormKey, Sanitized
    <2>1. KnownKeys(u)' \subseteq issued'
        BY DEF KeysAreApart
    <2>2. ASSUME NEW x \in Visitors \ {u}, SendsFormKey(x)
          PROVE  KnownKeys(x)' \cap KnownKeys(u)' = {}
        <3>1. /\ KnownKeys(x) \subseteq issued
              /\ KnownKeys(u) \subseteq issued
              /\ KnownKeys(x) \cap KnownKeys(u) = {}
            BY <2>2 DEF KeysAreApart
        <3> QED BY <2>2, <3>1
    <2> QED BY <2>1, <2>2
<1>2. FormsKeepTheirKey'
    <2> SUFFICES ASSUME App = "flask", NoHeaderNextToForms,
                        NEW u \in Visitors, SendsFormKey(u)
                 PROVE  /\ "mismatch" \notin renewed'[u]
                        /\ renewed'[u] = {} => \A a, b \in KnownKeys(u)' : a = b
        BY DEF FormsKeepTheirKey, NoHeaderNextToForms, SendsFormKey, Sanitized
    <2>1. /\ "mismatch" \notin renewed[u]
          /\ renewed[u] = {} => \A a, b \in KnownKeys(u) : a = b
        BY DEF FormsKeepTheirKey
    <2> QED BY <2>1
<1> QED BY <1>1, <1>2

-----------------------------------------------------------------------------
\* Pages that show and answer.

Shown == issued \cup {NoKey} \cup {Sanitized(Header[v]) : v \in Visitors}

Pages == [key : Shown, sent : Shown, waits : WebRequests \cup {Nothing}]

LEMMA PagesAre == PagesOK => page \in [Visitors -> Pages] /\ issued \subseteq RawKeys
    BY DEF PagesOK, Pages, Shown

LEMMA PagesAreStill ==
    ASSUME PagesOK, issued \subseteq issued', issued' \subseteq RawKeys,
           NEW v \in Visitors, NEW pg,
           page' = [page EXCEPT ![v] = pg],
           pg \in [key : Shown', sent : Shown', waits : WebRequests \cup {Nothing}],
           renewed' \in [Visitors -> SUBSET {"too_many", "invalid", "mismatch",
                                            "unavailable", "in_flight"}],
           App = "flask" => \A u \in Visitors : "in_flight" \notin renewed'[u]
    PROVE  PagesOK'
<1>1. Shown \subseteq Shown'
    BY DEF Shown
<1>2. page' \in [Visitors -> [key : Shown', sent : Shown',
                              waits : WebRequests \cup {Nothing}]]
    BY <1>1, PagesAre DEF Pages
<1>3. WebRequests' = WebRequests
    BY DEF WebRequests
<1> QED BY <1>2, <1>3 DEF PagesOK, Shown

\* The form of a browser that sends its key has one that was issued.
LEMMA FormHasKey ==
    ASSUME PagesInv, NEW v \in Browsers, NEW form \in FormKeys(v)
    PROVE  /\ form # NoKey /\ form \in Shown
           /\ SendsFormKey(v) =>
                 /\ form \in KnownKeys(v) /\ form \in RawKeys
                 /\ Resolved(Header[v], form) = form
           /\ Resolved(Header[v], form) \in Shown
<1>1. v \in Visitors
    BY FormPagesAssumption
<1>2. page[v] \in Pages /\ issued \subseteq RawKeys
    BY <1>1, PagesAre DEF PagesInv
<1>3. form # NoKey /\ form \in {page[v].key, page[v].sent} /\ form \in Shown
    BY <1>2 DEF FormKeys, Pages
<1>4. SendsFormKey(v) => form \in KnownKeys(v) /\ form \in RawKeys
    BY <1>1, <1>2, <1>3 DEF PagesInv, KeysAreApart, KnownKeys
<1>5. SendsFormKey(v) => Resolved(Header[v], form) = form
    BY <1>4, ResolvedIs DEF SendsFormKey
<1>6. Resolved(Header[v], form) \in Shown
    BY <1>1, <1>3 DEF Resolved, Sanitized, Shown
<1> QED BY <1>3, <1>4, <1>5, <1>6

LEMMA VarsRest ==
    ASSUME UNCHANGED vars
    PROVE  NobodyArrives
    BY DEF vars, desk, NobodyArrives, Idle, KeyOf, PayloadOf

\* A page is shown, and nobody arrives.
LEMMA PageChanges ==
    ASSUME PagesInv, UNCHANGED vars, NEW v \in Visitors, NEW pg,
           page' = [page EXCEPT ![v] = pg],
           issued \subseteq issued', issued' \subseteq RawKeys,
           pg \in [key : Shown', sent : Shown', waits : WebRequests \cup {Nothing}],
           pg.waits \in {Nothing, page[v].waits},
           v \in Browsers /\ page[v].sent # NoKey => pg.sent # NoKey,
           renewed' \in [Visitors -> SUBSET {"too_many", "invalid", "mismatch",
                                            "unavailable", "in_flight"}],
           \A u \in Visitors \ {v} : renewed'[u] = renewed[u],
           App = "flask" => "in_flight" \notin renewed'[v],
           SendsFormKey(v) =>
               /\ {pg.key, pg.sent} \ {NoKey}
                     \subseteq KnownKeys(v) \cup (issued' \ issued)
               /\ App = "flask" /\ NoHeaderNextToForms =>
                     "mismatch" \notin renewed'[v]
               /\ \/ renewed'[v] # {}
                  \/ /\ renewed'[v] = renewed[v]
                     /\ {pg.key, pg.sent} \ {NoKey} \subseteq KnownKeys(v)
                  \/ /\ renewed'[v] = renewed[v]
                     /\ SentKeys(v) = {}
                     /\ pg.sent = NoKey
    PROVE  PagesInv'
<1>1. page \in [Visitors -> Pages]
    BY PagesAre DEF PagesInv
<1>2. /\ page'[v] = pg
      /\ \A u \in Visitors \ {v} : page'[u] = page[u]
    BY <1>1
<1>3. NobodyArrives
    BY VarsRest
<1>4. PagesOK'
    BY PagesAreStill DEF PagesInv, PagesOK
<1>5. PagesWaitForTheirOwn' /\ RequestsComeFromPages'
    <2>1. \A u \in Browsers : page[u].sent # NoKey => page'[u].sent # NoKey
        BY <1>2, FormPagesAssumption
    <2>2. \A u \in Visitors : page'[u].waits \in {Nothing, page[u].waits}
        BY <1>2
    <2>3. \A u \in Visitors :
              page[u].waits # Nothing => page[u].waits \in WebRequests
        BY <1>1 DEF Pages
    <2> QED BY <1>3, <2>1, <2>2, <2>3, RequestsStay DEF PagesInv
<1>6. KeysAreApart' /\ FormsKeepTheirKey'
    <2>1. \A u \in Visitors :
              KnownKeys(u)' = ({page'[u].key, page'[u].sent} \ {NoKey})
                              \cup SentKeys(u)
        BY <1>3, SentKeysStay DEF KnownKeys
    <2>2. \A u \in Visitors \ {v} : KnownKeys(u)' \subseteq KnownKeys(u)
        BY <1>2, <2>1 DEF KnownKeys
    <2>3. KnownKeys(v)' = ({pg.key, pg.sent} \ {NoKey}) \cup SentKeys(v)
        BY <1>2, <2>1
    <2>4. ASSUME SendsFormKey(v)
          PROVE  /\ KnownKeys(v)' \subseteq KnownKeys(v) \cup (issued' \ issued)
                 /\ App = "flask" /\ NoHeaderNextToForms =>
                       "mismatch" \notin renewed'[v]
                 /\ renewed'[v] = {} /\ renewed[v] = {}
                       /\ (\A a, b \in KnownKeys(v) : a = b)
                    => \A a, b \in KnownKeys(v)' : a = b
                 /\ renewed'[v] = {} => renewed[v] = {}
        <3>1. SentKeys(v) \subseteq KnownKeys(v)
            BY DEF KnownKeys
        <3>2. KnownKeys(v)' \subseteq KnownKeys(v) \cup (issued' \ issued)
            BY <2>3, <2>4, <3>1
        <3>3. ASSUME renewed'[v] = {}, renewed[v] = {},
                     \A a, b \in KnownKeys(v) : a = b
              PROVE  \A a, b \in KnownKeys(v)' : a = b
            <4>1. CASE {pg.key, pg.sent} \ {NoKey} \subseteq KnownKeys(v)
                BY <2>3, <3>1, <3>3, <4>1
            <4>2. CASE SentKeys(v) = {} /\ pg.sent = NoKey
                BY <2>3, <4>2
            <4> QED BY <2>4, <3>3, <4>1, <4>2
        <3> QED BY <2>4, <3>2, <3>3
    <2> QED BY <2>2, <2>4, KeysStayApart DEF PagesInv
<1> QED BY <1>4, <1>5, <1>6 DEF PagesInv

LEMMA OpenFormKeepsPages ==
    ASSUME PagesInv, NEW v \in Visitors, OpenForm(v)
    PROVE  PagesInv'
<1>1. PICK key \in RawKeys \ issued :
          /\ issued' = issued \cup {key}
          /\ page' = [page EXCEPT ![v].key = key]
    BY DEF OpenForm, FreshKey
<1> DEFINE pg == [NoPage EXCEPT !.key = key]
<1>2. page \in [Visitors -> Pages] /\ issued \subseteq RawKeys
    BY PagesAre DEF PagesInv
<1>3. /\ page[v] = NoPage /\ page' = [page EXCEPT ![v] = pg]
      /\ UNCHANGED vars /\ renewed' = renewed
    BY <1>1, <1>2 DEF OpenForm
<1>4. /\ pg \in [key : Shown', sent : Shown',
                 waits : WebRequests \cup {Nothing}]
      /\ pg.key = key /\ pg.sent = NoKey /\ pg.waits = Nothing
      /\ page[v].sent = NoKey
    BY <1>1, <1>3 DEF NoPage, Shown
<1>5. v \in Browsers => SentKeys(v) = {}
    BY <1>4 DEF PagesInv, RequestsComeFromPages, SentKeys
<1>6. /\ renewed \in [Visitors -> SUBSET {"too_many", "invalid", "mismatch",
                                         "unavailable", "in_flight"}]
      /\ App = "flask" => "in_flight" \notin renewed[v]
      /\ SendsFormKey(v) /\ App = "flask" /\ NoHeaderNextToForms =>
            "mismatch" \notin renewed[v]
    BY DEF PagesInv, PagesOK, FormsKeepTheirKey
<1>7. issued \subseteq issued' /\ issued' \subseteq RawKeys
      /\ key \in issued' \ issued
    BY <1>1, <1>2
<1> HIDE DEF pg
<1> QED
    BY <1>3, <1>4, <1>5, <1>6, <1>7, PageChanges DEF SendsFormKey

LEMMA ShowPageKeepsPages ==
    ASSUME PagesInv, UNCHANGED vars, NEW v \in Visitors, NEW form, NEW answer,
           ShowPage(v, form, answer),
           v \in Browsers => form \in FormKeys(v),
           /\ App = "flask" /\ NoHeaderNextToForms
           /\ SendsFormKey(v)
           => answer # "mismatch"
    PROVE  PagesInv'
<1>1. page \in [Visitors -> Pages] /\ page[v] \in Pages /\ issued \subseteq RawKeys
    BY PagesAre DEF PagesInv
<1>2. /\ renewed \in [Visitors -> SUBSET {"too_many", "invalid", "mismatch",
                                         "unavailable", "in_flight"}]
      /\ App = "flask" => "in_flight" \notin renewed[v]
      /\ SendsFormKey(v) /\ App = "flask" /\ NoHeaderNextToForms =>
            "mismatch" \notin renewed[v]
    BY DEF PagesInv, PagesOK, FormsKeepTheirKey
<1>3. v \in Browsers =>
          /\ form # NoKey /\ form \in Shown
          /\ SendsFormKey(v) =>
                form \in KnownKeys(v) /\ Resolved(Header[v], form) = form
          /\ Resolved(Header[v], form) \in Shown
    BY FormHasKey
<1>4. SendsFormKey(v) => v \in Browsers
    BY DEF SendsFormKey
<1>5. CASE RenewsKey(answer) /\ v \in Browsers
    <2>1. PICK key \in RawKeys \ issued :
              /\ issued' = issued \cup {key}
              /\ page' = [page EXCEPT ![v] = [key |-> key, sent |-> form,
                                              waits |-> Nothing]]
              /\ renewed' = [renewed EXCEPT ![v] = @ \cup {answer}]
        BY <1>5 DEF ShowPage, FreshKey
    <2> DEFINE pg == [key |-> key, sent |-> form, waits |-> Nothing]
    <2>2. /\ pg \in [key : Shown', sent : Shown',
                     waits : WebRequests \cup {Nothing}]
          /\ pg.key = key /\ pg.sent = form /\ pg.waits = Nothing
        BY <1>3, <1>5, <2>1 DEF Shown
    <2>3. page' = [page EXCEPT ![v] = pg]
        BY <2>1
    <2>4. /\ answer \in {"too_many", "invalid", "mismatch", "unavailable",
                        "in_flight"}
          /\ App = "flask" => answer # "in_flight"
        BY <1>5 DEF RenewsKey
    <2>5. /\ renewed' \in [Visitors -> SUBSET {"too_many", "invalid", "mismatch",
                                              "unavailable", "in_flight"}]
          /\ \A u \in Visitors \ {v} : renewed'[u] = renewed[u]
          /\ renewed'[v] = renewed[v] \cup {answer}
        BY <1>2, <2>1, <2>4
    <2>6. issued \subseteq issued' /\ issued' \subseteq RawKeys
          /\ key \in issued' \ issued
        BY <1>1, <2>1
    <2> HIDE DEF pg
    <2>7. SendsFormKey(v) =>
              /\ {pg.key, pg.sent} \ {NoKey}
                    \subseteq KnownKeys(v) \cup (issued' \ issued)
              /\ App = "flask" /\ NoHeaderNextToForms =>
                    "mismatch" \notin renewed'[v]
              /\ renewed'[v] # {}
        BY <1>2, <1>3, <1>4, <2>2, <2>5, <2>6
    <2>8. /\ App = "flask" => "in_flight" \notin renewed'[v]
          /\ pg.waits \in {Nothing, page[v].waits}
          /\ pg.sent # NoKey
        BY <1>2, <1>3, <1>5, <2>2, <2>4, <2>5
    <2> QED
        BY <2>2, <2>3, <2>5, <2>6, <2>7, <2>8, PageChanges
<1>6. CASE ~(RenewsKey(answer) /\ v \in Browsers)
    <2> DEFINE key == IF answer = "in_flight" /\ v \in Browsers
                      THEN Resolved(Header[v], form) ELSE page[v].key
               pg == [key |-> key, sent |-> page[v].sent, waits |-> Nothing]
    <2>1. /\ page' = [page EXCEPT ![v] = pg]
          /\ issued' = issued /\ renewed' = renewed
        BY <1>1, <1>6 DEF ShowPage, Pages
    <2>2. key \in Shown
        BY <1>1, <1>3 DEF Pages
    <2>3. SendsFormKey(v) => {key, page[v].sent} \ {NoKey} \subseteq KnownKeys(v)
        BY <1>3, <1>4 DEF KnownKeys
    <2>4. Shown' = Shown
        BY <2>1 DEF Shown
    <2> HIDE DEF key
    <2>5. /\ pg \in [key : Shown', sent : Shown',
                     waits : WebRequests \cup {Nothing}]
          /\ pg.key = key /\ pg.sent = page[v].sent /\ pg.waits = Nothing
        BY <1>1, <2>2, <2>4 DEF Pages
    <2> HIDE DEF pg
    <2>6. SendsFormKey(v) => /\ {pg.key, pg.sent} \ {NoKey} \subseteq KnownKeys(v)
                             /\ KnownKeys(v) \subseteq
                                   KnownKeys(v) \cup (issued' \ issued)
        BY <2>3, <2>5
    <2>7. issued \subseteq issued' /\ issued' \subseteq RawKeys
        BY <1>1, <2>1
    <2>8. /\ pg.waits \in {Nothing, page[v].waits}
          /\ page[v].sent # NoKey => pg.sent # NoKey
        BY <2>5
    <2> QED
        BY <1>2, <2>1, <2>5, <2>6, <2>7, <2>8, PageChanges
<1> QED BY <1>5, <1>6

\* Two requests that meet come from one address, and were sent by the same
\* visitor if keys come from forms.
LEMMA WhoMeets ==
    ASSUME PagesInv, NEW r \in WebRequests, ~Idle(r), NEW answer,
           Meets(r, answer)
    PROVE  \E other \in WebRequests \ {r} :
              /\ ~Idle(other)
              /\ Address[Sender[other]] = Address[Sender[r]]
              /\ NoHeaderNextToForms /\ SendsFormKey(Sender[r]) =>
                    Sender[other] = Sender[r]
              /\ answer = "mismatch" => PayloadOf(other) # PayloadOf(r)
<1>1. PICK other \in WebRequests \ {r} :
          /\ ~Idle(other)
          /\ KeyOf(other) = KeyOf(r)
          /\ answer = "mismatch" => PayloadOf(other) # PayloadOf(r)
    BY DEF Meets
<1> DEFINE v == Sender[r]
           u == Sender[other]
<1>2. v \in Visitors /\ u \in Visitors /\ KeyOf(r) # NoKey
    BY FormPagesAssumption DEF Meets
<1>3. PICK raw \in RawKeys \cup {NoKey} : KeyOf(r) = Scoped(raw, Client(v))
    BY DEF PagesInv, RequestsComeFromPages
<1>4. PICK also \in RawKeys \cup {NoKey} :
          KeyOf(other) = Scoped(also, Client(u))
    BY <1>1 DEF PagesInv, RequestsComeFromPages
<1>5. raw # NoKey /\ raw \in RawKeys
    BY <1>2, <1>3, ScopedKeyIs
<1>6. also = raw /\ Address[u] = Address[v]
    BY <1>1, <1>2, <1>3, <1>4, <1>5, ScopedKeyIs
<1>7. ASSUME NoHeaderNextToForms, SendsFormKey(v)
      PROVE  u = v
    <2>1. Sanitized(Header[u]) = NoKey
        BY <1>2, <1>6, <1>7 DEF NoHeaderNextToForms
    <2>2. SendsFormKey(u)
        BY <1>1, <1>2, <2>1
        DEF SendsFormKey, PagesInv, RequestsComeFromPages
    <2>3. raw \in KnownKeys(v) /\ raw \in KnownKeys(u)
        BY <1>1, <1>3, <1>4, <1>5, <1>6 DEF KnownKeys, SentKeys
    <2> QED BY <1>2, <1>7, <2>2, <2>3 DEF PagesInv, KeysAreApart
<1> QED BY <1>1, <1>6, <1>7

LEMMA ReceiveAnswerKeepsPages ==
    ASSUME PagesInv, CauseInv, NEW v \in Visitors, ReceiveAnswer(v)
    PROVE  PagesInv'
<1> DEFINE r == page[v].waits
<1>1. page[v] \in Pages
    BY PagesAre DEF PagesInv
<1>2. /\ r # Nothing /\ r \in WebRequests
      /\ Sender[r] = v /\ ~Idle(r)
      /\ Answered(r)
      /\ ShowPage(v, page[v].sent, AnswerTo(r))
      /\ UNCHANGED vars
    BY <1>1 DEF ReceiveAnswer, Pages, PagesInv, PagesWaitForTheirOwn
<1>3. v \in Browsers => page[v].sent \in FormKeys(v)
    BY <1>2 DEF PagesInv, RequestsComeFromPages, FormKeys
<1>4. NoHeaderNextToForms /\ SendsFormKey(v) => AnswerTo(r) # "mismatch"
    <2> SUFFICES ASSUME NoHeaderNextToForms, SendsFormKey(v),
                        AnswerTo(r) = "mismatch"
                 PROVE  FALSE
        OBVIOUS
    <2>1. Meets(r, "mismatch")
        BY <1>2 DEF CauseInv, OthersHaveTheKey
    <2>2. PICK other \in WebRequests : /\ ~Idle(other)
                                      /\ Sender[other] = v
                                      /\ PayloadOf(other) # PayloadOf(r)
        BY <1>2, <2>1, WhoMeets
    <2>3. PayloadOf(other) = Payload[v] /\ PayloadOf(r) = Payload[v]
        BY <1>2, <2>2 DEF PagesInv, RequestsComeFromPages
    <2> QED BY <2>2, <2>3
<1> DEFINE answer == AnswerTo(r)
<1>5. ShowPage(v, page[v].sent, answer)
    BY <1>2
<1>6. NoHeaderNextToForms /\ SendsFormKey(v) => answer # "mismatch"
    BY <1>4
<1> HIDE DEF answer
<1> QED BY <1>2, <1>3, <1>5, <1>6, ShowPageKeepsPages

LEMMA TurnedAwayKeepsPages ==
    ASSUME PagesInv, NEW v \in Visitors, TurnedAway(v)
    PROVE  PagesInv'
<1>1. PICK form \in FormKeys(v), answer \in {"too_many", "invalid"} :
          ShowPage(v, form, answer)
    BY DEF TurnedAway
<1>2. UNCHANGED vars
    BY DEF TurnedAway
<1> QED BY <1>1, <1>2, ShowPageKeepsPages

-----------------------------------------------------------------------------
\* Requests that arrive, and services that go on with them.

LEMMA ArrivalIs ==
    ASSUME DeskInv, SyncInv, NEW r \in WebRequests, NEW key, NEW payload,
           IF r \in Tasks
           THEN Arrive(r, key, payload) /\ AsyncRequest(r)
           ELSE /\ r \in SyncRequestIds
                /\ ArriveSync(r, key, payload)
                /\ SyncRequest(r)
    PROVE  /\ ~Idle(r)' /\ KeyOf(r)' = key /\ PayloadOf(r)' = payload
           /\ \A x \in WebRequests \ {r} :
                 /\ Idle(x)' <=> Idle(x)
                 /\ KeyOf(x)' = KeyOf(x)
                 /\ PayloadOf(x)' = PayloadOf(x)
<1>1. CASE r \in Tasks
    <2>1. /\ req'[r].step # "idle"
          /\ req'[r].key = key /\ req'[r].payload = payload
          /\ \A x \in Tasks \ {r} : req'[x] = req[x]
          /\ sync' = sync
        BY <1>1, DeskIsOK DEF Arrive, AsyncRequest, DeskOK
    <2> QED BY <1>1, <2>1 DEF Idle, KeyOf, PayloadOf, WebRequests
<1>2. CASE r \notin Tasks
    <2>1. /\ sync'[r].step # "idle"
          /\ sync'[r].key = key /\ sync'[r].payload = payload
          /\ \A x \in SyncRequestIds \ {r} : sync'[x] = sync[x]
          /\ req' = req
        BY <1>2 DEF ArriveSync, SyncRequest, SyncInv, desk
    <2> QED BY <1>2, <2>1 DEF Idle, KeyOf, PayloadOf, WebRequests
<1> QED BY <1>1, <1>2

LEMMA PostKeepsPages ==
    ASSUME ServiceInv, PagesInv, NEW v \in Visitors, Post(v)
    PROVE  PagesInv'
<1>1. PICK r \in WebRequests, form \in FormKeys(v) :
          /\ Sender[r] = v
          /\ Idle(r)
          /\ LET key == Scoped(Resolved(Header[v], form), Client(v))
             IN  IF r \in Tasks
                 THEN Arrive(r, key, Payload[v]) /\ AsyncRequest(r)
                 ELSE /\ r \in SyncRequestIds
                      /\ ArriveSync(r, key, Payload[v])
                      /\ SyncRequest(r)
          /\ page' = [page EXCEPT ![v].sent = form, ![v].waits = r]
          /\ issued' = issued /\ renewed' = renewed
    BY PostIsARequest
<1> DEFINE raw == Resolved(Header[v], form)
           key == Scoped(raw, Client(v))
           pg == [page[v] EXCEPT !.sent = form, !.waits = r]
<1>2. page \in [Visitors -> Pages] /\ page[v] \in Pages /\ issued \subseteq RawKeys
    BY PagesAre DEF PagesInv
<1>3. page' = [page EXCEPT ![v] = pg]
    <2>1. page' = [page EXCEPT ![v].sent = form, ![v].waits = r]
        BY <1>1
    <2> QED BY <1>2, <2>1
<1>4. /\ page'[v] = pg
      /\ \A u \in Visitors \ {v} : page'[u] = page[u]
    BY <1>2, <1>3
<1>5. /\ ~Idle(r)' /\ KeyOf(r)' = key /\ PayloadOf(r)' = Payload[v]
      /\ \A x \in WebRequests \ {r} :
            /\ Idle(x)' <=> Idle(x)
            /\ KeyOf(x)' = KeyOf(x)
            /\ PayloadOf(x)' = PayloadOf(x)
    BY <1>1, ArrivalIs DEF ServiceInv
<1>6. /\ raw \in RawKeys \cup {NoKey}
      /\ Sanitized(Header[v]) # NoKey => raw = Header[v]
      /\ key # NoKey <=> raw # NoKey
    <2>1. raw \in RawKeys \cup {NoKey}
        BY ResolvedIs
    <2> QED BY <2>1, ResolvedIs, ScopedKeyIs
<1>7. v \notin Browsers => form = NoKey
    BY DEF FormKeys
<1>8. v \in Browsers =>
          /\ form # NoKey /\ form \in Shown
          /\ SendsFormKey(v) => form \in KnownKeys(v) /\ raw = form
    BY FormHasKey
<1>9. /\ pg.key = page[v].key /\ pg.sent = form /\ pg.waits = r
      /\ pg \in [key : Shown', sent : Shown', waits : WebRequests \cup {Nothing}]
    <2>1. Shown' = Shown /\ NoKey \in Shown
        BY <1>1 DEF Shown
    <2> QED BY <1>2, <1>7, <1>8, <2>1 DEF Pages
<1> HIDE DEF pg
<1>10. PagesOK'
    BY ZenonT(40), <1>1, <1>2, <1>3, <1>9, PagesAreStill DEF PagesInv, PagesOK
<1>11. PagesWaitForTheirOwn'
    <2> SUFFICES ASSUME NEW u \in Visitors, NEW x, page'[u].waits = x,
                        x # Nothing
                 PROVE  Sender[x] = u /\ ~Idle(x)'
        BY DEF PagesWaitForTheirOwn, Idle
    <2>1. CASE u = v
        BY <1>1, <1>4, <1>5, <1>9, <2>1
    <2>2. CASE u # v
        <3>1. /\ page[u].waits = x
              /\ x \in WebRequests
              /\ Sender[x] = u /\ ~Idle(x)
            BY <1>2, <1>4, <2>2 DEF Pages, PagesInv, PagesWaitForTheirOwn
        <3> QED BY <1>1, <1>5, <3>1
    <2> QED BY <2>1, <2>2
<1>12. \A u \in Visitors, x \in RawKeys \cup {NoKey} :
           Scoped(x, Client(u))' = Scoped(x, Client(u))
    BY DEF Scoped, Client
<1>13. \A u \in Browsers : page[u].sent # NoKey => page'[u].sent # NoKey
    BY <1>4, <1>8, <1>9, FormPagesAssumption
<1>14. RequestsComeFromPages'
    <2> SUFFICES ASSUME NEW x \in WebRequests, ~Idle(x)'
                 PROVE  LET u == Sender[x]
                        IN  /\ PayloadOf(x)' = Payload[u]
                            /\ u \in Browsers => page'[u].sent # NoKey
                            /\ KeyOf(x)' \in {Scoped(y, Client(u)) :
                                                y \in RawKeys \cup {NoKey}}
                            /\ IF Sanitized(Header[u]) # NoKey
                               THEN KeyOf(x)' = Scoped(Header[u], Client(u))
                               ELSE KeyOf(x)' # NoKey <=> u \in Browsers
        BY DEF RequestsComeFromPages, WebRequests, Scoped, Client, Sanitized
    <2>1. CASE x = r
        <3>1. Sanitized(Header[v]) = NoKey =>
                  (KeyOf(r)' # NoKey <=> v \in Browsers)
            <4>1. SendsFormKey(v) => key # NoKey
                BY <1>6, <1>8 DEF SendsFormKey
            <4>2. Sanitized(Header[v]) = NoKey /\ v \notin Browsers => raw = NoKey
                BY <1>7, ResolvedIs, ClientKeysAssumption
            <4> QED BY <1>5, <1>6, <4>1, <4>2 DEF SendsFormKey
        <3>2. v \in Browsers => page'[v].sent # NoKey
            BY <1>4, <1>8, <1>9
        <3> QED BY <1>1, <1>5, <1>6, <2>1, <3>1, <3>2
    <2>2. CASE x # r
        <3>1. ~Idle(x) /\ KeyOf(x)' = KeyOf(x) /\ PayloadOf(x)' = PayloadOf(x)
            BY <1>5, <2>2
        <3> QED BY <1>13, <3>1 DEF PagesInv, RequestsComeFromPages
    <2> QED BY <2>1, <2>2
<1>15. \A u \in Visitors : SendsFormKey(u) => KnownKeys(u)' \subseteq KnownKeys(u)
    <2> SUFFICES ASSUME NEW u \in Visitors, SendsFormKey(u), NEW x \in KnownKeys(u)'
                 PROVE  x \in KnownKeys(u)
        OBVIOUS
    <2>1. CASE x \in {page'[u].key, page'[u].sent} \ {NoKey}
        <3>1. CASE u = v
            BY <1>4, <1>8, <1>9, <2>1, <3>1 DEF KnownKeys, SendsFormKey
        <3>2. CASE u # v
            BY <1>4, <2>1, <3>2 DEF KnownKeys
        <3> QED BY <3>1, <3>2
    <2>2. CASE x \in SentKeys(u)'
        <3>1. PICK y \in WebRequests :
                  /\ Sender[y] = u /\ ~Idle(y)'
                  /\ KeyOf(y)' = Scoped(x, Client(u))
                  /\ x \in RawKeys
            BY <1>12, <2>2 DEF SentKeys, WebRequests
        <3>2. CASE y = r
            <4>1. u = v /\ Scoped(x, Client(v)) = key
                BY <1>1, <1>5, <3>1, <3>2
            <4>2. x # NoKey
                BY <3>1, ClientKeysAssumption
            <4>3. raw = x
                BY <1>6, <3>1, <4>1, <4>2, ScopedKeyIs
            <4> QED BY <1>8, <4>1, <4>3 DEF SendsFormKey
        <3>3. CASE y # r
            <4>1. ~Idle(y) /\ KeyOf(y) = Scoped(x, Client(u))
                BY <1>5, <3>1, <3>3
            <4> QED BY <3>1, <4>1 DEF SentKeys, KnownKeys
        <3> QED BY <3>2, <3>3
    <2> QED BY <2>1, <2>2 DEF KnownKeys
<1>16. KeysAreApart' /\ FormsKeepTheirKey'
    <2>1. SendsFormKey(v) /\ App = "flask" /\ NoHeaderNextToForms =>
              "mismatch" \notin renewed[v]
        BY DEF PagesInv, FormsKeepTheirKey
    <2> QED BY <1>1, <1>15, <2>1, KeysStayApart DEF PagesInv
<1> QED BY <1>10, <1>11, <1>14, <1>16 DEF PagesInv

LEMMA ServicesKeepPages ==
    ASSUME PagesInv, NobodyArrives, UNCHANGED pages
    PROVE  PagesInv'
<1>1. page' = page /\ issued' = issued /\ renewed' = renewed
    BY DEF pages
<1>2. page \in [Visitors -> Pages]
    BY PagesAre DEF PagesInv
<1>3. PagesOK'
    BY <1>1 DEF PagesInv, PagesOK, WebRequests, Sanitized
<1>4. PagesWaitForTheirOwn' /\ RequestsComeFromPages'
    <2>1. \A v \in Visitors :
              page[v].waits # Nothing => page[v].waits \in WebRequests
        BY <1>2 DEF Pages
    <2> QED BY <1>1, <2>1, RequestsStay DEF PagesInv
<1>5. \A v \in Visitors : KnownKeys(v)' = KnownKeys(v)
    BY <1>1, SentKeysStay DEF KnownKeys
<1>6. KeysAreApart' /\ FormsKeepTheirKey'
    BY <1>1, <1>5
    DEF PagesInv, KeysAreApart, FormsKeepTheirKey, NoHeaderNextToForms,
        SendsFormKey, Sanitized
<1> QED BY <1>3, <1>4, <1>6 DEF PagesInv

LEMMA ServicesTakeNobody ==
    ASSUME ServiceInv,
           \/ \E t \in Tasks : AsyncGoesOn(t)
           \/ \E s \in SyncRequestIds : SyncGoesOn(s)
           \/ \E w \in Workers : WorkerGoesOn(w)
           \/ TimePasses
           \/ PagesDone
    PROVE  NobodyArrives /\ UNCHANGED pages
<1>1. WorkInv /\ DeskInv /\ SyncInv
    BY DEF ServiceInv
<1>2. ASSUME NEW t \in Tasks, AsyncGoesOn(t)
      PROVE  NobodyArrives /\ UNCHANGED pages
    <2>1. /\ RequestStep(t) /\ AnyRequestStep(t)
          /\ sync' = sync /\ UNCHANGED pages
        BY <1>2 DEF AsyncGoesOn, AnyRequestStep
    <2>2. RequestsGrow
        BY <1>1, <2>1, RequestsWrite, RequestsKeepDesk
    <2>3. /\ req[t].step # "idle"
          /\ \A u \in Tasks \ {t} : req'[u] = req[u]
        BY <1>1, <2>1, WaysToGoOn, RequestBecomes
    <2> QED
        BY <2>1, <2>2, <2>3
        DEF NobodyArrives, RequestsGrow, Idle, KeyOf, PayloadOf, WebRequests
<1>3. ASSUME NEW s \in SyncRequestIds, SyncGoesOn(s)
      PROVE  NobodyArrives /\ UNCHANGED pages
    <2>1. /\ SyncStep(s) /\ SyncRequest(s)
          /\ req' = req /\ UNCHANGED pages
        BY <1>3 DEF SyncGoesOn, SyncRequest, desk
    <2>2. SyncsGrow
        BY <1>1, <2>1, SyncsGrowWhenOneMoves
    <2>3. /\ sync[s].step # "idle"
          /\ \A r \in SyncRequestIds \ {s} : sync'[r] = sync[r]
        BY <1>1, <2>1, SyncBecomes
        DEF SyncStep, CheckClaim, CheckStatus, SyncSaveStep, SyncSaved,
            SyncRefused, SyncDies
    <2> QED
        BY <2>1, <2>2, <2>3
        DEF NobodyArrives, SyncsGrow, Idle, KeyOf, PayloadOf, WebRequests
<1>4. CASE (\E w \in Workers : WorkerGoesOn(w)) \/ TimePasses \/ PagesDone
    <2>1. req' = req /\ sync' = sync /\ UNCHANGED pages
        BY <1>4
        DEF WorkerGoesOn, WorkerRuns, TimePasses, PassTime, PagesDone,
            pagesVars, vars, desk
    <2> QED BY <2>1 DEF NobodyArrives, Idle, KeyOf, PayloadOf
<1> QED BY <1>2, <1>3, <1>4

-----------------------------------------------------------------------------
\* The theorems about pages.

LEMMA PagesBegin == PagesInit => PagesInv
<1> SUFFICES ASSUME PagesInit PROVE PagesInv
    OBVIOUS
<1>1. /\ page = [v \in Visitors |-> NoPage]
      /\ issued = {}
      /\ renewed = [v \in Visitors |-> {}]
      /\ req = [t \in Tasks |-> NotArrived]
      /\ sync = [s \in SyncRequestIds |-> SyncNotArrived]
    BY DEF PagesInit, Init, InitDesk, InitSync
<1>2. /\ NotArrived.step = "idle" /\ SyncNotArrived.step = "idle"
      /\ NoPage.key = NoKey /\ NoPage.sent = NoKey /\ NoPage.waits = Nothing
      /\ NoPage \in Pages
    BY DEF NotArrived, SyncNotArrived, NoPage, Pages, Shown
<1>3. \A r \in WebRequests : Idle(r)
    BY <1>1, <1>2 DEF WebRequests, Idle
<1>4. \A v \in Visitors : KnownKeys(v) = {}
    BY <1>1, <1>2, <1>3 DEF KnownKeys, SentKeys
<1>5. PagesOK
    BY <1>1, <1>2 DEF PagesOK, Pages, Shown
<1> QED
    BY <1>1, <1>2, <1>3, <1>4, <1>5
    DEF PagesInv, PagesWaitForTheirOwn, RequestsComeFromPages, KeysAreApart,
        FormsKeepTheirKey

LEMMA PagesGoOn ==
    ASSUME ServiceInv, CauseInv, PagesInv, [PagesNext]_pagesVars
    PROVE  PagesInv'
<1>1. ASSUME NEW v \in Visitors,
             OpenForm(v) \/ Post(v) \/ ReceiveAnswer(v) \/ TurnedAway(v)
      PROVE  PagesInv'
    BY <1>1, OpenFormKeepsPages, PostKeepsPages, ReceiveAnswerKeepsPages,
       TurnedAwayKeepsPages
<1>2. CASE \/ \E t \in Tasks : AsyncGoesOn(t)
           \/ \E s \in SyncRequestIds : SyncGoesOn(s)
           \/ \E w \in Workers : WorkerGoesOn(w)
           \/ TimePasses
           \/ PagesDone
    BY <1>2, ServicesTakeNobody, ServicesKeepPages
<1>3. CASE UNCHANGED pagesVars
    <2>1. UNCHANGED vars /\ UNCHANGED pages
        BY <1>3 DEF pagesVars
    <2> QED BY <2>1, VarsRest, ServicesKeepPages
<1> QED BY <1>1, <1>2, <1>3 DEF PagesNext

\* Forms, pages and requests belong together: a request carries the payload of
\* its visitor and a key of its form, no form has another form's key, and behind
\* flask_app a form keeps its key until a page that turned the visitor away has
\* put a fresh one into it.
THEOREM PagesInvariant ==
    ASSUME UnboundedIds
    PROVE  PagesSpec => [](ServiceInv /\ CauseInv /\ PagesInv)
<1>1. PagesSpec => [](ServiceInv /\ CauseInv)
    BY PagesAreServed, ServiceInvariant, RefusalsHaveACause, PTL
<1>2. PagesInit => PagesInv
    BY PagesBegin
<1>3. ServiceInv /\ CauseInv /\ PagesInv /\ [PagesNext]_pagesVars => PagesInv'
    BY PagesGoOn
<1> QED BY <1>1, <1>2, <1>3, PTL DEF PagesSpec

\* Type correctness of the services and the pages.
THEOREM PagesTypeCorrect ==
    ASSUME UnboundedIds PROVE PagesSpec => []PagesTypeOK
<1>1. ServiceInv /\ PagesInv => PagesTypeOK
    BY DeskIsOK
    DEF ServiceInv, WorkInv, StoreInv, SyncInv, TypeOK, PagesInv, PagesTypeOK
<1> QED BY <1>1, PagesInvariant, PTL

\* Clients that pick the same key stay apart: nobody is refused, or given a
\* task, because of a request from another address.
THEOREM ClientsStayApart == ASSUME UnboundedIds PROVE PagesSpec => []ClientsApart
<1>1. CauseInv /\ PagesInv => ClientsApart
    <2> SUFFICES ASSUME CauseInv, PagesInv, NEW r \in WebRequests, Answered(r),
                        AnswerTo(r) \in {"replayed", "mismatch", "in_flight"}
                 PROVE  \E other \in WebRequests \ {r} :
                            /\ ~Idle(other)
                            /\ Address[Sender[other]] = Address[Sender[r]]
        BY DEF ClientsApart
    <2>1. ~Idle(r)
        BY DEF Answered, Idle
    <2>2. PICK answer \in {"replayed", "mismatch", "in_flight"} :
              AnswerTo(r) = answer
        OBVIOUS
    <2>3. Meets(r, answer)
        BY <2>2 DEF CauseInv, OthersHaveTheKey
    <2> QED BY <2>1, <2>3, WhoMeets
<1> QED BY <1>1, PagesInvariant, PTL

\* The row of a browser's request was born under the request's key.
LEMMA RowsOfForms ==
    ASSUME ServiceInv, PagesInv, NEW id \in Ids,
           Sender[submissions[id].origin] \in Browsers
    PROVE  LET r == submissions[id].origin
           IN  /\ r \in WebRequests /\ ~Idle(r)
               /\ submissions[id].born = KeyOf(r)
               /\ KeyOf(r) # NoKey
<1> DEFINE r == submissions[id].origin
           v == Sender[r]
<1>1. /\ DeskInv /\ RowsHaveOwners /\ TasksSaveTheirMessage
    BY DEF ServiceInv, WorkInv
<1>2. ASSUME r \in WebRequests, ~Idle(r)
      PROVE  KeyOf(r) # NoKey
    <2>1. v \in Visitors
        BY <1>2, FormPagesAssumption
    <2>2. CASE Sanitized(Header[v]) # NoKey
        <3>1. Header[v] \in RawKeys /\ Header[v] # NoKey
            BY <2>2, ClientKeysAssumption DEF Sanitized
        <3>2. KeyOf(r) = Scoped(Header[v], Client(v))
            BY <1>2, <2>2 DEF PagesInv, RequestsComeFromPages
        <3> QED BY <2>1, <3>1, <3>2, ScopedKeyIs
    <2>3. CASE Sanitized(Header[v]) = NoKey
        BY <1>2, <2>3 DEF PagesInv, RequestsComeFromPages
    <2> QED BY <2>2, <2>3
<1>3. CASE r \in Tasks
    <2>1. PICK a \in accepted : a.task = r /\ IsRowOf(submissions[id], a)
        BY <1>1, <1>3 DEF TasksSaveTheirMessage
    <2>2. req[r].step # "idle" /\ req[r].key = a.key
        BY <1>1, <2>1 DEF DeskInv, MessagesAreRequests
    <2>3. r \in WebRequests /\ ~Idle(r) /\ KeyOf(r) = a.key
        BY <1>3, <2>2 DEF WebRequests, Idle, KeyOf
    <2> QED BY <1>2, <2>1, <2>3 DEF IsRowOf, EffectiveKey
<1>4. CASE r \notin Tasks
    <2>1. r \in WebRequests /\ ~Idle(r) /\ submissions[id].born = KeyOf(r)
        BY <1>1, <1>4 DEF RowsHaveOwners, WebRequests, Idle, KeyOf
    <2> QED BY <1>2, <2>1
<1> QED BY <1>3, <1>4

\* Behind flask_app, what a browser posts from one form is saved once within
\* the lifetime of its key, however often it posts, unless a page that turned it
\* away or could not reach the queue has renewed the key.  Nobody at the
\* browser's address may send a key of its own: should it be that of the form,
\* the form's key would be renewed after a 422.
THEOREM FormsSaveOnce ==
    ASSUME UnboundedIds, App = "flask", NoHeaderNextToForms
    PROVE  PagesSpec => []OneRowPerForm
<1>1. ServiceInv /\ PagesInv => OneRowPerForm
    <2> SUFFICES ASSUME ServiceInv, PagesInv, NEW i \in Ids, NEW j \in Ids,
                        i < j,
                        Sender[submissions[j].origin]
                            = Sender[submissions[i].origin],
                        Sender[submissions[i].origin] \in Browsers,
                        submissions[j].created < submissions[i].created + TTL
                 PROVE  renewed[Sender[submissions[i].origin]]
                            \cap {"too_many", "invalid", "unavailable"} # {}
        BY DEF OneRowPerForm
    <2> DEFINE v == Sender[submissions[i].origin]
               q == submissions[i].origin
               r == submissions[j].origin
    <2>1. /\ q \in WebRequests /\ ~Idle(q)
          /\ submissions[i].born = KeyOf(q) /\ KeyOf(q) # NoKey
          /\ r \in WebRequests /\ ~Idle(r)
          /\ submissions[j].born = KeyOf(r)
          /\ v \in Visitors /\ Sender[r] = v /\ Sender[q] = v
        BY RowsOfForms, FormPagesAssumption
    <2>2. KeyOf(q) # KeyOf(r)
        <3>1. /\ submissions[i].created \in 0 .. MaxTime
              /\ submissions[j].created \in 0 .. MaxTime
            <4>1. submissions \in Seq(SubmissionRows)
                BY DEF ServiceInv, WorkInv, StoreInv, StoreOK
            <4>2. submissions[i] \in SubmissionRows /\ submissions[j] \in SubmissionRows
                BY <4>1 DEF Ids
            <4> QED BY <4>2 DEF SubmissionRows
        <3>2. ~(submissions[i].created + TTL <= submissions[j].created)
            BY <3>1, EnvironmentAssumption
        <3> QED
            BY <2>1, <3>2
            DEF ServiceInv, WorkInv, StoreInv, OneRowPerKeyWithinTtl
    <2>3. Sanitized(Header[v]) = NoKey
        BY <2>1, <2>2 DEF PagesInv, RequestsComeFromPages
    <2>4. SendsFormKey(v)
        BY <2>3 DEF SendsFormKey
    <2>5. PICK a \in RawKeys \cup {NoKey} : KeyOf(q) = Scoped(a, Client(v))
        BY <2>1 DEF PagesInv, RequestsComeFromPages
    <2>6. PICK b \in RawKeys \cup {NoKey} : KeyOf(r) = Scoped(b, Client(v))
        BY <2>1 DEF PagesInv, RequestsComeFromPages
    <2>7. KeyOf(r) # NoKey
        BY <2>1, <2>3 DEF PagesInv, RequestsComeFromPages
    <2>8. a \in KnownKeys(v) /\ b \in KnownKeys(v)
        <3>1. a # NoKey /\ b # NoKey
            BY <2>1, <2>5, <2>6, <2>7, ScopedKeyIs
        <3> QED BY <2>1, <2>5, <2>6, <3>1 DEF KnownKeys, SentKeys
    <2>9. renewed[v] # {} /\ "mismatch" \notin renewed[v]
        BY <2>1, <2>2, <2>4, <2>5, <2>6, <2>8 DEF PagesInv, FormsKeepTheirKey
    <2>10. /\ renewed[v] \subseteq {"too_many", "invalid", "mismatch",
                                   "unavailable", "in_flight"}
           /\ "in_flight" \notin renewed[v]
        BY <2>1 DEF PagesInv, PagesOK
    <2> QED BY <2>9, <2>10
<1> QED BY <1>1, PagesInvariant, PTL
====
