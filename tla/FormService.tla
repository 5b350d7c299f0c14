---------------------------- MODULE FormService ----------------------------
(***************************************************************************)
(* The whole system behind the forms: synchronous requests, asynchronous   *)
(* requests and workers over one database (submissions, idempotency_claims *)
(* and task_statuses) and one queue.                                       *)
(***************************************************************************)
EXTENDS SyncRequests, AsyncWorker

CONSTANT RequestKeys    \* keys a request may carry; NoKey may be among them

\* A key of a request has a scope before it: it is never a task id.
ASSUME FormServiceAssumption ==
    /\ RequestKeys \subseteq MaybeKeys \ Tasks
    /\ SyncRequestIds \cap Tasks = {}
    /\ SyncRequestIds \cap Workers = {}

vars == <<environment, store, taskStatus, broker, workers, desk, sync>>

Init ==
    /\ InitEnvironment
    /\ InitStore
    /\ InitTaskTable
    /\ InitBroker
    /\ InitWorkers
    /\ InitDesk
    /\ InitSync

AsyncRequest(t) ==
    /\ \/ RequestStep(t)
       \/ \E key \in RequestKeys, payload \in Payloads : Arrive(t, key, payload)
    /\ UNCHANGED <<store, workers, sync>>

SyncRequest(s) ==
    /\ \/ SyncStep(s)
       \/ \E key \in RequestKeys, payload \in Payloads :
             ArriveSync(s, key, payload)
    /\ UNCHANGED <<taskStatus, broker, workers, desk>>

WorkerRuns(w) ==
    /\ WorkerStep(w) \/ Crash(w) \/ Redeliver(w)
    /\ UNCHANGED <<desk, sync>>

PassTime ==
    Tick /\ UNCHANGED <<store, taskStatus, broker, workers, desk, sync>>

\* Every request was answered and nothing is left to run.  Any other state
\* without a successor is a deadlock.
AllDone ==
    /\ \A t \in Tasks : ReqAt(t, "answered")
    /\ \A s \in SyncRequestIds : SyncAt(s, "answered")
    /\ queue = {}
    /\ \A w \in Workers : Doing(w, "idle")
    /\ UNCHANGED vars

Next ==
    \/ \E t \in Tasks : AsyncRequest(t)
    \/ \E s \in SyncRequestIds : SyncRequest(s)
    \/ \E w \in Workers : WorkerRuns(w)
    \/ PassTime
    \/ AllDone

Spec == Init /\ [][Next]_vars

-----------------------------------------------------------------------------
\* A request of either kind.

WebRequests == Tasks \cup SyncRequestIds

Idle(r) == IF r \in Tasks THEN ReqAt(r, "idle") ELSE SyncAt(r, "idle")

Answered(r) ==
    IF r \in Tasks THEN ReqAt(r, "answered") ELSE SyncAt(r, "answered")

AnswerTo(r) == IF r \in Tasks THEN req[r].answer ELSE sync[r].answer

KeyOf(r) == IF r \in Tasks THEN req[r].key ELSE sync[r].key

PayloadOf(r) == IF r \in Tasks THEN req[r].payload ELSE sync[r].payload

-----------------------------------------------------------------------------
\* Every table, message, request and worker is well formed.
TypeOK ==
    /\ EnvironmentOK
    /\ StoreOK
    /\ taskStatus \in TaskTable
    /\ BrokerOK
    /\ WorkersOK
    /\ DeskOK
    /\ sync \in [SyncRequestIds -> SyncCalls]

\* A row with this payload was saved under this key (under the task id for a
\* task without a key).
HasRow(key, payload) ==
    \E id \in Ids : /\ submissions[id].born = key
                    /\ submissions[id].payload = payload

\* Whoever is told that the submission is done, a synchronous request that
\* is redirected and an asynchronous one that is given the original task id,
\* finds a row with its own payload under its own key.
DoneAnswersAreBacked ==
    /\ \A s \in SyncRequestIds :
          SyncAt(s, "answered") /\ sync[s].answer = "saved" =>
              /\ submissions[sync[s].row].born = sync[s].key
              /\ submissions[sync[s].row].payload = sync[s].payload
    /\ \A t \in Tasks :
          ReqAt(t, "answered") /\ req[t].answer = "replayed" =>
              HasRow(req[t].key, req[t].payload)

\* A request told that its task was queued is never forgotten: its message
\* is on its way, its submission is saved, or the task was given up.
AcceptedIsRemembered ==
    /\ \A t \in Tasks :
          ReqAt(t, "answered") /\ req[t].answer = "accepted" => Accepted(t)
    /\ NoAcceptedTaskLost

\* A task ends in conflict only over a row that another request saved under
\* the same key with another payload.
ConflictIsReal ==
    \A t \in Tasks :
        taskStatus[t].status = "conflict" =>
            \E id \in Ids : /\ submissions[id].born = req[t].key
                            /\ submissions[id].payload # req[t].payload
                            /\ submissions[id].origin # t

\* The request comes with its key in this step.
Comes(t) == ReqAt(t, "idle") /\ Arrived(t)'

\* A key whose claims are past their lifetime is free, whatever became of their
\* tasks and whatever synchronous requests and workers do under the key: a
\* request that comes while nobody is under way with it is alone with the key,
\* and remains so, and is not refused, unless another one comes meanwhile.
FreeKeysAreGiven ==
    [][\A t \in Tasks :
          \/ Comes(t) /\ req'[t].key # NoKey /\ Unopposed(req'[t].key)
          \/ /\ IsAlone(t)
             /\ \/ t \notin UnderWay
                \/ \A u \in Tasks : Comes(u) => req'[u].key # req[t].key
          => IsAlone(t)']_vars

-----------------------------------------------------------------------------
\* What the documentation says of the system and the code does not keep.

\* "A sync request must not race an async request that owns the same key":
\* when it saves, no unexpired claim of the key has an unfinished owner.
SyncNeverRacesClaim ==
    [][\A s \in SyncRequestIds :
          InsertRow(s) /\ persist[s].key # NoKey =>
              LET claim == claims[persist[s].key]
              IN  \/ claim = NoClaim
                  \/ IsExpired(claim.created)
                  \/ IsTerminal(taskStatus[claim.task])]_store

-----------------------------------------------------------------------------
\* The strengthening that makes the properties of the whole system inductive.

\* Requests carry keys that may come.
RequestsCarryKeys == \A t \in Tasks : Arrived(t) => req[t].key \in RequestKeys

\* A message is published once, as its request was sent, and a request that is
\* told so has published.
MessagesAreRequests ==
    /\ \A m \in accepted :
          /\ req[m.task].step \in {"mark_late", "record_unavailable", "answered"}
          /\ req[m.task].key = m.key
          /\ req[m.task].payload = m.payload
    /\ \A t \in Tasks :
          \/ ReqAt(t, "mark_late")
          \/ ReqAt(t, "answered") /\ req[t].answer = "accepted"
          => Accepted(t)

\* A synchronous request saves what it was sent, and is told the row that holds
\* it.
SyncSavesItsRequest ==
    \A s \in SyncRequestIds :
        LET call == sync[s]
        IN  /\ ~SyncAt(s, "idle") => call.key \in RequestKeys
            /\ SyncAt(s, "check_claim") => call.key # NoKey
            /\ SyncAt(s, "saving") =>
                  /\ persist[s].step # "idle"
                  /\ persist[s].key = call.key
                  /\ persist[s].payload = call.payload
                  /\ persist[s].origin = s
            /\ SyncAt(s, "answered") /\ call.answer = "saved" =>
                  /\ call.row \in Ids
                  /\ submissions[call.row].born = call.key
                  /\ submissions[call.row].payload = call.payload

\* Nobody but tasks and synchronous requests saves, and a row that a synchronous
\* request saved is what it was sent.
RowsHaveOwners ==
    \A id \in Ids :
        \/ submissions[id].origin \in Tasks
        \/ /\ submissions[id].origin \in SyncRequestIds
           /\ LET call == sync[submissions[id].origin]
              IN  /\ call.step # "idle"
                  /\ submissions[id].born = call.key
                  /\ submissions[id].payload = call.payload

DeskInv ==
    /\ ClaimsInv
    /\ RequestsCarryKeys
    /\ MessagesAreRequests

SyncInv == sync \in [SyncRequestIds -> SyncCalls] /\ SyncSavesItsRequest

ConflictsArrived ==
    \A t \in Tasks : taskStatus[t].status = "conflict" => ~ReqAt(t, "idle")

ServiceInv ==
    /\ WorkInv
    /\ DeskInv
    /\ SyncInv
    /\ RowsHaveOwners
    /\ ConflictsArrived
    /\ ConflictIsReal

-----------------------------------------------------------------------------
\* Why a request is refused, or given another one's task.

\* The task that a claim names has got as far as owning it.
OwnersHaveClaimed ==
    \A k \in Keys :
        claims[k] # NoClaim =>
            req[claims[k].task].step \in {"mark", "publish", "mark_late",
                                          "record_unavailable", "answered"}

\* A claim that a synchronous request has found stays there.
OwnersAreKnown ==
    \A s \in SyncRequestIds :
        SyncAt(s, "check_status") =>
            sync[s].key # NoKey /\ claims[sync[s].key] # NoClaim

\* Another request has arrived with its key, and sent something else if it is
\* told of a mismatch.
Meets(r, answer) ==
    /\ KeyOf(r) # NoKey
    /\ \E other \in WebRequests \ {r} :
          /\ ~Idle(other)
          /\ KeyOf(other) = KeyOf(r)
          /\ answer = "mismatch" => PayloadOf(other) # PayloadOf(r)

\* Whoever is told of another request has met one.
OthersHaveTheKey ==
    \A r \in WebRequests :
        Answered(r) /\ AnswerTo(r) \in {"replayed", "mismatch", "in_flight"} =>
            Meets(r, AnswerTo(r))

CauseInv == OwnersHaveClaimed /\ OwnersAreKnown /\ OthersHaveTheKey


=============================================================================
