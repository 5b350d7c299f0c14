----------------------------- MODULE WorkerPool -----------------------------
(***************************************************************************)
(* The worker side of the system on its own: web processes are reduced to  *)
(* publishing each task once, with any key and payload, and to marking it  *)
(* queued: a request with a key does so before it publishes, a request     *)
(* without one afterwards, when workers may be far ahead of it.  The mark  *)
(* is a best-effort write, which may be lost.                              *)
(***************************************************************************)
EXTENDS AsyncWorker

CONSTANT RequestsFor    \* for each task, what the request that draws its id may
                        \* carry: a key (or NoKey) and a payload

ASSUME WorkerPoolAssumption ==
    RequestsFor \in [Tasks -> SUBSET [key : MaybeKeys, payload : Payloads]]

VARIABLE unmarked       \* tasks published without a key, whose request has
                        \* still to mark them queued

vars == <<environment, store, taskStatus, broker, workers, unmarked>>

Init ==
    /\ InitEnvironment
    /\ InitStore
    /\ InitTaskTable
    /\ InitBroker
    /\ InitWorkers
    /\ unmarked = {}

\* mark_task_queued, or its write is lost.
MarkOrLose(t) == MarkTaskQueued(t) \/ UNCHANGED taskStatus

\* A request with a key marks its task and publishes the message.
EnqueueKeyed(t) ==
    /\ ~Accepted(t)
    /\ \E request \in RequestsFor[t] :
          /\ request.key # NoKey
          /\ Publish(NewMessage(t, request.key, request.payload))
    /\ MarkOrLose(t)
    /\ UNCHANGED <<environment, store, workers, unmarked>>

\* A request without a key publishes the message ...
Enqueue(t) ==
    /\ ~Accepted(t)
    /\ \E request \in RequestsFor[t] :
          /\ request.key = NoKey
          /\ Publish(NewMessage(t, NoKey, request.payload))
    /\ unmarked' = unmarked \cup {t}
    /\ UNCHANGED <<environment, store, taskStatus, workers>>

\* ... and marks its task afterwards, whatever was recorded of it meanwhile.
MarkPublished(t) ==
    /\ t \in unmarked
    /\ unmarked' = unmarked \ {t}
    /\ MarkOrLose(t)
    /\ UNCHANGED <<environment, store, broker, workers>>

PassTime ==
    Tick /\ UNCHANGED <<store, taskStatus, broker, workers, unmarked>>

\* Every task was accepted and nothing is left to run.  Any other state
\* without a successor is a deadlock.
Drained ==
    /\ \A t \in Tasks : Accepted(t)
    /\ unmarked = {}
    /\ queue = {}
    /\ \A w \in Workers : Doing(w, "idle")
    /\ UNCHANGED vars

Next ==
    \/ \E t \in Tasks : EnqueueKeyed(t) \/ Enqueue(t) \/ MarkPublished(t)
    \/ \E w \in Workers :
          (WorkerStep(w) \/ Crash(w) \/ Redeliver(w)) /\ UNCHANGED unmarked
    \/ PassTime
    \/ Drained

Spec == Init /\ [][Next]_vars

-----------------------------------------------------------------------------
\* Every table, message and worker state is well formed; rows that calls and
\* statuses refer to exist.
TypeOK ==
    /\ EnvironmentOK
    /\ StoreOK
    /\ taskStatus \in TaskTable
    /\ BrokerOK
    /\ WorkersOK
    /\ unmarked \subseteq Tasks

=============================================================================
