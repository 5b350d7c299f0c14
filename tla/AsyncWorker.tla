---------------------------- MODULE AsyncWorker ----------------------------
(***************************************************************************)
(* worker/tasks.py: Celery workers that take messages from the broker,     *)
(* save the submission through _persist_submission, and record what became *)
(* of the task.  Messages are acknowledged late, so a worker that dies, or *)
(* is silent for too long, leaves its message to be run once more, from    *)
(* the start, possibly while the first run still goes on.                  *)
(***************************************************************************)
EXTENDS Submissions, TaskLifecycle, Broker

CONSTANT Workers        \* worker processes

ASSUME AsyncWorkerAssumption ==
    /\ Workers \subseteq Callers
    /\ Tasks \subseteq Keys \cap Origins

VARIABLES
    worker,     \* for each worker, its message and how far it is with it
    ready,      \* for each worker process, _db_ready
    gaveUp,     \* tasks that logged "async submission task failed" (history)
    unrecorded, \* tasks that lost a status write (history)
    dropped     \* tasks whose retry could not be published (history)

histories == <<gaveUp, unrecorded, dropped>>

workers == <<worker, ready, histories>>

Waiting == [step |-> "idle"]

WorkerStates ==
    {Waiting}
    \cup [step : {"received", "saving", "retry", "ack"}, message : Messages]

WorkersOK ==
    /\ worker \in [Workers -> WorkerStates]
    /\ ready \in [Workers -> BOOLEAN]
    /\ gaveUp \subseteq Tasks
    /\ unrecorded \subseteq Tasks
    /\ dropped \subseteq Tasks

InitWorkers ==
    /\ worker = [w \in Workers |-> Waiting]
    /\ ready = [w \in Workers |-> FALSE]
    /\ gaveUp = {}
    /\ unrecorded = {}
    /\ dropped = {}

-----------------------------------------------------------------------------

Doing(w, step) == worker[w].step = step

NowDoing(w, step) == worker' = [worker EXCEPT ![w].step = step]

\* A bug to detect: a message without a key is saved without a key.
ClientKeyOnly(m) == m.key

\* effective_idempotency_key: the request's key or else the task id.
EffectiveKey(m) == IF m.key = NoKey THEN m.task ELSE m.key

\* _record_task_status: a best-effort write.  It is one indivisible write
\* (TaskStatus implements TaskLifecycle) or it is lost, because it raised or
\* because a concurrent INSERT made it give up.
TryRecord(t, write) ==
    \/ RecordTaskStatus(t, write) /\ NoFault /\ UNCHANGED unrecorded
    \/ UNCHANGED taskStatus /\ Fault /\ unrecorded' = unrecorded \cup {t}

Deliver(w) ==
    /\ Doing(w, "idle")
    /\ \E m \in queue :
          /\ Take(m)
          /\ worker' = [worker EXCEPT ![w] = [step |-> "received",
                                              message |-> m]]
    /\ UNCHANGED <<environment, store, taskStatus, ready, histories>>

\* The database is ready, "processing" is recorded, and the save begins.
BeginTask(w) ==
    LET m == worker[w].message
    IN  /\ Doing(w, "received")
        /\ ready' = [ready EXCEPT ![w] = TRUE]
        /\ TryRecord(m.task, Processing(m.retries))
        /\ StartPersist(w, EffectiveKey(m), m.payload, m.task)
        /\ NowDoing(w, "saving")
        /\ UNCHANGED <<submissions, broker, gaveUp, dropped>>

\* _ensure_database_ready raises OperationalError in a process that has not
\* reached the database before: nothing is recorded and nothing is saved.
DatabaseNotReady(w) ==
    LET m == worker[w].message
    IN  /\ Doing(w, "received")
        /\ ~ready[w]
        /\ persist' = [persist EXCEPT ![w] =
                         [step |-> "unavailable", key |-> EffectiveKey(m),
                          payload |-> m.payload, origin |-> m.task, row |-> 0]]
        /\ NowDoing(w, "saving")
        /\ Fault
        /\ UNCHANGED <<submissions, taskStatus, broker, ready, histories>>

SaveStep(w) ==
    /\ Doing(w, "saving")
    /\ PersistStep(w)
    /\ UNCHANGED <<taskStatus, broker, workers>>

RecordProcessed(w) ==
    LET m == worker[w].message
    IN  /\ Doing(w, "saving")
        /\ AtStatement(w, "saved")
        /\ TryRecord(m.task, Processed(m.retries, persist[w].row))
        /\ LeavePersist(w)
        /\ NowDoing(w, "ack")
        /\ UNCHANGED <<submissions, broker, ready, gaveUp, dropped>>

-----------------------------------------------------------------------------
\* The save raised.

\* A bug to detect: one try too many.
WillAutoretryOnceMore(w) ==
    AtStatement(w, "unavailable") /\ worker[w].message.retries <= MaxRetries

\* _will_autoretry: an OperationalError and tries left.
WillAutoretry(w) ==
    AtStatement(w, "unavailable") /\ worker[w].message.retries < MaxRetries

RecordRetrying(w) ==
    LET m == worker[w].message
    IN  /\ Doing(w, "saving")
        /\ WillAutoretry(w)
        /\ TryRecord(m.task, Retrying(m.retries))
        /\ LeavePersist(w)
        /\ NowDoing(w, "retry")
        /\ UNCHANGED <<submissions, broker, ready, gaveUp, dropped>>

Verdict(w) ==
    LET tries == worker[w].message.retries
    IN  CASE AtStatement(w, "mismatch")  -> Conflict(tries)
          [] AtStatement(w, "integrity") -> Failed(tries, "IntegrityError")
          [] OTHER                       -> Failed(tries, "OperationalError")

RecordFailure(w) ==
    LET m == worker[w].message
    IN  /\ Doing(w, "saving")
        /\ persist[w].step \in {"mismatch", "integrity", "unavailable"}
        /\ ~WillAutoretry(w)
        /\ TryRecord(m.task, Verdict(w))
        /\ gaveUp' = gaveUp \cup {m.task}
        /\ LeavePersist(w)
        /\ NowDoing(w, "ack")
        /\ UNCHANGED <<submissions, broker, ready, dropped>>

\* A bug to detect: the retry is recorded, but nothing is published.
RetryForgotten(w) ==
    /\ Doing(w, "retry")
    /\ NowDoing(w, "ack")
    /\ UNCHANGED <<environment, store, taskStatus, broker, ready, histories>>

\* Celery's autoretry publishes the message again under the same task id.
Retry(w) ==
    /\ Doing(w, "retry")
    /\ Put([worker[w].message EXCEPT !.retries = @ + 1])
    /\ NowDoing(w, "ack")
    /\ UNCHANGED <<environment, store, taskStatus, ready, histories>>

\* That publish raises: Celery rejects the message without queueing it again.
RetryLost(w) ==
    /\ Doing(w, "retry")
    /\ dropped' = dropped \cup {worker[w].message.task}
    /\ NowDoing(w, "ack")
    /\ Fault
    /\ UNCHANGED <<store, taskStatus, broker, ready, gaveUp, unrecorded>>

\* Late acknowledgement: the broker forgets the message only now.
Ack(w) ==
    /\ Doing(w, "ack")
    /\ worker' = [worker EXCEPT ![w] = Waiting]
    /\ UNCHANGED <<environment, store, taskStatus, broker, ready, histories>>

-----------------------------------------------------------------------------
\* Failures of workers and of delivery.

\* The process of the worker dies (CrashWith names what becomes of its
\* message) and a new one takes its place.
CrashWith(w, messages) ==
    /\ ~Doing(w, "idle")
    /\ queue' = queue \cup messages
    /\ worker' = [worker EXCEPT ![w] = Waiting]
    /\ persist' = [persist EXCEPT ![w] = NotSaving]
    /\ ready' = [ready EXCEPT ![w] = FALSE]
    /\ Fault
    /\ UNCHANGED <<submissions, taskStatus, accepted, histories>>

\* A bug to detect: early acknowledgement, the message dies with the worker.
CrashEarlyAck(w) == CrashWith(w, {})

\* acks_late with reject_on_worker_lost, or the visibility timeout when the
\* whole host is gone: the message is queued again.
Crash(w) == CrashWith(w, {worker[w].message})

\* The visibility timeout passes while the worker still runs: a second copy.
Redeliver(w) ==
    /\ ~Doing(w, "idle")
    /\ Put(worker[w].message)
    /\ Fault
    /\ UNCHANGED <<store, taskStatus, workers>>

\* What a worker does by itself.
WorkerStep(w) ==
    \/ Deliver(w)
    \/ BeginTask(w)
    \/ DatabaseNotReady(w)
    \/ SaveStep(w)
    \/ RecordProcessed(w)
    \/ RecordRetrying(w)
    \/ RecordFailure(w)
    \/ Retry(w)
    \/ RetryLost(w)
    \/ Ack(w)

-----------------------------------------------------------------------------
\* What the workers promise, whoever publishes the messages.

Accepted(t) == \E m \in accepted : m.task = t

\* One run of a task, or any number of runs of redelivered and retried copies
\* of its message, before and after crashes, leave one row per key lifetime:
\* "redelivered messages converge on one row", also without a client key.
TaskSavesOncePerLifetime ==
    \A i, j \in Ids :
        i < j /\ submissions[i].origin = submissions[j].origin
            => submissions[i].created + TTL <= submissions[j].created

\* A task shown as processed names a row that holds exactly what the request
\* asked to save, under the key it was to be saved with, although row and
\* status are written in different transactions, by runs that may overlap.
ProcessedMeansSaved ==
    \A t \in Tasks :
        taskStatus[t].status = "processed" =>
            \E m \in accepted :
                /\ m.task = t
                /\ taskStatus[t].submission \in Ids
                /\ LET row == submissions[taskStatus[t].submission]
                   IN  row.born = EffectiveKey(m) /\ row.payload = m.payload

\* A worker with this task is past recording "processing", or tries again.
IsRun(w, t) ==
    /\ ~Doing(w, "idle")
    /\ worker[w].message.task = t
    /\ \/ worker[w].message.retries > 0
       \/ worker[w].step \in {"retry", "ack"}
       \/ Doing(w, "saving") /\ ~AtStatement(w, "unavailable")

\* A run of the task has come as far as its save, or further.
HasRun(t) ==
    \/ \E id \in Ids : submissions[id].origin = t
    \/ t \in gaveUp
    \/ \E m \in queue : m.task = t /\ m.retries > 0
    \/ \E w \in Workers : IsRun(w, t)

\* A task that is queued, or has no row, both shown as "Queued", waits for its
\* first run: nothing was saved for it, no run of it saves, failed or is tried
\* again, unless a write of its status was lost.  The request marks its task
\* queued at any time, also after the worker began.
QueuedMeansWaiting ==
    \A t \in Tasks \ unrecorded :
        taskStatus[t].status \in {"absent", "queued"} => ~HasRun(t)

Saved(m) == \E id \in Ids : /\ submissions[id].born = EffectiveKey(m)
                            /\ submissions[id].payload = m.payload

Settled(m) == Saved(m) \/ m.task \in gaveUp

\* As long as an accepted task is neither saved nor given up (logged as
\* failed), a copy of its message is in the queue or with a worker: no crash
\* between receipt, save, retry and acknowledgement loses it.  The one thing
\* that does is a retry that cannot be published (autoretry_for).
NoAcceptedTaskLost ==
    \A m \in accepted :
        \/ Settled(m)
        \/ m.task \in dropped
        \/ \E copy \in queue : copy.task = m.task
        \/ \E w \in Workers : /\ ~Doing(w, "idle")
                              /\ worker[w].message.task = m.task

-----------------------------------------------------------------------------
\* The strengthening that makes these properties inductive.

\* A copy of a message differs from it in the number of tries only.
IsCopyOf(m, a) == m.task = a.task /\ m.key = a.key /\ m.payload = a.payload

CopiesAreAccepted ==
    /\ \A m \in queue : \E a \in accepted : IsCopyOf(m, a)
    /\ \A w \in Workers :
          ~Doing(w, "idle") => \E a \in accepted : IsCopyOf(worker[w].message, a)

OneMessagePerTask == \A a, b \in accepted : a.task = b.task => a = b

\* A worker saves what its message asks for, and publishes only a retry that is
\* left.
WorkersSaveTheirMessage ==
    \A w \in Workers :
        LET m == worker[w].message
        IN  /\ Doing(w, "saving") =>
                  /\ persist[w].step # "idle"
                  /\ persist[w].key = EffectiveKey(m)
                  /\ persist[w].payload = m.payload
                  /\ persist[w].origin = m.task
            /\ Doing(w, "retry") => m.retries < MaxRetries

IsRowOf(row, a) == row.born = EffectiveKey(a) /\ row.payload = a.payload

\* A row that a task saved is the one its message asked for.
TasksSaveTheirMessage ==
    \A id \in Ids :
        submissions[id].origin \in Tasks =>
            \E a \in accepted : /\ a.task = submissions[id].origin
                                /\ IsRowOf(submissions[id], a)

\* Of a task that is neither settled nor dropped there is a copy that nobody is
\* about to acknowledge: two workers that acknowledge do not vouch for each
\* other.
NothingForgotten ==
    \A a \in accepted :
        \/ Settled(a)
        \/ a.task \in dropped
        \/ \E copy \in queue : copy.task = a.task
        \/ \E w \in Workers : /\ worker[w].step \in {"received", "saving", "retry"}
                              /\ worker[w].message.task = a.task

\* A worker calls _persist_submission only while it saves.
WorkersCallToSave ==
    \A w \in Workers : ~Doing(w, "saving") => AtStatement(w, "idle")

WorkInv ==
    /\ StoreInv
    /\ taskStatus \in TaskTable
    /\ BrokerOK
    /\ WorkersOK
    /\ CopiesAreAccepted
    /\ OneMessagePerTask
    /\ WorkersSaveTheirMessage
    /\ TasksSaveTheirMessage
    /\ NothingForgotten
    /\ ProcessedMeansSaved

=============================================================================
