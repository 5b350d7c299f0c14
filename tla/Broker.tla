------------------------------- MODULE Broker -------------------------------
(***************************************************************************)
(* The Redis queue between the web processes and the Celery workers, as    *)
(* the code relies on it: a message that was published is delivered, in no *)
(* particular order, to one worker at a time, and it comes back when its   *)
(* worker is lost or stays silent beyond the visibility timeout.  Two      *)
(* equal copies of a message that wait at the same time count as one.      *)
(***************************************************************************)
EXTENDS RequestData, TaskRows

VARIABLES
    queue,      \* messages waiting to be delivered
    accepted    \* messages as the web processes published them (history)

broker == <<queue, accepted>>

\* A task message: the arguments of save_async_submission_task with the
\* request's task id and retry count.
Messages ==
    [task : Tasks, key : MaybeKeys, payload : Payloads,
     retries : 0 .. MaxRetries]

BrokerOK == queue \subseteq Messages /\ accepted \subseteq Messages

InitBroker == queue = {} /\ accepted = {}

NewMessage(t, key, payload) ==
    [task |-> t, key |-> key, payload |-> payload, retries |-> 0]

Publish(m) == queue' = queue \cup {m} /\ accepted' = accepted \cup {m}

Put(m) == queue' = queue \cup {m} /\ UNCHANGED accepted

Take(m) == m \in queue /\ queue' = queue \ {m} /\ UNCHANGED accepted

=============================================================================
