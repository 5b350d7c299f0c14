----------------------------- MODULE ClaimDesk -----------------------------
(***************************************************************************)
(* The enqueueing side of the system on its own: any key and payload may   *)
(* arrive, and the workers are reduced to the status writes they make for  *)
(* published tasks, in any order.                                          *)
(***************************************************************************)
EXTENDS Claims

CONSTANT RequestKeys    \* keys a request may carry; NoKey may be among them

ASSUME RequestKeysAssumption == RequestKeys \subseteq MaybeKeys

VARIABLE unopposed      \* requests that met no claim within its lifetime and no
                        \* other request of their key so far (history)

vars == <<environment, taskStatus, broker, desk, unopposed>>

Init ==
    /\ InitEnvironment
    /\ InitTaskTable
    /\ InitBroker
    /\ InitDesk
    /\ unopposed = {}

Submit(t) ==
    \E key \in RequestKeys, payload \in Payloads :
        /\ Arrive(t, key, payload)
        /\ unopposed' =
              IF key = NoKey THEN unopposed
              ELSE IF Unopposed(key) THEN unopposed \cup {t}
              ELSE unopposed \ (UnderWay \cap SameKey(key))

Enqueue(t) == RequestStep(t) /\ UNCHANGED unopposed

\* The status writes of save_async_submission_task.
WorkerWrites ==
    {Processing(0), Retrying(0), Conflict(0), Failed(0, "OperationalError")}
    \cup {Processed(0, s) : s \in SubmissionIds}

WorkerReports(t) ==
    /\ \E m \in accepted : m.task = t
    /\ \E write \in WorkerWrites : RecordTaskStatus(t, write)
    /\ UNCHANGED <<environment, broker, desk, unopposed>>

PassTime == Tick /\ UNCHANGED <<taskStatus, broker, desk, unopposed>>

\* Every request was answered.  Any other state without a successor is a
\* deadlock.
AllAnswered == (\A t \in Tasks : ReqAt(t, "answered")) /\ UNCHANGED vars

Next ==
    \/ \E t \in Tasks : Submit(t) \/ Enqueue(t) \/ WorkerReports(t)
    \/ PassTime
    \/ AllAnswered

Spec == Init /\ [][Next]_vars

\* Every table and request is well formed.
TypeOK == ClaimsOK /\ unopposed \subseteq Tasks

\* A claim whose request died before it published, whose task ended in
\* conflict or whose task will never end blocks its key (409, 422) for the
\* lifetime of the claim and no longer, however often it was moved: a request
\* that arrives later, and shares its key with no other request under way, is
\* never refused.
LifetimeFreesTheKey ==
    \A t \in unopposed :
        ReqAt(t, "answered") => req[t].answer \notin {"in_flight", "mismatch"}

-----------------------------------------------------------------------------
\* The strengthening that makes LifetimeFreesTheKey inductive, with ClaimsInv.

IInv == ClaimsInv /\ unopposed \subseteq Tasks

AloneWithTheKey == \A t \in unopposed : IsAlone(t)

=============================================================================
