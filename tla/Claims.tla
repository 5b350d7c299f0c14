------------------------------- MODULE Claims -------------------------------
(***************************************************************************)
(* enqueue_submission_async of shared/services.py: web requests that claim *)
(* their idempotency key in the table idempotency_claims, or find it       *)
(* claimed and are classified, and publish their task.  One action is one  *)
(* database statement or one publish; other requests, workers, the clock   *)
(* and failures come between any two.                                      *)
(*                                                                         *)
(* A request and the task id it draws (uuid4) are one and the same value.  *)
(***************************************************************************)
EXTENDS Environment, TaskLifecycle, Broker

VARIABLES
    claims,     \* the table idempotency_claims, a function of the key
    req         \* for each request, its call of enqueue_submission_async

desk == <<claims, req>>

NoClaim == [task |-> "no row"]

\* request_fingerprint: SHA-256 of the canonical payload.  It hides the
\* payload and is taken to be injective.
Fingerprint(payload) == [sha256 |-> payload]

Fingerprints == {Fingerprint(payload) : payload \in Payloads}

ClaimRows == [fingerprint : Fingerprints, task : Tasks, created : 0 .. MaxTime]

NotArrived == [step |-> "idle"]

NoLease == -1

\* seen is the claim the request read; lease (history) is the created_at of
\* the claim from the moment it names this request's task.
ActiveRequests ==
    [step : {"get_claim", "insert_claim", "get_again", "take_over",
             "read_status", "move_claim", "mark", "publish",
             "record_unavailable", "mark_late", "answered"},
     key : MaybeKeys, payload : Payloads,
     seen : ClaimRows \cup {NoClaim},
     answer : {"none", "accepted", "replayed", "mismatch", "in_flight",
               "unavailable", "error"},
     lease : 0 .. MaxTime \cup {NoLease}]

Requests == {NotArrived} \cup ActiveRequests

DeskOK ==
    /\ claims \in [Keys -> ClaimRows \cup {NoClaim}]
    /\ req \in [Tasks -> Requests]

InitDesk ==
    /\ claims = [k \in Keys |-> NoClaim]
    /\ req = [t \in Tasks |-> NotArrived]

-----------------------------------------------------------------------------

ReqAt(t, step) == req[t].step = step

ReqGoTo(t, step) == req' = [req EXCEPT ![t].step = step]

ReqSees(t, step, claim) ==
    req' = [req EXCEPT ![t].step = step, ![t].seen = claim]

\* The request is answered; which claim it saw matters for a replay only.
Answer(t, answer) ==
    req' = [req EXCEPT ![t].step = "answered", ![t].answer = answer,
                       ![t].seen = IF answer = "replayed" THEN @ ELSE NoClaim]

\* The claim names this request's task from now on.
BecomeOwner(t, claim) ==
    /\ claims' = [claims EXCEPT ![req[t].key] = claim]
    /\ req' = [req EXCEPT ![t].step = "mark", ![t].seen = NoClaim,
                          ![t].lease = claim.created]

\* A bug to detect: the claim stores when it will expire.
NewClaimExpiring(t) == [fingerprint |-> Fingerprint(req[t].payload),
                        task |-> t, created |-> now + TTL]

NewClaim(t) == [fingerprint |-> Fingerprint(req[t].payload), task |-> t,
                created |-> now]

\* A bug to detect: the conditional UPDATEs name the key alone.
OwnsAnyClaim(t) == claims[req[t].key] # NoClaim

\* The WHERE clause of both conditional UPDATEs, and the test of rowcount:
\* the claim still names the task it named when the request read it.
StillAsSeen(t) == claims[req[t].key].task = req[t].seen.task

Elsewhere == <<environment, taskStatus, broker>>

\* A request without a key goes straight to the queue.
Arrive(t, key, payload) ==
    /\ ReqAt(t, "idle")
    /\ req' = [req EXCEPT ![t] =
                 [step |-> IF key = NoKey THEN "publish" ELSE "get_claim",
                  key |-> key, payload |-> payload, seen |-> NoClaim,
                  answer |-> "none", lease |-> NoLease]]
    /\ UNCHANGED <<claims, Elsewhere>>

\* A bug to detect: a claim never expires.
ConsiderForever(t, claim) ==
    IF claim.fingerprint # Fingerprint(req[t].payload)
    THEN Answer(t, "mismatch")
    ELSE ReqSees(t, "read_status", claim)

\* A bug to detect: a claim is classified by its status alone.
ConsiderStatusOnly(t, claim) ==
    IF IsExpired(claim.created) THEN ReqSees(t, "take_over", claim)
                                ELSE ReqSees(t, "read_status", claim)

\* A bug to detect: the stored hash is compared with the payload itself.
ConsiderRaw(t, claim) ==
    IF IsExpired(claim.created) THEN ReqSees(t, "take_over", claim)
    ELSE IF claim.fingerprint # req[t].payload
    THEN Answer(t, "mismatch")
    ELSE ReqSees(t, "read_status", claim)

\* What a request makes of the claim it read: take it over when it has
\* expired, refuse another payload, or else ask for the owner's status.
Consider(t, claim) ==
    IF IsExpired(claim.created) THEN ReqSees(t, "take_over", claim)
    ELSE IF claim.fingerprint # Fingerprint(req[t].payload)
    THEN Answer(t, "mismatch")
    ELSE ReqSees(t, "read_status", claim)

GetClaim(t) ==
    LET claim == claims[req[t].key]
    IN  /\ ReqAt(t, "get_claim")
        /\ IF claim = NoClaim THEN ReqGoTo(t, "insert_claim")
                              ELSE Consider(t, claim)
        /\ UNCHANGED <<claims, Elsewhere>>

InsertClaim(t) ==
    /\ ReqAt(t, "insert_claim")
    /\ claims[req[t].key] = NoClaim
    /\ BecomeOwner(t, NewClaim(t))
    /\ UNCHANGED Elsewhere

\* The primary key refuses a second claim: IntegrityError, rolled back, and
\* the winner's claim is read (it is there: claims are never deleted).
ClaimRefused(t) ==
    /\ ReqAt(t, "insert_claim")
    /\ claims[req[t].key] # NoClaim
    /\ ReqGoTo(t, "get_again")
    /\ UNCHANGED <<claims, Elsewhere>>

GetClaimAgain(t) ==
    /\ ReqAt(t, "get_again")
    /\ Consider(t, claims[req[t].key])
    /\ UNCHANGED <<claims, Elsewhere>>

\* A bug to detect: the take-over keeps the old request's fingerprint.
TakeOverTaskOnly(t) ==
    /\ ReqAt(t, "take_over")
    /\ IF StillAsSeen(t)
       THEN BecomeOwner(t, [claims[req[t].key] EXCEPT !.task = t,
                                                      !.created = now])
       ELSE Answer(t, "in_flight") /\ UNCHANGED claims
    /\ UNCHANGED Elsewhere

\* _take_over_expired_claim.
TakeOver(t) ==
    /\ ReqAt(t, "take_over")
    /\ IF StillAsSeen(t)
       THEN BecomeOwner(t, NewClaim(t))
       ELSE Answer(t, "in_flight") /\ UNCHANGED claims
    /\ UNCHANGED Elsewhere

\* _classify_existing_claim reads the status of the task that the claim named
\* when it was read.
ReadStatus(t) ==
    LET status == taskStatus[req[t].seen.task].status
    IN  /\ ReqAt(t, "read_status")
        /\ \/ status = "processed" /\ Answer(t, "replayed")
           \/ status = "failed" /\ ReqGoTo(t, "move_claim")
           \/ status \notin {"processed", "failed"} /\ Answer(t, "in_flight")
        /\ UNCHANGED <<claims, Elsewhere>>

\* A bug to detect: the claim that moves starts its lifetime anew.
MoveClaimAnew(t) ==
    /\ ReqAt(t, "move_claim")
    /\ IF StillAsSeen(t)
       THEN BecomeOwner(t, NewClaim(t))
       ELSE Answer(t, "in_flight") /\ UNCHANGED claims
    /\ UNCHANGED Elsewhere

\* A failed task's claim moves to the new task; it keeps its created_at.
MoveClaim(t) ==
    /\ ReqAt(t, "move_claim")
    /\ IF StillAsSeen(t)
       THEN BecomeOwner(t, [claims[req[t].key] EXCEPT !.task = t])
       ELSE Answer(t, "in_flight") /\ UNCHANGED claims
    /\ UNCHANGED Elsewhere

-----------------------------------------------------------------------------
\* The owner of the claim, and a request without a key, publish.

Message(t) == NewMessage(t, req[t].key, req[t].payload)

\* mark_task_queued, which may be lost.
TryMark(t) ==
    \/ MarkTaskQueued(t) /\ NoFault
    \/ UNCHANGED taskStatus /\ Fault

MarkQueued(t) ==
    /\ ReqAt(t, "mark")
    /\ TryMark(t)
    /\ ReqGoTo(t, "publish")
    /\ UNCHANGED <<claims, broker>>

PublishTask(t) ==
    /\ ReqAt(t, "publish")
    /\ Publish(Message(t))
    /\ IF req[t].key = NoKey THEN ReqGoTo(t, "mark_late")
                             ELSE Answer(t, "accepted")
    /\ UNCHANGED <<environment, claims, taskStatus>>

\* The publish raises OperationalError.  The broker may have the message all
\* the same: the connection was lost while the reply was on its way.
PublishFails(t) ==
    /\ ReqAt(t, "publish")
    /\ Publish(Message(t)) \/ UNCHANGED broker
    /\ IF req[t].key = NoKey THEN Answer(t, "unavailable")
                             ELSE ReqGoTo(t, "record_unavailable")
    /\ Fault
    /\ UNCHANGED <<claims, taskStatus>>

RecordUnavailable(t) ==
    /\ ReqAt(t, "record_unavailable")
    /\ \/ RecordTaskStatus(t, NeverQueued) /\ NoFault
       \/ UNCHANGED taskStatus /\ Fault
    /\ Answer(t, "unavailable")
    /\ UNCHANGED <<claims, broker>>

MarkLate(t) ==
    /\ ReqAt(t, "mark_late")
    /\ TryMark(t)
    /\ Answer(t, "accepted")
    /\ UNCHANGED <<claims, broker>>

\* The request's process dies, or a statement raises a database error that no
\* route handles: what was committed stays, the client gets no answer or 500.
RequestDies(t) ==
    /\ ~ReqAt(t, "idle")
    /\ ~ReqAt(t, "answered")
    /\ Answer(t, "error")
    /\ Fault
    /\ UNCHANGED <<claims, taskStatus, broker>>

RequestStep(t) ==
    \/ GetClaim(t)
    \/ InsertClaim(t)
    \/ ClaimRefused(t)
    \/ GetClaimAgain(t)
    \/ TakeOver(t)
    \/ ReadStatus(t)
    \/ MoveClaim(t)
    \/ MarkQueued(t)
    \/ PublishTask(t)
    \/ PublishFails(t)
    \/ RecordUnavailable(t)
    \/ MarkLate(t)
    \/ RequestDies(t)

-----------------------------------------------------------------------------
\* Requests that share a key.

Arrived(t) == ~ReqAt(t, "idle")

Leased(t) == req[t].lease # NoLease

UnderWay == {t \in Tasks : Arrived(t) /\ ~ReqAt(t, "answered")}

SameKey(key) == {t \in Tasks : Arrived(t) /\ req[t].key = key}

\* Nobody is about to claim the key, and no claim of it is within its lifetime.
Unopposed(key) ==
    /\ UnderWay \cap SameKey(key) = {}
    /\ \A t \in SameKey(key) : Leased(t) => req[t].lease + TTL <= now

-----------------------------------------------------------------------------
\* What the claims promise, whatever else the system does.

\* Tasks published with one key, from their claims' point of view: either
\* their claims began at least a key lifetime apart, or one took the other's
\* place after it had failed.  "Of two concurrent first requests exactly one
\* inserts it and enqueues" (_enqueue_with_claim), for any number of requests
\* that race to insert, to take over and to move one claim.
OneTaskPerKeyWithinTtl ==
    \A m, n \in accepted :
        m.key = n.key /\ m.key # NoKey /\ m.task # n.task =>
            LET first == req[m.task].lease
                second == req[n.task].lease
            IN  /\ first # NoLease
                /\ second # NoLease
                /\ \/ first + TTL <= second
                   \/ second + TTL <= first
                   \/ taskStatus[m.task].status = "failed"
                   \/ taskStatus[n.task].status = "failed"

\* A claim describes the request whose task it names: its key, its payload
\* and when its lifetime began, although a failed task's claim is handed on
\* with only the task id replaced (_classify_existing_claim).
ClaimDescribesOwner ==
    \A k \in Keys :
        claims[k] # NoClaim =>
            LET owner == req[claims[k].task]
            IN  /\ owner.key = k
                /\ Fingerprint(owner.payload) = claims[k].fingerprint
                /\ owner.lease = claims[k].created

\* A request that is told the original task instead of being enqueued sent
\* what that task's request sent, under the same key, and the task is done,
\* although claim and status were read at different times.
ReplayIsFaithful ==
    \A t \in Tasks :
        ReqAt(t, "answered") /\ req[t].answer = "replayed" =>
            LET original == req[t].seen.task
            IN  /\ req[original].key = req[t].key
                /\ req[original].payload = req[t].payload
                /\ taskStatus[original].status = "processed"

\* A request is refused with 422 only if another request of the key sent
\* another payload and got the claim.
RefusedForAnother ==
    \A t \in Tasks :
        ReqAt(t, "answered") /\ req[t].answer = "mismatch" =>
            \E u \in Tasks : /\ ~ReqAt(u, "idle")
                             /\ req[u].key = req[t].key
                             /\ req[u].payload # req[t].payload
                             /\ req[u].lease # NoLease

-----------------------------------------------------------------------------
\* What KeyLeases sees of the tables.

Holders == [k \in Keys |-> claims[k].task]

LeaseOf(t) ==
    IF ReqAt(t, "idle") \/ req[t].lease = NoLease THEN [since |-> NoLease]
    ELSE [key |-> req[t].key, since |-> req[t].lease]

Leases == [t \in Tasks |-> LeaseOf(t)]

FailedTasks == {t \in Tasks : taskStatus[t].status = "failed"}

PublishedTasks ==
    {[task |-> m.task, key |-> m.key] : m \in {n \in accepted : n.key # NoKey}}

Leasing == INSTANCE KeyLeases WITH Nobody <- NoClaim.task, holder <- Holders,
               lease <- Leases, failed <- FailedTasks,
               published <- PublishedTasks

\* The statements of enqueue_submission_async, of any number of requests that
\* race to insert, to take over and to move the claims, amount to a key that has
\* one holder at a time and passes on at one instant: when its lifetime is
\* over, or, keeping the lifetime it has, when its holder has failed.  Nobody
\* publishes under a key that it was not given.
ImplementsKeyLeases == Leasing!LeaseSpec

-----------------------------------------------------------------------------
\* The strengthening that makes these properties inductive.

\* What the claims are about is well formed.
ClaimsOK ==
    /\ EnvironmentOK
    /\ taskStatus \in TaskTable
    /\ BrokerOK
    /\ DeskOK

\* Which steps a request takes with a key, and with a lease; and the claim of
\* its key is there from when it was read, and is never deleted.
StepsFollowTheKey(r) ==
    /\ r.key = NoKey => r.step \in {"publish", "mark_late", "answered"}
    /\ r.lease # NoLease =>
          /\ r.key # NoKey
          /\ r.step \in {"mark", "publish", "record_unavailable", "answered"}
    /\ r.step \in {"mark", "publish", "record_unavailable", "mark_late"} =>
          r.key = NoKey \/ r.lease # NoLease
    /\ \/ r.step \in {"get_again", "take_over", "read_status", "move_claim"}
       \/ r.lease # NoLease
       => claims[r.key] # NoClaim

\* The request may act on the claim it has seen, or was told its task.
ActsOnSeen(r) ==
    \/ r.step \in {"take_over", "read_status", "move_claim"}
    \/ r.step = "answered" /\ r.answer = "replayed"

\* That claim describes a request of the same key, and what was decided on it
\* still holds.
SeenIsTrue(r) ==
    LET original == req[r.seen.task]
    IN  ActsOnSeen(r) =>
            /\ r.seen # NoClaim
            /\ Arrived(r.seen.task)
            /\ original.key = r.key
            /\ Fingerprint(original.payload) = r.seen.fingerprint
            /\ original.lease = r.seen.created
            /\ r.step = "take_over" => IsExpired(r.seen.created)
            /\ r.step # "take_over" => original.payload = r.payload
            /\ r.step = "move_claim" =>
                  taskStatus[r.seen.task].status = "failed"
            /\ r.step = "answered" =>
                  taskStatus[r.seen.task].status = "processed"

\* A request that is refused with 422 is so because of this one.
RefusedBecauseOf(r, u) ==
    Arrived(u) /\ req[u].key = r.key /\ req[u].payload # r.payload /\ Leased(u)

RefusalIsFounded(r) ==
    r.step = "answered" /\ r.answer = "mismatch" =>
        \E u \in Tasks : RefusedBecauseOf(r, u)

RequestIsSound(r) ==
    StepsFollowTheKey(r) /\ SeenIsTrue(r) /\ RefusalIsFounded(r)

RequestsAreSound ==
    \A t \in Tasks : Arrived(t) => RequestIsSound(req[t]) /\ req[t].lease <= now

OwnersArrived ==
    \A k \in Keys : claims[k] # NoClaim => Arrived(claims[k].task)

\* Whoever had a claim before the task it names began its lease a key lifetime
\* before that task's, or failed.
PastOwnersAreDone ==
    \A t \in Tasks :
        LET claim == claims[req[t].key]
        IN  Arrived(t) /\ Leased(t) /\ claim.task # t =>
                /\ req[t].lease <= claim.created
                /\ \/ req[t].lease + TTL <= claim.created
                   \/ taskStatus[t].status = "failed"

\* Any two requests that have had the claim of one key.
OwnersAreApart ==
    \A t, u \in Tasks :
        /\ Arrived(t) /\ Arrived(u) /\ t # u
        /\ req[t].key = req[u].key
        /\ Leased(t) /\ Leased(u)
        => \/ req[t].lease + TTL <= req[u].lease
           \/ req[u].lease + TTL <= req[t].lease
           \/ taskStatus[t].status = "failed"
           \/ taskStatus[u].status = "failed"

\* What is published is what the request was sent, and a key is published by
\* a request that has had its claim.
AcceptedAsSent ==
    \A m \in accepted :
        /\ Arrived(m.task)
        /\ m.key = req[m.task].key
        /\ m.key # NoKey => Leased(m.task)

ClaimsInv ==
    /\ ClaimsOK
    /\ RequestsAreSound
    /\ OwnersArrived
    /\ ClaimDescribesOwner
    /\ PastOwnersAreDone
    /\ OwnersAreApart
    /\ AcceptedAsSent

\* A request is alone with its key until it is answered, every earlier claim of
\* the key is past its lifetime, and so it is not refused.
IsAlone(t) ==
    /\ Arrived(t)
    /\ req[t].key # NoKey
    /\ t \in UnderWay =>
          /\ \A u \in SameKey(req[t].key) \ {t} :
                /\ ReqAt(u, "answered")
                /\ Leased(u) => req[u].lease + TTL <= now
          /\ req[t].step \notin {"get_again", "read_status", "move_claim"}
          /\ ReqAt(t, "insert_claim") => claims[req[t].key] = NoClaim
          /\ ReqAt(t, "take_over") => StillAsSeen(t)
    /\ ReqAt(t, "answered") => req[t].answer \notin {"in_flight", "mismatch"}

=============================================================================
