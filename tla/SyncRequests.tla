---------------------------- MODULE SyncRequests ----------------------------
(***************************************************************************)
(* create_submission_sync of shared/services.py: web requests that save    *)
(* their submission themselves.  A request with a key first looks, in a    *)
(* session of its own, whether an async request owns the key, and then     *)
(* saves through _persist_submission in another.                           *)
(***************************************************************************)
EXTENDS Submissions, Claims

CONSTANT SyncRequestIds     \* synchronous requests

ASSUME SyncRequestsAssumption == SyncRequestIds \subseteq Callers \cap Origins

VARIABLE sync               \* for each, its call of create_submission_sync

SyncNotArrived == [step |-> "idle"]

SyncCalls ==
    {SyncNotArrived}
    \cup [step : {"check_claim", "check_status", "saving", "answered"},
          key : MaybeKeys, payload : Payloads, owner : Tasks \cup {NoClaim},
          answer : {"none", "saved", "mismatch", "in_flight", "error"},
          row : Nat]

InitSync == sync = [s \in SyncRequestIds |-> SyncNotArrived]

-----------------------------------------------------------------------------

SyncAt(s, step) == sync[s].step = step

SyncAnswer(s, answer) ==
    sync' = [sync EXCEPT ![s].step = "answered", ![s].answer = answer,
                         ![s].owner = NoClaim]

SyncSave(s) ==
    /\ sync' = [sync EXCEPT ![s].step = "saving", ![s].owner = NoClaim]
    /\ StartPersist(s, sync[s].key, sync[s].payload, s)

ArriveSync(s, key, payload) ==
    /\ SyncAt(s, "idle")
    /\ sync' = [sync EXCEPT ![s] =
                  [step |-> IF key = NoKey THEN "saving" ELSE "check_claim",
                   key |-> key, payload |-> payload, owner |-> NoClaim,
                   answer |-> "none", row |-> 0]]
    /\ IF key = NoKey THEN StartPersist(s, key, payload, s)
                      ELSE UNCHANGED persist
    /\ UNCHANGED <<submissions, environment>>

\* _reject_if_claimed_elsewhere, first its look at the claim ...
CheckClaim(s) ==
    LET claim == claims[sync[s].key]
    IN  /\ SyncAt(s, "check_claim")
        /\ IF claim = NoClaim \/ (claim # NoClaim /\ IsExpired(claim.created))
           THEN SyncSave(s)
           ELSE /\ UNCHANGED persist
                /\ IF claim.fingerprint # Fingerprint(sync[s].payload)
                   THEN SyncAnswer(s, "mismatch")
                   ELSE sync' = [sync EXCEPT ![s].step = "check_status",
                                             ![s].owner = claim.task]
        /\ UNCHANGED <<submissions, environment>>

\* ... then its look at the owner's status.
CheckStatus(s) ==
    /\ SyncAt(s, "check_status")
    /\ IF IsTerminal(taskStatus[sync[s].owner])
       THEN SyncSave(s)
       ELSE SyncAnswer(s, "in_flight") /\ UNCHANGED persist
    /\ UNCHANGED <<submissions, environment>>

SyncSaveStep(s) ==
    /\ SyncAt(s, "saving")
    /\ PersistStep(s)
    /\ UNCHANGED sync

\* The call of _persist_submission ended: a row, 422, or an error (500).
SyncSaved(s) ==
    /\ SyncAt(s, "saving")
    /\ AtStatement(s, "saved")
    /\ sync' = [sync EXCEPT ![s].step = "answered", ![s].answer = "saved",
                            ![s].row = persist[s].row]
    /\ LeavePersist(s)
    /\ UNCHANGED <<submissions, environment>>

SyncRefused(s) ==
    /\ SyncAt(s, "saving")
    /\ persist[s].step \in {"mismatch", "integrity", "unavailable"}
    /\ SyncAnswer(s, IF AtStatement(s, "mismatch") THEN "mismatch" ELSE "error")
    /\ LeavePersist(s)
    /\ UNCHANGED <<submissions, environment>>

\* The process dies, or a database error reaches the client as 500.
SyncDies(s) ==
    /\ ~SyncAt(s, "idle")
    /\ ~SyncAt(s, "answered")
    /\ SyncAnswer(s, "error")
    /\ persist' = [persist EXCEPT ![s] = NotSaving]
    /\ Fault
    /\ UNCHANGED submissions

SyncStep(s) ==
    \/ CheckClaim(s)
    \/ CheckStatus(s)
    \/ SyncSaveStep(s)
    \/ SyncSaved(s)
    \/ SyncRefused(s)
    \/ SyncDies(s)

=============================================================================
