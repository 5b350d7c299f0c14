---------------------------- MODULE Submissions ----------------------------
(***************************************************************************)
(* _persist_submission of shared/services.py one transaction at a time:    *)
(* the table submissions, whose nullable idempotency_key is unique, and    *)
(* callers (synchronous web requests and workers) that save a validated    *)
(* payload under a key.  Each caller finds the key, frees it when it has   *)
(* expired, inserts, and on a lost race looks again.  Other callers, the   *)
(* clock and failures come between any two of these steps.                 *)
(***************************************************************************)
EXTENDS Environment, RequestData, Sequences

CONSTANTS
    Callers,    \* processes that may be inside _persist_submission
    Origins     \* on whose behalf a caller saves (history only)

VARIABLES
    submissions,    \* the table, in the order of its ids; the columns are key,
                    \* payload and created, and two history fields tell under
                    \* which key (born) and for whom (origin) it was inserted
    persist         \* for each caller, where its call of _persist_submission is

store == <<submissions, persist>>

SubmissionRows ==
    [key : MaybeKeys, born : MaybeKeys, payload : Payloads,
     created : 0 .. MaxTime, origin : Origins]

NotSaving == [step |-> "idle"]

\* "find" to "refind" are statements still to execute; the other four are the
\* ways the call ends: it returns row, or raises IdempotencyKeyMismatch,
\* IntegrityError or OperationalError.
Outcomes == {"saved", "mismatch", "integrity", "unavailable"}

ActiveCalls ==
    [step : {"find", "release", "insert", "refind"} \cup Outcomes,
     key : MaybeKeys, payload : Payloads, origin : Origins, row : Nat]

PersistCalls == {NotSaving} \cup ActiveCalls

InitStore ==
    /\ submissions = << >>
    /\ persist = [c \in Callers |-> NotSaving]

-----------------------------------------------------------------------------

Ids == DOMAIN submissions

\* A row a call refers to exists.
StoreOK ==
    /\ submissions \in Seq(SubmissionRows)
    /\ persist \in [Callers -> PersistCalls]
    /\ \A c \in Callers :
          persist[c].step \in {"release", "saved"} => persist[c].row \in Ids

\* _find_submission_by_idempotency_key: the ids of the rows it returns.
HoldersOf(key) == {id \in Ids : key # NoKey /\ submissions[id].key = key}

\* A bug to detect: any row that holds the key counts as the caller's own.
PayloadMatchesAlways(id, payload) == TRUE

PayloadMatches(id, payload) == submissions[id].payload = payload

AtStatement(c, step) == persist[c].step = step

GoTo(c, step) == persist' = [persist EXCEPT ![c].step = step]

\* What the call makes of a row that holds its key: return it or refuse.
AnswerFrom(c, id) ==
    IF PayloadMatches(id, persist[c].payload)
    THEN persist' = [persist EXCEPT ![c].step = "saved", ![c].row = id]
    ELSE GoTo(c, "mismatch")

StartPersist(c, key, payload, origin) ==
    /\ AtStatement(c, "idle")
    /\ persist' = [persist EXCEPT ![c] =
                     [step |-> IF key = NoKey THEN "insert" ELSE "find",
                      key |-> key, payload |-> payload, origin |-> origin,
                      row |-> 0]]

FindKey(c) ==
    /\ AtStatement(c, "find")
    /\ \/ /\ HoldersOf(persist[c].key) = {}
          /\ GoTo(c, "insert")
       \/ \E id \in HoldersOf(persist[c].key) :
             IF IsExpired(submissions[id].created)
             THEN persist' = [persist EXCEPT ![c].step = "release",
                                             ![c].row = id]
             ELSE AnswerFrom(c, id)
    /\ UNCHANGED submissions
    /\ NoFault

\* A bug to detect: an UPDATE that names the key alone, not the row it read.
ReleasableByKey(c, id) == submissions[id].key = persist[c].key

\* The WHERE clause of _release_expired_key: the row it read, if it still
\* holds the key.
Releasable(c, id) ==
    id = persist[c].row /\ submissions[id].key = persist[c].key

ReleaseExpiredKey(c) ==
    /\ AtStatement(c, "release")
    /\ submissions' = [id \in Ids |->
                         IF Releasable(c, id)
                         THEN [submissions[id] EXCEPT !.key = NoKey]
                         ELSE submissions[id]]
    /\ GoTo(c, "insert")
    /\ NoFault

-----------------------------------------------------------------------------
\* The INSERT and its commit.  The unique index refuses a key that a row
\* holds by then.

NewRow(c) == [key |-> persist[c].key, born |-> persist[c].key,
              payload |-> persist[c].payload, created |-> now,
              origin |-> persist[c].origin]

InsertRow(c) ==
    /\ AtStatement(c, "insert")
    /\ HoldersOf(persist[c].key) = {}
    /\ submissions' = Append(submissions, NewRow(c))

\* A bug to detect: the commit is forgotten, session.close() rolls back.
InsertUncommitted(c) ==
    /\ AtStatement(c, "insert")
    /\ HoldersOf(persist[c].key) = {}
    /\ persist' = [persist EXCEPT ![c].step = "saved",
                                  ![c].row = Len(submissions) + 1]
    /\ UNCHANGED submissions
    /\ NoFault

InsertSubmission(c) ==
    /\ InsertRow(c)
    /\ persist' = [persist EXCEPT ![c].step = "saved",
                                  ![c].row = Len(submissions) + 1]
    /\ NoFault

InsertRefused(c) ==
    /\ AtStatement(c, "insert")
    /\ HoldersOf(persist[c].key) # {}
    /\ GoTo(c, "refind")
    /\ UNCHANGED submissions
    /\ NoFault

\* A bug to detect: whoever loses the race is refused.
RefindRefuses(c) ==
    /\ AtStatement(c, "refind")
    /\ GoTo(c, IF HoldersOf(persist[c].key) = {} THEN "integrity"
                                                 ELSE "mismatch")
    /\ UNCHANGED submissions
    /\ NoFault

\* After the rollback the row is looked up again, this time without asking
\* whether it has expired; when it is gone the IntegrityError is raised.
RefindKey(c) ==
    /\ AtStatement(c, "refind")
    /\ \/ /\ HoldersOf(persist[c].key) = {}
          /\ GoTo(c, "integrity")
       \/ \E id \in HoldersOf(persist[c].key) : AnswerFrom(c, id)
    /\ UNCHANGED submissions
    /\ NoFault

-----------------------------------------------------------------------------
\* Failures.

StatementLeft(c) ==
    persist[c].step \in {"find", "release", "insert", "refind"}

\* Any statement raises OperationalError; its transaction is rolled back.
DatabaseFails(c) ==
    /\ StatementLeft(c)
    /\ GoTo(c, "unavailable")
    /\ UNCHANGED submissions
    /\ Fault

\* The INSERT is committed, but the caller learns of it as an OperationalError:
\* the connection is lost during the commit, or session.refresh fails.
InsertedButUnavailable(c) ==
    /\ InsertRow(c)
    /\ GoTo(c, "unavailable")
    /\ Fault

\* The call has returned, or the process died inside it.
LeavePersist(c) ==
    /\ ~AtStatement(c, "idle")
    /\ persist' = [persist EXCEPT ![c] = NotSaving]

PersistStep(c) ==
    \/ FindKey(c)
    \/ ReleaseExpiredKey(c)
    \/ InsertSubmission(c)
    \/ InsertRefused(c)
    \/ RefindKey(c)
    \/ DatabaseFails(c)
    \/ InsertedButUnavailable(c)

-----------------------------------------------------------------------------
\* What the table promises, whoever calls.

\* Two rows that were inserted under one key are at least a key lifetime
\* apart: duplicates, retries, redeliveries and races of any number of
\* callers save one row for each lifetime of a key (_persist_submission).
OneRowPerKeyWithinTtl ==
    \A i, j \in Ids :
        i < j /\ submissions[i].born = submissions[j].born
              /\ submissions[i].born # NoKey
            => submissions[i].created + TTL <= submissions[j].created

\* A call that returns a row returns one saved under the call's key with the
\* call's own payload, also when the row was another caller's that won the
\* race (the "race_resolved" path after an IntegrityError).
SavedRowIsMine ==
    \A c \in Callers :
        AtStatement(c, "saved") =>
            /\ submissions[persist[c].row].born = persist[c].key
            /\ submissions[persist[c].row].payload = persist[c].payload

\* A call is refused with IdempotencyKeyMismatch only if it has a key, and that
\* key really was used for a different payload.
MismatchIsReal ==
    \A c \in Callers :
        AtStatement(c, "mismatch") =>
            /\ persist[c].key # NoKey
            /\ \E id \in Ids : /\ submissions[id].born = persist[c].key
                               /\ submissions[id].payload # persist[c].payload

-----------------------------------------------------------------------------
\* The abstract store that this table implements: a row is under the key it was
\* born with, and a caller that has statements left has asked and knows nothing.

SavedRow(row) == [key |-> row.born, payload |-> row.payload,
                  created |-> row.created, origin |-> row.origin]

SavedRows == [id \in Ids |-> SavedRow(submissions[id])]

CallOf(call) ==
    CASE call.step = "idle" -> NotSaving
      [] call.step = "saved" -> [step |-> "saved", row |-> call.row]
      [] call.step \in Outcomes \ {"saved"} -> [step |-> call.step]
      [] OTHER -> [step |-> "asked", key |-> call.key,
                   payload |-> call.payload, origin |-> call.origin]

Calls == [c \in Callers |-> CallOf(persist[c])]

Promised == INSTANCE IdempotentStore WITH saved <- SavedRows, call <- Calls

\* The statements of _persist_submission, interleaved with those of any other
\* callers, amount to a store in which each call is decided at one instant by
\* the row saved last under its key: nobody is given or refused an older row,
\* also when the key changes hands between two statements, and whatever is
\* released was past its lifetime.
ImplementsIdempotentStore == Promised!PromiseSpec

-----------------------------------------------------------------------------
\* The strengthening that makes these properties inductive.

\* A row keeps the key it was born with until it has expired.
KeyLeavesOnlyWhenExpired ==
    \A id \in Ids :
        \/ submissions[id].key = submissions[id].born
        \/ /\ submissions[id].key = NoKey
           /\ IsExpired(submissions[id].created)

CreatedInThePast == \A id \in Ids : submissions[id].created <= now

\* The row a caller is about to release has already expired.
ReleasesExpiredRow ==
    \A c \in Callers :
        AtStatement(c, "release") =>
            IsExpired(submissions[persist[c].row].created)

\* Of the rows born with a key only the last may still hold it.
HolderIsLast ==
    \A i, j \in Ids :
        i < j /\ submissions[i].born = submissions[j].born
              /\ submissions[i].born # NoKey
            => submissions[i].key = NoKey

\* A caller looks again only after a row with its key was in the way.
RefindsUsedKey ==
    \A c \in Callers :
        AtStatement(c, "refind") =>
            /\ persist[c].key # NoKey
            /\ \E id \in Ids : submissions[id].born = persist[c].key

StoreInv ==
    /\ EnvironmentOK
    /\ StoreOK
    /\ KeyLeavesOnlyWhenExpired
    /\ CreatedInThePast
    /\ ReleasesExpiredRow
    /\ OneRowPerKeyWithinTtl
    /\ SavedRowIsMine
    /\ MismatchIsReal
    /\ HolderIsLast
    /\ RefindsUsedKey

=============================================================================
