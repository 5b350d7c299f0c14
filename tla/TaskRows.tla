------------------------------ MODULE TaskRows ------------------------------
(***************************************************************************)
(* Rows of the table task_statuses (shared/models.py) and what one write   *)
(* of shared/task_status.py does to one row.  Pure operators: the modules  *)
(* that own a table of rows say when the writes happen.                    *)
(***************************************************************************)
EXTENDS Integers

CONSTANTS
    Tasks,          \* task ids, each a uuid4 that is never reused
    SubmissionIds,  \* primary keys of the table submissions
    MaxRetries      \* max_retries of the Celery task: 3 in worker/tasks.py

ASSUME TaskRowsAssumption ==
    /\ SubmissionIds \subseteq Nat \ {0}
    /\ MaxRetries \in Nat

NoSubmission == 0       \* submission_id is NULL
NoError == "none"       \* error_type is NULL
KeepRetries == -1       \* the argument retries=None

Errors == {"OperationalError", "IntegrityError", "IdempotencyKeyMismatch",
           "QueueUnavailable"}

\* A bug to detect: a task that waits for its retry counts as finished.
TERMINAL_WITH_RETRYING == {"processed", "failed", "retrying"}

TERMINAL_TASK_STATUSES == {"processed", "failed"}

-----------------------------------------------------------------------------
\* A row that does not exist is the row "absent".

Row(status, submission, error, retries) ==
    [status |-> status, submission |-> submission, error |-> error,
     retries |-> retries]

Absent == Row("absent", NoSubmission, NoError, 0)

Queued == Row("queued", NoSubmission, NoError, 0)

Rows == [status : {"absent", "queued", "processing", "retrying", "processed",
                   "failed", "conflict"},
         submission : SubmissionIds \cup {NoSubmission},
         error : Errors \cup {NoError},
         retries : 0 .. MaxRetries]

-----------------------------------------------------------------------------
\* The argument lists of record_task_status, one operator per call site.

Processing(retries) == Row("processing", NoSubmission, NoError, retries)

Processed(retries, submission) == Row("processed", submission, NoError, retries)

Retrying(retries) == Row("retrying", NoSubmission, "OperationalError", retries)

Conflict(retries) ==
    Row("conflict", NoSubmission, "IdempotencyKeyMismatch", retries)

Failed(retries, error) == Row("failed", NoSubmission, error, retries)

\* The enqueueing request gives up: the one call that leaves retries out.
NeverQueued == Failed(KeepRetries, "QueueUnavailable")

Writes ==
    LET Tries == 0 .. MaxRetries
    IN  {Processing(n) : n \in Tries}
        \cup {Processed(n, s) : n \in Tries, s \in SubmissionIds}
        \cup {Retrying(n) : n \in Tries \ {MaxRetries}}
        \cup {Conflict(n) : n \in Tries}
        \cup {Failed(n, e) : n \in Tries,
                             e \in {"OperationalError", "IntegrityError"}}
        \cup {NeverQueued}

-----------------------------------------------------------------------------
\* What a write does to a row.

IsTerminal(row) == row.status \in TERMINAL_TASK_STATUSES

\* A bug to detect: the UPDATE without its status.not_in(...) condition.
MayUpdateAnyRow(row) == row.status # "absent"

\* The WHERE clause of the conditional UPDATE.
MayUpdate(row) == row.status # "absent" /\ ~IsTerminal(row)

\* A bug to detect: the SET clause skips error_type when it is None.
UpdatedUnlessNone(row, write) ==
    [write EXCEPT !.retries = IF @ = KeepRetries THEN row.retries ELSE @,
                  !.error = IF @ = NoError THEN row.error ELSE @]

\* The SET clause: submission_id and error_type are always written, retries
\* only when the caller passed a number.
Updated(row, write) ==
    [write EXCEPT !.retries = IF @ = KeepRetries THEN row.retries ELSE @]

\* A bug to detect: the INSERT stores retries=None as it is.
InsertedAsGiven(write) == write

\* The VALUES of the INSERT: "retries or 0".
Inserted(write) == [write EXCEPT !.retries = IF @ = KeepRetries THEN 0 ELSE @]

\* A whole record_task_status that no other writer interrupts.
Recorded(row, write) ==
    IF MayUpdate(row) THEN Updated(row, write)
    ELSE IF row.status = "absent" THEN Inserted(write) ELSE row

\* A bug to detect: the row is written whether there is one or not.
MarkedAnyway(row) == Queued

\* A whole mark_task_queued.
Marked(row) == IF row.status = "absent" THEN Queued ELSE row

=============================================================================
