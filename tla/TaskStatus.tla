----------------------------- MODULE TaskStatus -----------------------------
(***************************************************************************)
(* shared/task_status.py one SQL statement at a time.  Any number of       *)
(* writers (web requests, workers, workers running a redelivered copy of   *)
(* the same message) call record_task_status and mark_task_queued; every   *)
(* call opens its own session, and the database is read committed: what a  *)
(* call found may have changed when it writes.  A write that raises, or a  *)
(* process that dies in the middle, ends the call: both are swallowed.     *)
(***************************************************************************)
EXTENDS TaskRows

CONSTANT Writers

VARIABLES
    rows,   \* the table task_statuses, a function of the task id
    call    \* for each writer, the statement its call executes next

vars == <<rows, call>>

NoCall == [step |-> "idle"]

Calls ==
    {NoCall}
    \cup [step : {"mark_find", "mark_insert"}, task : Tasks]
    \cup [step : {"update", "find", "insert", "reupdate"},
          task : Tasks, write : Writes]

Init ==
    /\ rows = [t \in Tasks |-> Absent]
    /\ call = [w \in Writers |-> NoCall]

-----------------------------------------------------------------------------

At(w, step) == call[w].step = step

Goto(w, step) == call' = [call EXCEPT ![w].step = step]

Return(w) == call' = [call EXCEPT ![w] = NoCall]

Exists(t) == rows[t].status # "absent"

WriteRow(t, row) == rows' = [rows EXCEPT ![t] = row]

\* mark_task_queued: look for the row, insert it when there was none.
CallMarkQueued(w, t) ==
    /\ At(w, "idle")
    /\ call' = [call EXCEPT ![w] = [step |-> "mark_find", task |-> t]]
    /\ UNCHANGED rows

MarkFind(w) ==
    /\ At(w, "mark_find")
    /\ IF Exists(call[w].task) THEN Return(w) ELSE Goto(w, "mark_insert")
    /\ UNCHANGED rows

\* A bug to detect: an upsert in place of the INSERT.
MarkUpsert(w) ==
    /\ At(w, "mark_insert")
    /\ WriteRow(call[w].task, Queued)
    /\ Return(w)

\* The unique index refuses a second row: IntegrityError, rolled back.
MarkInsert(w) ==
    /\ At(w, "mark_insert")
    /\ IF Exists(call[w].task) THEN UNCHANGED rows
                               ELSE WriteRow(call[w].task, Queued)
    /\ Return(w)

\* record_task_status: a conditional UPDATE, and only when it hit no row a
\* look at whether there is one, an INSERT, and the UPDATE again when the
\* INSERT lost a race.
CallRecord(w, t, write) ==
    /\ At(w, "idle")
    /\ call' = [call EXCEPT ![w] = [step |-> "update", task |-> t,
                                    write |-> write]]
    /\ UNCHANGED rows

UpdateUnlessTerminal(w) ==
    LET t == call[w].task
    IN  IF MayUpdate(rows[t])
        THEN WriteRow(t, Updated(rows[t], call[w].write))
        ELSE UNCHANGED rows

Update(w) ==
    /\ At(w, "update")
    /\ UpdateUnlessTerminal(w)
    /\ IF MayUpdate(rows[call[w].task]) THEN Return(w) ELSE Goto(w, "find")

Find(w) ==
    /\ At(w, "find")
    /\ IF Exists(call[w].task) THEN Return(w) ELSE Goto(w, "insert")
    /\ UNCHANGED rows

Insert(w) ==
    /\ At(w, "insert")
    /\ IF Exists(call[w].task)
       THEN Goto(w, "reupdate") /\ UNCHANGED rows
       ELSE Return(w) /\ WriteRow(call[w].task, Inserted(call[w].write))

Reupdate(w) ==
    /\ At(w, "reupdate")
    /\ UpdateUnlessTerminal(w)
    /\ Return(w)

\* Any statement may raise, and any process may die: the call ends there.
WriteFails(w) ==
    /\ ~At(w, "idle")
    /\ Return(w)
    /\ UNCHANGED rows

Step(w) ==
    \/ MarkFind(w)
    \/ MarkInsert(w)
    \/ Update(w)
    \/ Find(w)
    \/ Insert(w)
    \/ Reupdate(w)
    \/ WriteFails(w)

NewCall(w) ==
    \E t \in Tasks : \/ CallMarkQueued(w, t)
                     \/ \E write \in Writes : CallRecord(w, t, write)

Next == \E w \in Writers : NewCall(w) \/ Step(w)

Spec == Init /\ [][Next]_vars

-----------------------------------------------------------------------------
\* The table holds rows, and every writer is idle or at a statement of one of
\* the two functions, with the arguments a caller in the code passes.
TypeOK ==
    /\ rows \in [Tasks -> Rows]
    /\ call \in [Writers -> Calls]

\* The columns of a row come from one and the same write: a finished task
\* names the submission it saved, a task that runs again after a retry no
\* longer shows the error of the try before it, and no mixture of two
\* concurrent writers' columns is ever visible (record_task_status).
ColumnsOfOneWrite ==
    \A t \in Tasks :
        LET row == rows[t]
        IN  \/ row \in {Absent, Queued}
            \/ \E write \in Writes : /\ row.status = write.status
                                     /\ row.submission = write.submission
                                     /\ row.error = write.error

\* No interleaving of writers moves a task out of "processed" or "failed" or
\* changes any column of such a row: the comment above
\* TERMINAL_TASK_STATUSES and the docstring of record_task_status.
TerminalIsFinal ==
    [][\A t \in Tasks :
          rows[t].status \in {"processed", "failed"} => rows'[t] = rows[t]]_vars

\* Writers that interleave statement by statement do to the table no more
\* than indivisible writes, some of them lost, would: TaskLifecycle.
Lifecycle == INSTANCE TaskLifecycle WITH taskStatus <- rows

Implements == Lifecycle!TaskTableSpec

\* A record_task_status that returns because it found the row was right to
\* leave it: "The row exists and is terminal: leave it as it is."
FoundRowIsTerminal ==
    [][\A w \in Writers :
          Find(w) /\ Exists(call[w].task) => IsTerminal(rows[call[w].task])]_vars

=============================================================================
