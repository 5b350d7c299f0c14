-------------------------- MODULE TaskStatusProofs --------------------------
(***************************************************************************)
(* Proofs about TaskStatus, for any writers, tasks, submission ids and     *)
(* number of retries.  TypeOK is inductive by itself; the other properties *)
(* need it to know that a call at a statement of record_task_status holds  *)
(* the arguments of one of the call sites.                                 *)
(***************************************************************************)
EXTENDS TaskStatus, TLAPS

\* What an INSERT or an UPDATE stores is a row (retries=None is resolved).
LEMMA WritesAreRows ==
    ASSUME NEW write \in Writes, NEW row \in Rows
    PROVE  /\ Inserted(write) \in Rows
           /\ Updated(row, write) \in Rows
           /\ ~(write.status \in {"absent", "queued"})
    BY TaskRowsAssumption
    DEF Writes, Rows, Inserted, Updated, Processing, Processed, Retrying,
        Conflict, Failed, NeverQueued, Row, Errors, NoError, NoSubmission,
        KeepRetries

\* A call keeps its arguments while it moves between the statements of one
\* function.
LEMMA CallsAtAStep ==
    ASSUME NEW c \in Calls
    PROVE  /\ c.step \in {"update", "find", "insert", "reupdate"} =>
                 c \in [step : {"update", "find", "insert", "reupdate"},
                        task : Tasks, write : Writes]
           /\ c.step \in {"mark_find", "mark_insert"} =>
                 c \in [step : {"mark_find", "mark_insert"}, task : Tasks]
    BY DEF Calls, NoCall

\* Every reachable state is well typed: the columns of task_statuses stay in
\* their domains whatever the writers of shared/task_status.py interleave.
THEOREM TypeCorrect == Spec => []TypeOK
<1>1. Init => TypeOK
    BY TaskRowsAssumption
    DEF Init, TypeOK, Rows, Absent, Row, Calls, NoCall, NoError, NoSubmission
<1>2. TypeOK /\ [Next]_vars => TypeOK'
    <2> SUFFICES ASSUME TypeOK, [Next]_vars
                 PROVE  TypeOK'
        OBVIOUS
    <2>1. CASE UNCHANGED vars
        BY <2>1 DEF vars, TypeOK
    <2>2. ASSUME NEW w \in Writers, NEW t \in Tasks, CallMarkQueued(w, t)
          PROVE  TypeOK'
        BY <2>2 DEF CallMarkQueued, TypeOK, Calls
    <2>3. ASSUME NEW w \in Writers, NEW t \in Tasks, NEW write \in Writes,
                 CallRecord(w, t, write)
          PROVE  TypeOK'
        BY <2>3 DEF CallRecord, TypeOK, Calls
    <2>4. ASSUME NEW w \in Writers, Step(w)
          PROVE  TypeOK'
        <3>1. call[w] \in Calls
            BY DEF TypeOK
        <3>2. call' \in [Writers -> Calls]
            BY <2>4, <3>1, CallsAtAStep
            DEF TypeOK, Step, MarkFind, MarkInsert, Update, Find, Insert,
                Reupdate, WriteFails, At, Goto, Return, Calls
        <3>3. Queued \in Rows
            BY TaskRowsAssumption
            DEF Queued, Row, Rows, NoError, NoSubmission
        <3>4. rows' \in [Tasks -> Rows]
            BY <2>4, <3>1, <3>3, CallsAtAStep, WritesAreRows
            DEF TypeOK, Step, MarkFind, MarkInsert, Update, Find, Insert,
                Reupdate, WriteFails, At, UpdateUnlessTerminal, WriteRow
        <3> QED BY <3>2, <3>4 DEF TypeOK
    <2> QED BY <2>1, <2>2, <2>3, <2>4 DEF Next, NewCall
<1> QED BY <1>1, <1>2, PTL DEF Spec

-----------------------------------------------------------------------------
\* The step of one statement, seen from the table: a task's row is left
\* alone, marked, or takes one write of the code.  Insert writes only where
\* there is no row and both UPDATEs only where the row is not terminal.
LEMMA StatementsWriteWhole ==
    ASSUME TypeOK, NEW w \in Writers, Step(w)
    PROVE  \/ rows' = rows
           \/ \E t \in Tasks :
                 \/ /\ rows[t].status = "absent"
                    /\ rows' = [rows EXCEPT ![t] = Queued]
                 \/ \E write \in Writes :
                       \/ /\ rows[t].status = "absent"
                          /\ rows' = [rows EXCEPT ![t] = Inserted(write)]
                       \/ /\ MayUpdate(rows[t])
                          /\ rows' = [rows EXCEPT ![t] =
                                         Updated(rows[t], write)]
<1>1. call[w] \in Calls
    BY DEF TypeOK
<1>2. CASE MarkInsert(w)
    BY <1>1, <1>2, CallsAtAStep
    DEF MarkInsert, At, WriteRow, Exists
<1>3. CASE Insert(w)
    BY <1>1, <1>3, CallsAtAStep DEF Insert, At, WriteRow, Exists
<1>4. CASE Update(w) \/ Reupdate(w)
    BY <1>1, <1>4, CallsAtAStep
    DEF Update, Reupdate, At, UpdateUnlessTerminal, WriteRow
<1>5. CASE MarkFind(w) \/ Find(w) \/ WriteFails(w)
    BY <1>5 DEF MarkFind, Find, WriteFails
<1> QED BY <1>2, <1>3, <1>4, <1>5 DEF Step

\* "A task that reached one of these states never leaves it": whatever
\* writers interleave, a row that is processed or failed never changes.
THEOREM TerminalRowsNeverChange == Spec => TerminalIsFinal
<1> DEFINE Final == \A t \in Tasks :
                      rows[t].status \in {"processed", "failed"}
                          => rows'[t] = rows[t]
<1>1. TypeOK /\ [Next]_vars => [Final]_vars
    <2> SUFFICES ASSUME TypeOK, Next
                 PROVE  Final
        BY DEF vars
    <2>1. ASSUME NEW w \in Writers, NewCall(w)
          PROVE  Final
        BY <2>1 DEF NewCall, CallMarkQueued, CallRecord
    <2>2. ASSUME NEW w \in Writers, Step(w)
          PROVE  Final
        BY <2>2, StatementsWriteWhole
        DEF TypeOK, MayUpdate, IsTerminal, TERMINAL_TASK_STATUSES
    <2> QED BY <2>1, <2>2 DEF Next
<1> QED BY <1>1, TypeCorrect, PTL DEF Spec, TerminalIsFinal

\* A visible row always shows the columns of one single write, for any
\* interleaving of the statements of shared/task_status.py.
THEOREM RowsAreNotMixed == Spec => []ColumnsOfOneWrite
<1>1. Init => ColumnsOfOneWrite
    BY DEF Init, ColumnsOfOneWrite
<1>2. ASSUME NEW write \in Writes, NEW row
      PROVE  LET same(r) == /\ r.status = write.status
                            /\ r.submission = write.submission
                            /\ r.error = write.error
             IN  same(Inserted(write)) /\ same(Updated(row, write))
    BY DEF Writes, Inserted, Updated, Processing, Processed, Retrying,
           Conflict, Failed, NeverQueued, Row
<1>3. TypeOK /\ ColumnsOfOneWrite /\ [Next]_vars => ColumnsOfOneWrite'
    <2> SUFFICES ASSUME TypeOK, ColumnsOfOneWrite, [Next]_vars
                 PROVE  ColumnsOfOneWrite'
        OBVIOUS
    <2>1. CASE rows' = rows
        BY <2>1 DEF ColumnsOfOneWrite
    <2>2. ASSUME NEW w \in Writers, Step(w)
          PROVE  ColumnsOfOneWrite'
        <3>1. ASSUME NEW t \in Tasks, rows' = [rows EXCEPT ![t] = Queued]
              PROVE  ColumnsOfOneWrite'
            BY <3>1 DEF TypeOK, ColumnsOfOneWrite
        <3>2. ASSUME NEW t \in Tasks, NEW write \in Writes,
                     NEW row \in {Inserted(write), Updated(rows[t], write)},
                     rows' = [rows EXCEPT ![t] = row]
              PROVE  ColumnsOfOneWrite'
            <4>1. /\ row.status = write.status
                  /\ row.submission = write.submission
                  /\ row.error = write.error
                BY <1>2
            <4> QED BY <3>2, <4>1 DEF TypeOK, ColumnsOfOneWrite
        <3> QED BY <2>1, <2>2, <3>1, <3>2, StatementsWriteWhole
    <2> QED
        BY <2>1, <2>2
        DEF Next, NewCall, CallMarkQueued, CallRecord, vars
<1> QED BY <1>1, <1>3, TypeCorrect, PTL DEF Spec

\* The instance of TaskLifecycle speaks of rows and writes with the same
\* operators as TaskStatus.
LEMMA SameRowsAndWrites ==
    /\ Lifecycle!Absent = Absent
    /\ Lifecycle!Queued = Queued
    /\ Lifecycle!Writes = Writes
    /\ \A row, write : Lifecycle!Recorded(row, write) = Recorded(row, write)
<1>1. Lifecycle!Absent = Absent /\ Lifecycle!Queued = Queued
    BY DEF Lifecycle!Absent, Lifecycle!Queued, Absent, Queued, Row,
           Lifecycle!Row, NoError, Lifecycle!NoError, NoSubmission,
           Lifecycle!NoSubmission
<1>2. Lifecycle!Writes = Writes
    BY DEF Lifecycle!Writes, Writes, Lifecycle!Processing, Processing,
           Lifecycle!Processed, Processed, Lifecycle!Retrying, Retrying,
           Lifecycle!Conflict, Conflict, Lifecycle!Failed, Failed,
           Lifecycle!NeverQueued, NeverQueued, Lifecycle!Row, Row,
           NoError, Lifecycle!NoError, NoSubmission, Lifecycle!NoSubmission,
           KeepRetries, Lifecycle!KeepRetries
<1>3. ASSUME NEW row, NEW write
      PROVE  Lifecycle!Recorded(row, write) = Recorded(row, write)
    BY DEF Lifecycle!Recorded, Recorded, Lifecycle!MayUpdate, MayUpdate,
           Lifecycle!IsTerminal, IsTerminal,
           Lifecycle!TERMINAL_TASK_STATUSES, TERMINAL_TASK_STATUSES,
           Lifecycle!Updated, Updated, Lifecycle!Inserted, Inserted,
           KeepRetries, Lifecycle!KeepRetries
<1> QED BY <1>1, <1>2, <1>3

\* shared/task_status.py, statement by statement and under any interleaving,
\* implements the table with indivisible writes of TaskLifecycle.
THEOREM ImplementsLifecycle == Spec => Implements
<1>1. Init => Lifecycle!InitTaskTable
    BY SameRowsAndWrites DEF Init, Lifecycle!InitTaskTable
<1>2. TypeOK /\ [Next]_vars => [Lifecycle!NextTaskTable]_rows
    <2> SUFFICES ASSUME TypeOK, Next, rows' # rows
                 PROVE  Lifecycle!NextTaskTable
        BY DEF vars
    <2>1. PICK w \in Writers : Step(w)
        BY DEF Next, NewCall, CallMarkQueued, CallRecord
    <2>2. PICK t \in Tasks :
            \/ /\ rows[t].status = "absent"
               /\ rows' = [rows EXCEPT ![t] = Queued]
            \/ \E write \in Writes :
                  \/ /\ rows[t].status = "absent"
                     /\ rows' = [rows EXCEPT ![t] = Inserted(write)]
                  \/ /\ MayUpdate(rows[t])
                     /\ rows' = [rows EXCEPT ![t] = Updated(rows[t], write)]
        BY <2>1, StatementsWriteWhole
    <2>3. CASE /\ rows[t].status = "absent"
               /\ rows' = [rows EXCEPT ![t] = Queued]
        BY <2>3, SameRowsAndWrites
        DEF Lifecycle!NextTaskTable, Lifecycle!MarkTaskQueued,
            Lifecycle!Marked
    <2>4. ASSUME NEW write \in Writes,
                 rows[t].status = "absent",
                 rows' = [rows EXCEPT ![t] = Inserted(write)]
          PROVE  Lifecycle!RecordTaskStatus(t, write)
        BY <2>4, SameRowsAndWrites
        DEF Lifecycle!RecordTaskStatus, Recorded, MayUpdate
    <2>5. ASSUME NEW write \in Writes,
                 MayUpdate(rows[t]),
                 rows' = [rows EXCEPT ![t] = Updated(rows[t], write)]
          PROVE  Lifecycle!RecordTaskStatus(t, write)
        BY <2>5, SameRowsAndWrites
        DEF Lifecycle!RecordTaskStatus, Recorded, MayUpdate
    <2> QED
        BY <2>2, <2>3, <2>4, <2>5, SameRowsAndWrites
        DEF Lifecycle!NextTaskTable
<1> QED
    BY <1>1, <1>2, TypeCorrect, PTL DEF Spec, Implements, Lifecycle!TaskTableSpec

=============================================================================
