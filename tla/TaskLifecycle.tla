--------------------------- MODULE TaskLifecycle ---------------------------
(***************************************************************************)
(* What shared/task_status.py promises its callers: a table of task status *)
(* rows on which record_task_status and mark_task_queued act in one        *)
(* indivisible step, or (a best-effort write) not at all.  TaskStatus.tla  *)
(* shows that the statements of the code implement it.                     *)
(***************************************************************************)
EXTENDS TaskRows

VARIABLE taskStatus     \* the table task_statuses, a function of the task id

TaskTable == [Tasks -> Rows]

InitTaskTable == taskStatus = [t \in Tasks |-> Absent]

RecordTaskStatus(t, write) ==
    taskStatus' = [taskStatus EXCEPT ![t] = Recorded(@, write)]

MarkTaskQueued(t) == taskStatus' = [taskStatus EXCEPT ![t] = Marked(@)]

NextTaskTable ==
    \E t \in Tasks : \/ MarkTaskQueued(t)
                     \/ \E write \in Writes : RecordTaskStatus(t, write)

TaskTableSpec == InitTaskTable /\ [][NextTaskTable]_taskStatus

=============================================================================
