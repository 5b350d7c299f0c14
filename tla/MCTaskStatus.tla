--------------------------- MODULE MCTaskStatus ---------------------------
(***************************************************************************)
(* TaskStatus for TLC: three writers of one task, two tries, one           *)
(* submission id.  The writers are interchangeable.                        *)
(***************************************************************************)
EXTENDS TaskStatus, TLC

CONSTANTS w1, w2, w3, t1

MCWriters == {w1, w2, w3}

MCTasks == {t1}

MCSubmissionIds == {1}

Symmetry == Permutations(MCWriters)

=============================================================================
