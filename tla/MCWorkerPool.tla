---------------------------- MODULE MCWorkerPool ----------------------------
(***************************************************************************)
(* WorkerPool for TLC: two workers, two tasks that may carry the one       *)
(* client key k1 or no key, and two payloads.                              *)
(***************************************************************************)
EXTENDS WorkerPool, TLC

CONSTANTS w1, w2, t1, t2, k1, pa, pb

MCWorkers == {w1, w2}

MCTasks == {t1, t2}

MCKeys == {k1, t1, t2}

MCPayloads == {pa, pb}

MCRequests == [t \in MCTasks |-> [key : {k1, NoKey}, payload : MCPayloads]]

MCSubmissionIds == 1 .. 4

Symmetry == Permutations(MCWorkers) \cup Permutations(MCTasks)
            \cup Permutations(MCPayloads)

=============================================================================
