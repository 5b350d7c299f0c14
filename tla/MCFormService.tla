---------------------------- MODULE MCFormService ----------------------------
(***************************************************************************)
(* FormService for TLC: two asynchronous requests, one synchronous request *)
(* and two workers, which race for the key k1 with two payloads.           *)
(***************************************************************************)
EXTENDS FormService, TLC

CONSTANTS w1, w2, s1, t1, t2, k1, pa, pb

MCWorkers == {w1, w2}

MCSync == {s1}

MCTasks == {t1, t2}

MCCallers == MCWorkers \cup MCSync

MCOrigins == MCTasks \cup MCSync

MCKeys == {k1, t1, t2}

MCRequestKeys == {k1}

MCPayloads == {pa, pb}

MCSubmissionIds == 1 .. 4

Symmetry == Permutations(MCWorkers) \cup Permutations(MCTasks) \cup Permutations(MCPayloads)

=============================================================================
