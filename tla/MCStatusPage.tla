---------------------------- MODULE MCStatusPage ----------------------------
(***************************************************************************)
(* StatusPage for TLC: one worker, two tasks, and the page of the first.   *)
(* Its request has the client key k1 or none; the other shares that key,   *)
(* with the same payload or another one.  One worker runs the copies of a  *)
(* message one after the other; WorkerPool has them overlap.               *)
(***************************************************************************)
EXTENDS StatusPage

CONSTANTS w1, t1, t2, k1, pa, pb

MCWorkers == {w1}

MCTasks == {t1, t2}

MCKeys == {k1, t1, t2}

MCPayloads == {pa, pb}

MCRequests ==
    [t \in MCTasks |->
        IF t = t1 THEN [key : {k1, NoKey}, payload : {pa}]
                  ELSE [key : {k1}, payload : {pa, pb}]]

MCSubmissionIds == 1 .. 3

=============================================================================
