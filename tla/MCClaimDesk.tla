----------------------------- MODULE MCClaimDesk -----------------------------
(***************************************************************************)
(* ClaimDesk for TLC: three requests that all carry the key k1, or no key  *)
(* where the configuration allows it, with two payloads.                   *)
(***************************************************************************)
EXTENDS ClaimDesk, TLC

CONSTANTS t1, t2, t3, k1, pa, pb

MCTasks == {t1, t2, t3}

MCKeys == {k1}

MCRequestKeys == {k1, NoKey}

MCPayloads == {pa, pb}

MCSubmissionIds == {1}

Symmetry == Permutations(MCTasks) \cup Permutations(MCPayloads)

=============================================================================
