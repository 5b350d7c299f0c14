-------------------------- MODULE MCSubmissionStore --------------------------
(***************************************************************************)
(* SubmissionStore for TLC: three callers of one key with two payloads.    *)
(* A lifetime of two clock units in a run of four lets the key expire      *)
(* twice; callers, and payloads, are interchangeable.                      *)
(***************************************************************************)
EXTENDS SubmissionStore, TLC

CONSTANTS c1, c2, c3, k1, pa, pb, o1

MCCallers == {c1, c2, c3}

MCKeys == {k1}

MCPayloads == {pa, pb}

MCOrigins == {o1}

Symmetry == Permutations(MCCallers) \cup Permutations(MCPayloads)

=============================================================================
