----------------------- MODULE SubmissionStoreProofs -----------------------
(***************************************************************************)
(* Proofs about SubmissionStore, for any callers, keys, payloads, key      *)
(* lifetime and bounds: StoreInv is its inductive invariant, as every step *)
(* is one of those that the lemmas of PartsProofs are about.               *)
(***************************************************************************)
EXTENDS SubmissionStore, PartsProofs

\* The inductive invariant of _persist_submission.
THEOREM Invariant == Spec => []StoreInv
<1>1. Init => StoreInv
    BY StoreBegins DEF Init
<1>2. StoreInv /\ [Next]_vars => StoreInv'
    <2> SUFFICES ASSUME StoreInv, [Next]_vars
                 PROVE  StoreInv'
        OBVIOUS
    <2>1. faults \in 0 .. MaxFaults
        BY DEF StoreInv, EnvironmentOK
    <2>2. CASE UNCHANGED vars
        BY <2>1, <2>2, StoreRests DEF vars, environment
    <2>3. CASE Exhausted
        BY <2>2, <2>3 DEF Exhausted
    <2>4. CASE Tick /\ UNCHANGED store
        BY <2>4, TickKeepsStore
    <2>5. ASSUME NEW c \in Callers, Call(c)
          PROVE  StoreInv'
        BY <2>1, <2>5, StartKeepsStore DEF Call, NoFault, environment
    <2>6. ASSUME NEW c \in Callers, PersistStep(c)
          PROVE  StoreInv'
        BY <2>6, PersistStepKeepsStore
    <2>7. ASSUME NEW c \in Callers, Leave(c)
          PROVE  StoreInv'
        BY <2>1, <2>7, LeaveKeepsStore
        DEF Leave, LeavePersist, NoFault, environment
    <2> QED BY <2>2, <2>3, <2>4, <2>5, <2>6, <2>7 DEF Next
<1> QED BY <1>1, <1>2, PTL DEF Spec

\* Rows and calls of _persist_submission stay well formed.
THEOREM TypeCorrect == Spec => []TypeOK
<1>1. StoreInv => TypeOK
    BY DEF StoreInv, TypeOK
<1> QED BY <1>1, Invariant, PTL

\* However many callers race, retry or run a redelivered message, the rows
\* saved under one key are at least a key lifetime apart.
THEOREM KeysSaveOnce == Spec => []OneRowPerKeyWithinTtl
<1>1. StoreInv => OneRowPerKeyWithinTtl
    BY DEF StoreInv
<1> QED BY <1>1, Invariant, PTL

\* A caller is handed a row with its own key and payload.
THEOREM AnswersAreRight == Spec => []SavedRowIsMine
<1>1. StoreInv => SavedRowIsMine
    BY DEF StoreInv
<1> QED BY <1>1, Invariant, PTL

\* A caller is refused only over a row that was saved under its key with a
\* payload that differs.
THEOREM RefusalsAreRight == Spec => []MismatchIsReal
<1>1. StoreInv => MismatchIsReal
    BY DEF StoreInv
<1> QED BY <1>1, Invariant, PTL

\* No step rewrites a row, and none takes the key of a row whose lifetime
\* has not passed.
THEOREM KeysLeaveOnlyWhenExpired == Spec => OnlyExpiredKeysAreReleased
<1> DEFINE A == \A id \in Ids :
                  \/ submissions'[id] = submissions[id]
                  \/ /\ submissions'[id] = [submissions[id] EXCEPT !.key = NoKey]
                     /\ IsExpired(submissions[id].created)
<1>1. StoreInv /\ [Next]_vars => [A]_vars
    <2> SUFFICES ASSUME StoreInv, Next
                 PROVE  A
        OBVIOUS
    <2>1. CASE submissions' = submissions
        BY <2>1
    <2>2. ASSUME NEW c \in Callers, InsertRow(c)
          PROVE  A
        <3>1. submissions \in Seq(SubmissionRows)
            BY DEF StoreInv, StoreOK
        <3> QED BY <2>2, <3>1 DEF InsertRow, Ids
    <2>3. ASSUME NEW c \in Callers, ReleaseExpiredKey(c)
          PROVE  A
        BY <2>3, KeyIsReleased
    <2> QED
        BY <2>1, <2>2, <2>3
        DEF Next, Call, Leave, PersistStep, FindKey, InsertSubmission,
            InsertRefused, RefindKey, DatabaseFails, InsertedButUnavailable,
            Exhausted, vars, store
<1> QED BY <1>1, Invariant, PTL DEF Spec, OnlyExpiredKeysAreReleased

\* find, release, insert and find again, interleaved at will with those of
\* other callers, implement the store that decides each call at one instant.
THEOREM ImplementsPromise == Spec => ImplementsIdempotentStore
<1>1. Init => Promised!InitPromise
    BY BeginningIsPromised DEF Init
<1>2. StoreInv /\ [Next]_vars => [Promised!NextPromise]_(Promised!promise)
    <2> SUFFICES ASSUME StoreInv, [Next]_vars
                 PROVE  KeepsPromise
        BY DEF KeepsPromise
    <2>1. CASE UNCHANGED vars
        BY <2>1, RestIsPromised DEF KeepsPromise, vars, environment
    <2>2. CASE Exhausted
        BY <2>1, <2>2 DEF Exhausted
    <2>3. CASE Tick /\ UNCHANGED store
        BY <2>3, TickIsPromised DEF KeepsPromise
    <2>4. ASSUME NEW c \in Callers, Call(c)
          PROVE  KeepsPromise
        BY <2>4, StoreKeepsPromise DEF Call, NoFault, environment
    <2>5. ASSUME NEW c \in Callers, PersistStep(c)
          PROVE  KeepsPromise
        BY <2>5, PersistStepAdds, StoreKeepsPromise
    <2>6. ASSUME NEW c \in Callers, Leave(c)
          PROVE  KeepsPromise
        BY <2>6, StoreKeepsPromise
        DEF Leave, LeavePersist, NoFault, environment
    <2> QED BY <2>1, <2>2, <2>3, <2>4, <2>5, <2>6 DEF Next
<1> QED
    BY <1>1, <1>2, Invariant, PTL
    DEF Spec, ImplementsIdempotentStore, Promised!PromiseSpec

=============================================================================
