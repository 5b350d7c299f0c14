----------------------------- MODULE PartsProofs -----------------------------
(***************************************************************************)
(* Lemmas about the parts that several specifications are composed of: the *)
(* three tables and the workers.                                           *)
(*                                                                         *)
(* submissions: the steps of _persist_submission keep StoreInv, for any    *)
(* callers, keys, payloads, key lifetime and bounds.                       *)
(* OneRowPerKeyWithinTtl is not inductive: StoreInv adds that a row keeps  *)
(* the key it was born with until it has expired, that rows were created   *)
(* in the past, and that a caller about to release a row is right to do so *)
(* although it read that row in an earlier statement.  Each step, seen as  *)
(* IdempotentStore sees the table, is one of its steps or a stutter.       *)
(*                                                                         *)
(* task_statuses: what the indivisible writes of TaskLifecycle leave of a  *)
(* row, and that they keep their word about rows that are final.           *)
(*                                                                         *)
(* The workers: their steps keep WorkInv, for any workers, tasks, retry    *)
(* bound and failures.  NoAcceptedTaskLost is not inductive:               *)
(* NothingForgotten asks for a copy that nobody is about to acknowledge,   *)
(* and the rest of WorkInv says that every copy, every save under way and  *)
(* every row of a task belong to the message that was published for it.    *)
(* SubmissionIds bounds the ids TLC may meet; here the ids are unbounded.  *)
(*                                                                         *)
(* idempotency_claims: the steps of enqueue_submission_async keep          *)
(* ClaimsInv, and so does whoever else moves, as long as final statuses    *)
(* stay and the clock does not go back.  ClaimsInv adds to the properties  *)
(* of Claims what a request knows between two statements: that the claim   *)
(* it has read described a request of its key, and that the conclusion     *)
(* drawn from it still holds.                                              *)
(***************************************************************************)
EXTENDS AsyncWorker, Claims, SequenceTheorems, TLAPS

USE DEF AtStatement, GoTo, MaybeKeys

\* A call that has started carries the arguments of the call.
LEMMA StartedCalls ==
    ASSUME NEW call \in PersistCalls, call.step # "idle"
    PROVE  call \in ActiveCalls
    BY DEF PersistCalls, NotSaving

LEMMA StoreBegins == InitEnvironment /\ InitStore => StoreInv
    BY EnvironmentAssumption
    DEF InitEnvironment, InitStore, StoreInv, StoreOK, EnvironmentOK, Ids,
        PersistCalls, NotSaving, KeyLeavesOnlyWhenExpired, CreatedInThePast,
        ReleasesExpiredRow, OneRowPerKeyWithinTtl, SavedRowIsMine,
        MismatchIsReal, HolderIsLast, RefindsUsedKey

\* Steps that leave the table and the clock alone: it is enough that the
\* caller that moves keeps its promises.
LEMMA CallerMoves ==
    ASSUME StoreInv, NEW c \in Callers, NEW call \in PersistCalls,
           persist' = [persist EXCEPT ![c] = call],
           submissions' = submissions,
           now' = now, faults' \in 0 .. MaxFaults,
           call.step \in {"release", "saved"} => call.row \in Ids,
           call.step = "release" =>
               IsExpired(submissions[call.row].created),
           call.step = "saved" =>
               /\ submissions[call.row].born = call.key
               /\ submissions[call.row].payload = call.payload,
           call.step = "mismatch" =>
               /\ call.key # NoKey
               /\ \E id \in Ids : /\ submissions[id].born = call.key
                                  /\ submissions[id].payload # call.payload,
           call.step = "refind" =>
               /\ call.key # NoKey
               /\ \E id \in Ids : submissions[id].born = call.key
    PROVE  StoreInv'
<1>1. EnvironmentOK' /\ StoreOK'
    BY DEF StoreInv, StoreOK, EnvironmentOK, Ids
<1>2. KeyLeavesOnlyWhenExpired' /\ CreatedInThePast' /\ OneRowPerKeyWithinTtl'
    BY DEF StoreInv, KeyLeavesOnlyWhenExpired, CreatedInThePast, IsExpired,
           OneRowPerKeyWithinTtl, Ids
<1>3. ReleasesExpiredRow'
    BY DEF StoreInv, StoreOK, ReleasesExpiredRow, IsExpired
<1>4. SavedRowIsMine'
    BY DEF StoreInv, StoreOK, SavedRowIsMine
<1>5. MismatchIsReal'
    BY DEF StoreInv, StoreOK, MismatchIsReal, Ids
<1>6. HolderIsLast'
    BY DEF StoreInv, HolderIsLast, Ids
<1>7. RefindsUsedKey'
    BY DEF StoreInv, StoreOK, RefindsUsedKey, Ids
<1> QED BY <1>1, <1>2, <1>3, <1>4, <1>5, <1>6, <1>7 DEF StoreInv

\* The INSERT, whatever its caller learns of it: the key is in nobody's row,
\* so every earlier row born with it has lost it, and has expired.
LEMMA RowIsInserted ==
    ASSUME StoreInv, NEW c \in Callers, InsertRow(c), NEW call \in PersistCalls,
           persist' = [persist EXCEPT ![c] = call],
           now' = now, faults' \in 0 .. MaxFaults,
           \/ call.step = "unavailable"
           \/ /\ call.step = "saved"
              /\ call.row = Len(submissions) + 1
              /\ call.key = persist[c].key
              /\ call.payload = persist[c].payload
    PROVE  StoreInv'
<1> DEFINE n == Len(submissions)
<1>1. /\ persist[c] \in PersistCalls
      /\ submissions \in Seq(SubmissionRows)
      /\ now \in 0 .. MaxTime
    BY DEF StoreInv, StoreOK, EnvironmentOK
<1>. \A id \in Ids : submissions[id] \in SubmissionRows
    BY <1>1 DEF Ids
<1>2. NewRow(c) \in SubmissionRows
    BY <1>1, StartedCalls DEF NewRow, InsertRow, ActiveCalls, SubmissionRows
<1>3. /\ n \in Nat
      /\ Ids = 1 .. n
      /\ Ids' = 1 .. n + 1
      /\ submissions' \in Seq(SubmissionRows)
      /\ submissions'[n + 1] = NewRow(c)
      /\ \A id \in Ids : submissions'[id] = submissions[id]
    BY <1>1, <1>2 DEF InsertRow, Ids
<1>4. EnvironmentOK' /\ StoreOK'
    BY <1>3 DEF StoreInv, StoreOK, EnvironmentOK
<1>5. KeyLeavesOnlyWhenExpired' /\ CreatedInThePast'
    <2>1. KeyLeavesOnlyWhenExpired'
        BY <1>3 DEF StoreInv, KeyLeavesOnlyWhenExpired, IsExpired, NewRow
    <2>2. CreatedInThePast'
        BY <1>1, <1>3 DEF StoreInv, CreatedInThePast, NewRow
    <2> QED BY <2>1, <2>2
<1>6. ReleasesExpiredRow'
    BY <1>3 DEF StoreInv, StoreOK, ReleasesExpiredRow, IsExpired
<1>7. SavedRowIsMine'
    BY <1>3 DEF StoreInv, StoreOK, SavedRowIsMine, NewRow
<1>8. OneRowPerKeyWithinTtl'
    <2>1. ASSUME NEW i \in Ids, submissions[i].born = persist[c].key,
                 persist[c].key # NoKey
          PROVE  submissions[i].created + TTL <= now
        <3>1. submissions[i].key = NoKey
            BY <2>1 DEF StoreInv, KeyLeavesOnlyWhenExpired, InsertRow, HoldersOf
        <3>2. IsExpired(submissions[i].created)
            BY <2>1, <3>1 DEF StoreInv, KeyLeavesOnlyWhenExpired
        <3>3. submissions[i].created \in Nat
            BY DEF SubmissionRows
        <3> QED BY <1>1, <3>2, <3>3, EnvironmentAssumption DEF IsExpired
    <2> SUFFICES ASSUME NEW i \in Ids', NEW j \in Ids', i < j,
                        submissions'[i].born = submissions'[j].born,
                        submissions'[i].born # NoKey
                 PROVE  submissions'[i].created + TTL
                            <= submissions'[j].created
        BY DEF OneRowPerKeyWithinTtl
    <2>2. i \in Ids
        BY <1>3
    <2>3. CASE j \in Ids
        BY <1>3, <2>2, <2>3 DEF StoreInv, OneRowPerKeyWithinTtl
    <2>4. CASE j = n + 1
        BY <1>3, <2>1, <2>2, <2>4 DEF NewRow
    <2> QED BY <1>3, <2>3, <2>4
<1>9. MismatchIsReal'
    <2> SUFFICES ASSUME NEW b \in Callers, persist'[b].step = "mismatch"
                 PROVE  /\ persist'[b].key # NoKey
                        /\ \E id \in Ids' :
                              /\ submissions'[id].born = persist'[b].key
                              /\ submissions'[id].payload # persist'[b].payload
        BY DEF MismatchIsReal
    <2>1. persist'[b] = persist[b]
        BY DEF StoreInv, StoreOK
    <2>2. /\ persist[b].key # NoKey
          /\ \E id \in Ids : /\ submissions[id].born = persist[b].key
                             /\ submissions[id].payload # persist[b].payload
        BY <2>1 DEF StoreInv, MismatchIsReal
    <2> QED BY <1>3, <2>1, <2>2
<1>10. HolderIsLast'
    <2> SUFFICES ASSUME NEW i \in Ids', NEW j \in Ids', i < j,
                        submissions'[i].born = submissions'[j].born,
                        submissions'[i].born # NoKey
                 PROVE  submissions'[i].key = NoKey
        BY DEF HolderIsLast
    <2>1. i \in Ids
        BY <1>3
    <2>2. CASE j \in Ids
        BY <1>3, <2>1, <2>2 DEF StoreInv, HolderIsLast
    <2>3. CASE j = n + 1
        BY <1>3, <2>1, <2>3
        DEF StoreInv, KeyLeavesOnlyWhenExpired, InsertRow, HoldersOf, NewRow
    <2> QED BY <1>3, <2>2, <2>3
<1>11. RefindsUsedKey'
    <2> SUFFICES ASSUME NEW b \in Callers, persist'[b].step = "refind"
                 PROVE  /\ persist'[b].key # NoKey
                        /\ \E id \in Ids' :
                              submissions'[id].born = persist'[b].key
        BY DEF RefindsUsedKey
    <2>1. persist'[b] = persist[b]
        BY DEF StoreInv, StoreOK
    <2>2. /\ persist[b].key # NoKey
          /\ \E id \in Ids : submissions[id].born = persist[b].key
        BY <2>1 DEF StoreInv, RefindsUsedKey
    <2> QED BY <1>3, <2>1, <2>2
<1> QED
    BY <1>4, <1>5, <1>6, <1>7, <1>8, <1>9, <1>10, <1>11 DEF StoreInv

\* The release of a row: it had expired when it was read, so it still has.
LEMMA KeyIsReleased ==
    ASSUME StoreInv, NEW c \in Callers, ReleaseExpiredKey(c)
    PROVE  /\ StoreInv'
           /\ \A id \in Ids :
                 \/ submissions'[id] = submissions[id]
                 \/ /\ submissions'[id] = [submissions[id] EXCEPT !.key = NoKey]
                    /\ IsExpired(submissions[id].created)
<1>1. /\ persist[c] \in PersistCalls
      /\ persist[c].row \in Ids
      /\ submissions \in Seq(SubmissionRows)
      /\ IsExpired(submissions[persist[c].row].created)
    BY DEF StoreInv, StoreOK, ReleasesExpiredRow, ReleaseExpiredKey
<1>2. [persist[c] EXCEPT !.step = "insert"] \in PersistCalls
    BY <1>1, StartedCalls
    DEF ReleaseExpiredKey, ActiveCalls, PersistCalls
<1>3. /\ submissions' \in Seq(SubmissionRows)
      /\ Ids' = Ids
      /\ \A id \in Ids :
            /\ submissions'[id] \in SubmissionRows
            /\ submissions'[id].born = submissions[id].born
            /\ submissions'[id].payload = submissions[id].payload
            /\ submissions'[id].created = submissions[id].created
            /\ \/ submissions'[id] = submissions[id]
               \/ /\ submissions'[id] = [submissions[id] EXCEPT !.key = NoKey]
                  /\ IsExpired(submissions[id].created)
    <2>1. /\ Len(submissions) \in Nat
          /\ Ids = 1 .. Len(submissions)
          /\ \A id \in Ids : submissions[id] \in SubmissionRows
        BY <1>1 DEF Ids
    <2>2. \A id \in Ids :
             [submissions[id] EXCEPT !.key = NoKey] \in SubmissionRows
        BY <2>1 DEF SubmissionRows
    <2>3. \A id \in Ids : submissions'[id] \in SubmissionRows
        BY <2>1, <2>2 DEF ReleaseExpiredKey
    <2>4. submissions' \in Seq(SubmissionRows) /\ Ids' = Ids
        BY <2>1, <2>3 DEF ReleaseExpiredKey, Ids
    <2>5. ASSUME NEW id \in Ids
          PROVE  \/ submissions'[id] = submissions[id]
                 \/ /\ submissions'[id] = [submissions[id] EXCEPT !.key = NoKey]
                    /\ IsExpired(submissions[id].created)
        BY <1>1 DEF ReleaseExpiredKey, Releasable
    <2>6. ASSUME NEW id \in Ids
          PROVE  /\ submissions'[id].born = submissions[id].born
                 /\ submissions'[id].payload = submissions[id].payload
                 /\ submissions'[id].created = submissions[id].created
        BY <2>1, <2>5 DEF SubmissionRows
    <2> QED BY <2>3, <2>4, <2>5, <2>6
<1>4. now' = now /\ faults' = faults
    BY DEF ReleaseExpiredKey, NoFault, environment
<1>5. EnvironmentOK' /\ StoreOK'
    BY <1>2, <1>3, <1>4
    DEF StoreInv, StoreOK, EnvironmentOK, ReleaseExpiredKey
<1>6. KeyLeavesOnlyWhenExpired' /\ CreatedInThePast' /\ OneRowPerKeyWithinTtl'
    <2>1. ASSUME NEW id \in Ids
          PROVE  \/ submissions'[id].key = submissions[id].key
                 \/ /\ submissions'[id].key = NoKey
                    /\ IsExpired(submissions[id].created)
        BY <1>1, <1>3 DEF SubmissionRows
    <2>2. KeyLeavesOnlyWhenExpired'
        BY <1>3, <1>4, <2>1 DEF StoreInv, KeyLeavesOnlyWhenExpired, IsExpired
    <2>3. CreatedInThePast'
        BY <1>3, <1>4 DEF StoreInv, CreatedInThePast
    <2>4. OneRowPerKeyWithinTtl'
        <3>1. \A id \in Ids : /\ submissions'[id].born = submissions[id].born
                              /\ submissions'[id].created
                                     = submissions[id].created
            BY <1>3
        <3>2. Ids' = Ids
            BY <1>3
        <3> QED BY <3>1, <3>2 DEF StoreInv, OneRowPerKeyWithinTtl
    <2> QED BY <2>2, <2>3, <2>4
<1>7. ReleasesExpiredRow' /\ SavedRowIsMine'
    BY <1>1, <1>3, <1>4
    DEF StoreInv, StoreOK, ReleasesExpiredRow, SavedRowIsMine, IsExpired,
        ReleaseExpiredKey
<1>8. MismatchIsReal'
    <2>1. \A id \in Ids : /\ submissions'[id].born = submissions[id].born
                          /\ submissions'[id].payload = submissions[id].payload
        BY <1>3
    <2>2. Ids' = Ids
        BY <1>3
    <2> QED
        BY <2>1, <2>2
        DEF StoreInv, StoreOK, MismatchIsReal, ReleaseExpiredKey
<1>9. HolderIsLast' /\ RefindsUsedKey'
    <2>1. \A id \in Ids : /\ submissions'[id].born = submissions[id].born
                          /\ \/ submissions'[id].key = submissions[id].key
                             \/ submissions'[id].key = NoKey
        BY <1>1, <1>3 DEF SubmissionRows
    <2>2. Ids' = Ids
        BY <1>3
    <2>3. HolderIsLast'
        BY <2>1, <2>2 DEF StoreInv, HolderIsLast
    <2>4. RefindsUsedKey'
        BY <2>1, <2>2
        DEF StoreInv, StoreOK, RefindsUsedKey, ReleaseExpiredKey
    <2> QED BY <2>3, <2>4
<1> QED BY <1>3, <1>5, <1>6, <1>7, <1>8, <1>9 DEF StoreInv

-----------------------------------------------------------------------------
\* What a caller makes of a row that holds its key.
LEMMA AnswerKeepsStore ==
    ASSUME StoreInv, NEW c \in Callers, NEW id \in HoldersOf(persist[c].key),
           persist[c].step \in {"find", "refind"}, AnswerFrom(c, id),
           submissions' = submissions, NoFault
    PROVE  StoreInv'
<1>1. /\ persist[c] \in ActiveCalls
      /\ id \in Ids
      /\ id \in Nat
      /\ submissions \in Seq(SubmissionRows)
      /\ Ids = 1 .. Len(submissions)
      /\ faults \in 0 .. MaxFaults
    BY StartedCalls DEF StoreInv, StoreOK, HoldersOf, Ids, EnvironmentOK
<1>2. persist[c].key # NoKey /\ submissions[id].born = persist[c].key
    BY <1>1, RequestDataAssumption
    DEF StoreInv, HoldersOf, KeyLeavesOnlyWhenExpired
<1>3. CASE PayloadMatches(id, persist[c].payload)
    <2> DEFINE call == [persist[c] EXCEPT !.step = "saved", !.row = id]
    <2>1. /\ call \in PersistCalls
          /\ call.step = "saved"
          /\ call.row = id
          /\ call.key = persist[c].key
          /\ call.payload = persist[c].payload
        BY <1>1 DEF ActiveCalls, PersistCalls, Outcomes
    <2>2. persist' = [persist EXCEPT ![c] = call]
        BY <1>3 DEF AnswerFrom
    <2> HIDE DEF call
    <2> QED
        BY <1>1, <1>2, <1>3, <2>1, <2>2, CallerMoves
        DEF PayloadMatches, NoFault, environment
<1>4. CASE ~PayloadMatches(id, persist[c].payload)
    <2> DEFINE call == [persist[c] EXCEPT !.step = "mismatch"]
    <2>1. /\ call \in PersistCalls
          /\ call.step = "mismatch"
          /\ call.key = persist[c].key
          /\ call.payload = persist[c].payload
        BY <1>1 DEF ActiveCalls, PersistCalls, Outcomes
    <2>2. persist' = [persist EXCEPT ![c] = call]
        BY <1>4 DEF AnswerFrom
    <2> HIDE DEF call
    <2> QED
        BY <1>1, <1>2, <1>4, <2>1, <2>2, CallerMoves
        DEF PayloadMatches, NoFault, environment
<1> QED BY <1>3, <1>4

\* The other statements that move the caller only.
LEMMA GoToKeepsStore ==
    ASSUME StoreInv, NEW c \in Callers, StatementLeft(c),
           NEW step \in {"insert", "refind", "integrity", "unavailable"},
           step = "refind" => HoldersOf(persist[c].key) # {},
           GoTo(c, step), submissions' = submissions, now' = now,
           faults' \in 0 .. MaxFaults
    PROVE  StoreInv'
<1> DEFINE call == [persist[c] EXCEPT !.step = step]
<1>1. persist[c] \in PersistCalls
    BY DEF StoreInv, StoreOK
<1>2. call \in PersistCalls /\ call.step = step /\ call.key = persist[c].key
    BY <1>1, StartedCalls
    DEF StatementLeft, ActiveCalls, PersistCalls, Outcomes
<1>3. persist' = [persist EXCEPT ![c] = call]
    BY DEF GoTo
<1> HIDE DEF call
<1>4. HoldersOf(persist[c].key) # {} =>
         /\ persist[c].key # NoKey
         /\ \E id \in Ids : submissions[id].born = persist[c].key
    BY DEF HoldersOf, StoreInv, KeyLeavesOnlyWhenExpired
<1> DEFINE used == /\ call.key # NoKey
                   /\ \E id \in Ids : submissions[id].born = call.key
<1>5. step = "refind" => used
    BY <1>2, <1>4
<1> QED BY <1>2, <1>3, <1>5, CallerMoves

LEMMA PersistStepKeepsStore ==
    ASSUME StoreInv, NEW c \in Callers, PersistStep(c)
    PROVE  StoreInv'
<1>1. /\ persist[c] \in PersistCalls
      /\ submissions \in Seq(SubmissionRows)
      /\ Len(submissions) \in Nat
      /\ Ids = 1 .. Len(submissions)
      /\ faults \in 0 .. MaxFaults
    BY DEF StoreInv, StoreOK, EnvironmentOK, Ids
<1>2. CASE FindKey(c)
    <2>1. CASE GoTo(c, "insert")
        BY <1>1, <1>2, <2>1, GoToKeepsStore
        DEF FindKey, StatementLeft, NoFault, environment
    <2>2. ASSUME NEW id \in HoldersOf(persist[c].key),
                 IsExpired(submissions[id].created),
                 persist' = [persist EXCEPT ![c].step = "release",
                                            ![c].row = id]
          PROVE  StoreInv'
        <3> DEFINE call == [persist[c] EXCEPT !.step = "release", !.row = id]
        <3>. /\ persist[c] \in ActiveCalls
             /\ id \in Ids
             /\ id \in Nat
            BY <1>1, <1>2, StartedCalls DEF FindKey, HoldersOf
        <3>1. /\ call \in PersistCalls
              /\ call.step = "release"
              /\ call.row = id
            BY DEF ActiveCalls, PersistCalls
        <3>2. persist' = [persist EXCEPT ![c] = call]
            BY <2>2
        <3> HIDE DEF call
        <3> QED
            BY <1>1, <1>2, <2>2, <3>1, <3>2, CallerMoves
            DEF FindKey, NoFault, environment
    <2>3. ASSUME NEW id \in HoldersOf(persist[c].key), AnswerFrom(c, id)
          PROVE  StoreInv'
        BY <1>2, <2>3, AnswerKeepsStore DEF FindKey
    <2> QED BY <1>2, <2>1, <2>2, <2>3 DEF FindKey
<1>3. CASE ReleaseExpiredKey(c)
    BY <1>3, KeyIsReleased
<1>4. CASE InsertSubmission(c)
    <2> DEFINE call == [persist[c] EXCEPT !.step = "saved",
                                          !.row = Len(submissions) + 1]
    <2>1. /\ call \in PersistCalls
          /\ call.step = "saved"
          /\ call.row = Len(submissions) + 1
          /\ call.key = persist[c].key
          /\ call.payload = persist[c].payload
        <3>1. persist[c] \in ActiveCalls
            BY <1>1, <1>4, StartedCalls DEF InsertSubmission, InsertRow
        <3>2. Len(submissions) + 1 \in Nat
            BY <1>1
        <3> QED BY <3>1, <3>2 DEF ActiveCalls, PersistCalls, Outcomes
    <2>2. persist' = [persist EXCEPT ![c] = call]
        BY <1>4 DEF InsertSubmission
    <2> HIDE DEF call
    <2> QED
        BY <1>1, <1>4, <2>1, <2>2, RowIsInserted
        DEF InsertSubmission, NoFault, environment
<1>5. CASE InsertRefused(c)
    BY <1>1, <1>5, GoToKeepsStore
    DEF InsertRefused, StatementLeft, NoFault, environment
<1>6. CASE RefindKey(c)
    BY <1>1, <1>6, GoToKeepsStore, AnswerKeepsStore
    DEF RefindKey, StatementLeft, NoFault, environment
<1>7. CASE DatabaseFails(c)
    <2>1. now' = now /\ faults' \in 0 .. MaxFaults
        BY <1>1, <1>7, EnvironmentAssumption DEF DatabaseFails, Fault
    <2> QED BY <1>7, <2>1, GoToKeepsStore DEF DatabaseFails
<1>8. CASE InsertedButUnavailable(c)
    <2> DEFINE call == [persist[c] EXCEPT !.step = "unavailable"]
    <2>1. call \in PersistCalls /\ call.step = "unavailable"
        BY <1>1, <1>8, StartedCalls
        DEF InsertedButUnavailable, InsertRow, ActiveCalls, PersistCalls,
            Outcomes
    <2>2. persist' = [persist EXCEPT ![c] = call]
        BY <1>8 DEF InsertedButUnavailable
    <2> HIDE DEF call
    <2>3. now' = now /\ faults' \in 0 .. MaxFaults
        BY <1>1, <1>8, EnvironmentAssumption
        DEF InsertedButUnavailable, Fault
    <2> QED
        BY <1>8, <2>1, <2>2, <2>3, RowIsInserted DEF InsertedButUnavailable
<1> QED
    BY <1>2, <1>3, <1>4, <1>5, <1>6, <1>7, <1>8 DEF PersistStep

\* Time passes: what has expired stays expired.
LEMMA TickKeepsStore ==
    ASSUME StoreInv, Tick, UNCHANGED store
    PROVE  StoreInv'
<1>1. /\ now \in 0 .. MaxTime
      /\ submissions \in Seq(SubmissionRows)
      /\ \A id \in Ids : submissions[id] \in SubmissionRows
    BY DEF StoreInv, StoreOK, EnvironmentOK, Ids
<1>2. now' = now + 1 /\ submissions' = submissions /\ persist' = persist
    BY DEF Tick, store
<1>3. ASSUME NEW id \in Ids
      PROVE  /\ IsExpired(submissions[id].created) =>
                     IsExpired(submissions[id].created)'
             /\ submissions[id].created <= now =>
                     submissions[id].created <= now + 1
    BY <1>1, <1>2, EnvironmentAssumption DEF IsExpired, SubmissionRows
<1>4. EnvironmentOK' /\ StoreOK'
    BY <1>1, <1>2, EnvironmentAssumption
    DEF StoreInv, StoreOK, EnvironmentOK, Tick, Ids
<1>5. KeyLeavesOnlyWhenExpired' /\ CreatedInThePast' /\ ReleasesExpiredRow'
    BY <1>2, <1>3
    DEF StoreInv, StoreOK, KeyLeavesOnlyWhenExpired, CreatedInThePast,
        ReleasesExpiredRow, Ids
<1>6. OneRowPerKeyWithinTtl' /\ SavedRowIsMine' /\ MismatchIsReal'
    BY <1>2
    DEF StoreInv, OneRowPerKeyWithinTtl, SavedRowIsMine, MismatchIsReal, Ids
<1>7. HolderIsLast' /\ RefindsUsedKey'
    BY <1>2 DEF StoreInv, HolderIsLast, RefindsUsedKey, Ids
<1> QED BY <1>4, <1>5, <1>6, <1>7 DEF StoreInv

LEMMA StartKeepsStore ==
    ASSUME StoreInv, NEW c \in Callers, NEW key \in MaybeKeys,
           NEW payload \in Payloads, NEW o \in Origins,
           StartPersist(c, key, payload, o), submissions' = submissions,
           now' = now, faults' \in 0 .. MaxFaults
    PROVE  StoreInv'
<1> DEFINE call == [step |-> IF key = NoKey THEN "insert" ELSE "find",
                    key |-> key, payload |-> payload, origin |-> o, row |-> 0]
<1>1. call \in PersistCalls /\ call.step \in {"insert", "find"}
    BY DEF ActiveCalls, PersistCalls
<1>2. persist' = [persist EXCEPT ![c] = call]
    BY DEF StartPersist
<1> HIDE DEF call
<1> QED BY <1>1, <1>2, CallerMoves

LEMMA LeaveKeepsStore ==
    ASSUME StoreInv, NEW c \in Callers,
           persist' = [persist EXCEPT ![c] = NotSaving],
           submissions' = submissions,
           now' = now, faults' \in 0 .. MaxFaults
    PROVE  StoreInv'
<1>1. NotSaving \in PersistCalls /\ NotSaving.step = "idle"
    BY DEF PersistCalls, NotSaving
<1> QED BY <1>1, CallerMoves

\* Nobody moves.
LEMMA StoreRests ==
    ASSUME StoreInv, UNCHANGED store, now' = now, faults' \in 0 .. MaxFaults
    PROVE  StoreInv'
    BY DEF store, StoreInv, StoreOK, EnvironmentOK, KeyLeavesOnlyWhenExpired,
           CreatedInThePast, ReleasesExpiredRow, OneRowPerKeyWithinTtl,
           SavedRowIsMine, MismatchIsReal, HolderIsLast, RefindsUsedKey,
           IsExpired, Ids

\* What a step leaves of the rows and calls of others, and what it adds: the
\* row its caller was called to save.
LEMMA PersistStepAdds ==
    ASSUME StoreInv, NEW c \in Callers, PersistStep(c)
    PROVE  /\ \A id \in Ids :
                 /\ id \in Ids'
                 /\ submissions'[id].born = submissions[id].born
                 /\ submissions'[id].payload = submissions[id].payload
                 /\ submissions'[id].origin = submissions[id].origin
           /\ \A id \in Ids' \ Ids :
                 /\ submissions'[id].born = persist[c].key
                 /\ submissions'[id].payload = persist[c].payload
                 /\ submissions'[id].origin = persist[c].origin
           /\ \A d \in Callers \ {c} : persist'[d] = persist[d]
           /\ persist[c] \in ActiveCalls
           /\ persist'[c].step # "idle"
           /\ persist'[c].key = persist[c].key
           /\ persist'[c].payload = persist[c].payload
           /\ persist'[c].origin = persist[c].origin
           /\ now' = now /\ faults' \in 0 .. MaxFaults
<1>1. /\ persist \in [Callers -> PersistCalls]
      /\ submissions \in Seq(SubmissionRows)
      /\ Len(submissions) \in Nat
      /\ Ids = 1 .. Len(submissions)
      /\ now \in 0 .. MaxTime
      /\ faults \in 0 .. MaxFaults
    BY DEF StoreInv, StoreOK, EnvironmentOK, Ids
<1>2. persist[c].step # "idle"
    BY DEF PersistStep, FindKey, ReleaseExpiredKey, InsertSubmission,
           InsertRefused, RefindKey, DatabaseFails, InsertedButUnavailable,
           InsertRow, StatementLeft
<1>3. persist[c] \in ActiveCalls
    BY <1>1, <1>2, StartedCalls
<1>4. now' = now /\ faults' \in 0 .. MaxFaults
    BY <1>1, EnvironmentAssumption
    DEF PersistStep, FindKey, ReleaseExpiredKey, InsertSubmission,
        InsertRefused, RefindKey, DatabaseFails, InsertedButUnavailable,
        Fault, NoFault, environment
<1>5. \/ \E step \in {"insert", "refind", "mismatch", "integrity",
                      "unavailable"} : GoTo(c, step)
      \/ \E step \in {"saved", "release"} : \E row :
            persist' = [persist EXCEPT ![c].step = step, ![c].row = row]
    BY DEF PersistStep, FindKey, ReleaseExpiredKey, InsertSubmission,
           InsertRefused, RefindKey, DatabaseFails, InsertedButUnavailable,
           AnswerFrom
<1>6. /\ \A d \in Callers \ {c} : persist'[d] = persist[d]
      /\ persist'[c].step # "idle"
      /\ persist'[c].key = persist[c].key
      /\ persist'[c].payload = persist[c].payload
      /\ persist'[c].origin = persist[c].origin
    BY <1>1, <1>3, <1>5 DEF ActiveCalls
<1>7. \/ submissions' = submissions
      \/ ReleaseExpiredKey(c)
      \/ InsertRow(c)
    BY DEF PersistStep, FindKey, InsertSubmission, InsertRefused, RefindKey,
           DatabaseFails, InsertedButUnavailable
<1>8. CASE submissions' = submissions
    BY <1>3, <1>4, <1>6, <1>8 DEF Ids
<1>9. CASE ReleaseExpiredKey(c)
    <2>1. Ids' = Ids
        BY <1>1, <1>9 DEF ReleaseExpiredKey, Ids
    <2>2. ASSUME NEW id \in Ids
          PROVE  /\ submissions'[id].born = submissions[id].born
                 /\ submissions'[id].payload = submissions[id].payload
                 /\ submissions'[id].origin = submissions[id].origin
        <3>1. submissions[id] \in SubmissionRows
            BY <1>1
        <3> QED BY <1>9, <3>1 DEF ReleaseExpiredKey, SubmissionRows
    <2> QED BY <1>3, <1>4, <1>6, <2>1, <2>2
<1>10. CASE InsertRow(c)
    <2>1. /\ Ids' = Ids \cup {Len(submissions) + 1}
          /\ submissions'[Len(submissions) + 1] = NewRow(c)
          /\ \A id \in Ids : submissions'[id] = submissions[id]
        BY <1>1, <1>10 DEF InsertRow, Ids
    <2> QED BY <1>3, <1>4, <1>6, <2>1 DEF NewRow
<1> QED BY <1>7, <1>8, <1>9, <1>10

-----------------------------------------------------------------------------
\* The table implements IdempotentStore.  Where a call is decided, the row
\* that holds its key is the last that was saved under it, and a key that no
\* row holds is free.

SavedRowSet == [key : MaybeKeys, payload : Payloads, created : 0 .. MaxTime,
                origin : Origins]

LEMMA SavedRowIs ==
    ASSUME NEW row \in SubmissionRows
    PROVE  SavedRow(row) \in SavedRowSet
    BY DEF SubmissionRows, SavedRow, SavedRowSet

LEMMA SavedRowsAre ==
    ASSUME StoreInv
    PROVE  /\ SavedRows \in Seq(SavedRowSet)
           /\ DOMAIN SavedRows = Ids
           /\ Len(SavedRows) = Len(submissions)
           /\ Ids = 1 .. Len(submissions)
           /\ Len(submissions) \in Nat
           /\ \A id \in Ids : /\ SavedRows[id] = SavedRow(submissions[id])
                              /\ SavedRows[id].key = submissions[id].born
                              /\ SavedRows[id].payload = submissions[id].payload
                              /\ SavedRows[id].created = submissions[id].created
<1>1. /\ submissions \in Seq(SubmissionRows)
      /\ Len(submissions) \in Nat
      /\ Ids = 1 .. Len(submissions)
      /\ \A id \in Ids : submissions[id] \in SubmissionRows
    BY DEF StoreInv, StoreOK, Ids
<1>2. SavedRows \in [1 .. Len(submissions) -> SavedRowSet]
    BY <1>1, SavedRowIs DEF SavedRows
<1>3. SavedRows \in Seq(SavedRowSet)
    BY <1>1, <1>2
<1>4. \A id \in Ids : SavedRows[id] = SavedRow(submissions[id])
    BY DEF SavedRows
<1>5. DOMAIN SavedRows = Ids /\ Len(SavedRows) = Len(submissions)
    BY <1>1, <1>2, <1>3
<1> QED BY <1>1, <1>3, <1>4, <1>5 DEF SavedRow

\* The abstract state of the caller that moves.
LEMMA CallsBecome ==
    ASSUME persist \in [Callers -> PersistCalls], NEW c \in Callers, NEW call,
           persist' = [persist EXCEPT ![c] = call]
    PROVE  Calls' = [Calls EXCEPT ![c] = CallOf(call)]
    BY DEF Calls

\* A caller with statements left has asked.
LEMMA CallerAsked ==
    ASSUME StoreInv, NEW c \in Callers, StatementLeft(c)
    PROVE  /\ persist \in [Callers -> PersistCalls]
           /\ persist[c] \in ActiveCalls
           /\ Calls[c] = [step |-> "asked", key |-> persist[c].key,
                          payload |-> persist[c].payload,
                          origin |-> persist[c].origin]
<1>1. persist \in [Callers -> PersistCalls] /\ persist[c] \in ActiveCalls
    BY StartedCalls DEF StoreInv, StoreOK, StatementLeft
<1>2. CallOf(persist[c]) = [step |-> "asked", key |-> persist[c].key,
                            payload |-> persist[c].payload,
                            origin |-> persist[c].origin]
    BY DEF CallOf, Outcomes, StatementLeft
<1> QED BY <1>1, <1>2 DEF Calls

\* A row that holds a key is the last that was saved under it.
LEMMA HolderDecides ==
    ASSUME StoreInv, NEW key \in MaybeKeys, NEW id \in HoldersOf(key)
    PROVE  id \in Promised!LastUnder(key)
<1>1. id \in Ids /\ key # NoKey /\ submissions[id].key = key
    BY DEF HoldersOf
<1>2. submissions[id].born = key
    BY <1>1 DEF StoreInv, KeyLeavesOnlyWhenExpired
<1>3. \A other \in Ids : submissions[other].born = key => other <= id
    BY <1>1, <1>2, SavedRowsAre DEF StoreInv, HolderIsLast
<1> QED
    BY <1>1, <1>2, <1>3, SavedRowsAre
    DEF Promised!LastUnder, Promised!Under

\* A key that no row holds was saved under at least a lifetime ago, if ever.
LEMMA KeyIsFree ==
    ASSUME StoreInv, NEW key \in MaybeKeys, HoldersOf(key) = {}
    PROVE  Promised!IsFree(key)
<1> SUFFICES ASSUME NEW id \in Ids, key # NoKey, submissions[id].born = key
             PROVE  submissions[id].created + TTL <= now
    BY SavedRowsAre DEF Promised!IsFree, Promised!Under
<1>1. submissions[id].key # key
    BY DEF HoldersOf
<1>2. IsExpired(submissions[id].created)
    BY <1>1 DEF StoreInv, KeyLeavesOnlyWhenExpired
<1>3. submissions \in Seq(SubmissionRows) /\ now \in 0 .. MaxTime
    BY DEF StoreInv, StoreOK, EnvironmentOK
<1>4. submissions[id] \in SubmissionRows
    BY <1>3 DEF Ids
<1> QED
    BY <1>2, <1>3, <1>4, EnvironmentAssumption DEF IsExpired, SubmissionRows

\* The INSERT, whatever its caller learns of it.
LEMMA InsertSaves ==
    ASSUME StoreInv, NEW c \in Callers, InsertRow(c), now' = now, NEW call,
           persist' = [persist EXCEPT ![c] = call],
           \/ call.step = "unavailable"
           \/ call.step = "saved" /\ call.row = Len(submissions) + 1
    PROVE  Promised!Saves(c)
<1>1. /\ persist \in [Callers -> PersistCalls]
      /\ persist[c] \in ActiveCalls
      /\ Calls[c] = [step |-> "asked", key |-> persist[c].key,
                     payload |-> persist[c].payload,
                     origin |-> persist[c].origin]
    BY CallerAsked DEF InsertRow, StatementLeft
<1>2. Calls[c].step = "asked" /\ Promised!IsFree(Calls[c].key)
    BY <1>1, KeyIsFree DEF InsertRow, ActiveCalls
<1>3. \/ CallOf(call) = [step |-> "saved", row |-> Len(submissions) + 1]
      \/ CallOf(call) = Promised!Unavailable
    BY DEF CallOf, Outcomes, Promised!Unavailable
<1>4. Calls' = [Calls EXCEPT ![c] = CallOf(call)]
    BY <1>1, CallsBecome
<1>5. \/ Promised!IsTold(c, [step |-> "saved", row |-> Len(SavedRows) + 1])
      \/ Promised!IsTold(c, Promised!Unavailable)
    BY <1>3, <1>4, SavedRowsAre DEF Promised!IsTold
<1> DEFINE n == Len(submissions)
           row == SavedRow(NewRow(c))
<1>6. SavedRows' = Append(SavedRows, row)
    <2>1. /\ submissions \in Seq(SubmissionRows)
          /\ n \in Nat
          /\ Ids = 1 .. n
          /\ Len(SavedRows) = n
          /\ SavedRows \in Seq(SavedRowSet)
          /\ NewRow(c) \in SubmissionRows
        BY <1>1, SavedRowsAre
        DEF StoreInv, StoreOK, EnvironmentOK, NewRow, ActiveCalls,
            SubmissionRows
    <2>2. /\ Ids' = 1 .. n + 1
          /\ submissions'[n + 1] = NewRow(c)
          /\ \A id \in 1 .. n : submissions'[id] = submissions[id]
        BY <2>1 DEF InsertRow, Ids
    <2>3. row \in SavedRowSet
        BY <2>1, SavedRowIs
    <2>4. /\ SavedRows' = [id \in 1 .. n + 1 |-> SavedRow(submissions'[id])]
          /\ SavedRows = [id \in 1 .. n |-> SavedRow(submissions[id])]
        BY <2>1, <2>2 DEF SavedRows
    <2> HIDE DEF row, n
    <2>5. /\ SavedRows'[n + 1] = row
          /\ \A id \in 1 .. n : SavedRows'[id] = SavedRows[id]
        BY <2>1, <2>2, <2>4 DEF row
    <2>6. SavedRows' \in [1 .. n + 1 -> SavedRowSet]
        <3>1. \A id \in 1 .. n : SavedRows[id] \in SavedRowSet
            BY <2>1
        <3>2. \A id \in 1 .. n + 1 : SavedRows'[id] \in SavedRowSet
            BY <2>1, <2>3, <2>5, <3>1
        <3> QED BY <2>4, <3>2
    <2>7. SavedRows' \in Seq(SavedRowSet) /\ Len(SavedRows') = n + 1
        BY <2>1, <2>6
    <2>8. /\ Append(SavedRows, row) \in Seq(SavedRowSet)
          /\ Len(Append(SavedRows, row)) = n + 1
          /\ Append(SavedRows, row)[n + 1] = row
          /\ \A id \in 1 .. n : Append(SavedRows, row)[id] = SavedRows[id]
        BY <2>1, <2>3, AppendProperties
    <2>9. \A id \in 1 .. n + 1 : SavedRows'[id] = Append(SavedRows, row)[id]
        BY <2>1, <2>5, <2>8
    <2> QED BY <2>7, <2>8, <2>9, SeqEqual
<1>7. row = [key |-> Calls[c].key, payload |-> Calls[c].payload,
             created |-> now, origin |-> Calls[c].origin]
    BY <1>1 DEF SavedRow, NewRow
<1> HIDE DEF row
<1> QED BY <1>2, <1>5, <1>6, <1>7 DEF Promised!Saves

\* A row that holds the key answers for it.
LEMMA AnswerRepeats ==
    ASSUME StoreInv, NEW c \in Callers, NEW id \in HoldersOf(persist[c].key),
           persist[c].step \in {"find", "refind"}, AnswerFrom(c, id),
           submissions' = submissions, now' = now
    PROVE  Promised!Repeats(c)
<1>1. /\ persist \in [Callers -> PersistCalls]
      /\ persist[c] \in ActiveCalls
      /\ Calls[c] = [step |-> "asked", key |-> persist[c].key,
                     payload |-> persist[c].payload,
                     origin |-> persist[c].origin]
    BY CallerAsked DEF StatementLeft
<1>2. Calls[c].step = "asked" /\ id \in Promised!LastUnder(Calls[c].key)
    BY <1>1, HolderDecides DEF ActiveCalls
<1>3. SavedRows[id].payload = Calls[c].payload
          <=> PayloadMatches(id, persist[c].payload)
    BY <1>1, SavedRowsAre DEF HoldersOf, PayloadMatches
<1>4. SavedRows' = SavedRows
    BY DEF SavedRows, Ids
<1>5. CASE PayloadMatches(id, persist[c].payload)
    <2> DEFINE told == [persist[c] EXCEPT !.step = "saved", !.row = id]
    <2>1. persist' = [persist EXCEPT ![c] = told]
        BY <1>5 DEF AnswerFrom
    <2>2. told.step = "saved" /\ told.row = id
        BY <1>1 DEF ActiveCalls
    <2> HIDE DEF told
    <2>3. CallOf(told) = [step |-> "saved", row |-> id]
        BY <2>2 DEF CallOf
    <2>4. Promised!IsTold(c, [step |-> "saved", row |-> id])
        BY <1>1, <2>1, <2>3, CallsBecome DEF Promised!IsTold
    <2> QED BY <1>2, <1>3, <1>4, <1>5, <2>4 DEF Promised!Repeats
<1>6. CASE ~PayloadMatches(id, persist[c].payload)
    <2> DEFINE told == [persist[c] EXCEPT !.step = "mismatch"]
    <2>1. persist' = [persist EXCEPT ![c] = told]
        BY <1>6 DEF AnswerFrom
    <2>2. told.step = "mismatch"
        BY <1>1 DEF ActiveCalls
    <2> HIDE DEF told
    <2>3. CallOf(told) = [step |-> "mismatch"]
        BY <2>2 DEF CallOf, Outcomes
    <2>4. Promised!IsTold(c, [step |-> "mismatch"])
        BY <1>1, <2>1, <2>3, CallsBecome DEF Promised!IsTold
    <2> QED BY <1>2, <1>3, <1>4, <1>6, <2>4 DEF Promised!Repeats
<1> QED BY <1>5, <1>6

\* Statements that decide nothing.
LEMMA NothingDecided ==
    ASSUME StoreInv, NEW c \in Callers, StatementLeft(c), NEW call,
           persist' = [persist EXCEPT ![c] = call],
           call.step \in {"release", "insert", "refind"},
           call.key = persist[c].key, call.payload = persist[c].payload,
           call.origin = persist[c].origin
    PROVE  Calls' = Calls
<1>1. /\ persist \in [Callers -> PersistCalls]
      /\ Calls[c] = [step |-> "asked", key |-> persist[c].key,
                     payload |-> persist[c].payload,
                     origin |-> persist[c].origin]
    BY CallerAsked
<1>2. CallOf(call) = Calls[c]
    BY <1>1 DEF CallOf, Outcomes
<1>3. Calls' = [Calls EXCEPT ![c] = Calls[c]]
    BY <1>1, <1>2, CallsBecome
<1> QED BY <1>3 DEF Calls

LEMMA GoesOnUndecided ==
    ASSUME StoreInv, NEW c \in Callers, StatementLeft(c),
           NEW step \in {"insert", "refind"}, GoTo(c, step)
    PROVE  Calls' = Calls
<1> DEFINE call == [persist[c] EXCEPT !.step = step]
<1>1. persist[c] \in ActiveCalls
    BY CallerAsked
<1>2. /\ call.step = step
      /\ call.key = persist[c].key
      /\ call.payload = persist[c].payload
      /\ call.origin = persist[c].origin
    BY <1>1 DEF ActiveCalls
<1>3. persist' = [persist EXCEPT ![c] = call]
    BY DEF GoTo
<1> HIDE DEF call
<1> QED BY <1>2, <1>3, NothingDecided

\* A call that raises.
LEMMA GoesOnToFail ==
    ASSUME StoreInv, NEW c \in Callers, StatementLeft(c),
           NEW step \in {"integrity", "unavailable"}, GoTo(c, step)
    PROVE  Promised!IsTold(c, [step |-> step])
<1> DEFINE call == [persist[c] EXCEPT !.step = step]
<1>1. persist \in [Callers -> PersistCalls] /\ persist[c] \in ActiveCalls
    BY CallerAsked
<1>2. call.step = step
    BY <1>1 DEF ActiveCalls
<1>3. persist' = [persist EXCEPT ![c] = call]
    BY DEF GoTo
<1> HIDE DEF call
<1>4. CallOf(call) = [step |-> step]
    BY <1>2 DEF CallOf, Outcomes
<1> QED BY ZenonT(40), <1>1, <1>3, <1>4, CallsBecome DEF Promised!IsTold

\* Every statement is a step of the abstract store, or none.
LEMMA PersistStepIsPromised ==
    ASSUME StoreInv, NEW c \in Callers, PersistStep(c)
    PROVE  \/ Promised!Saves(c)
           \/ Promised!Repeats(c)
           \/ Promised!Fails(c)
           \/ UNCHANGED Promised!promise
<1>1. now' = now
    BY PersistStepAdds
<1>2. StatementLeft(c)
    BY DEF PersistStep, FindKey, ReleaseExpiredKey, InsertSubmission,
           InsertRefused, RefindKey, DatabaseFails, InsertedButUnavailable,
           InsertRow, StatementLeft
<1>3. /\ persist[c] \in ActiveCalls
      /\ Calls[c].step = "asked"
      /\ Calls[c].key = persist[c].key
      /\ persist[c].key \in MaybeKeys
    <2>1. /\ persist[c] \in ActiveCalls
          /\ Calls[c] = [step |-> "asked", key |-> persist[c].key,
                         payload |-> persist[c].payload,
                         origin |-> persist[c].origin]
        BY <1>2, CallerAsked
    <2>2. persist[c].key \in MaybeKeys
        BY <2>1 DEF ActiveCalls
    <2> QED BY <2>1, <2>2
<1>4. submissions' = submissions => SavedRows' = SavedRows
    BY DEF SavedRows, Ids
<1>5. CASE FindKey(c)
    <2>1. CASE GoTo(c, "insert")
        BY <1>1, <1>2, <1>4, <1>5, <2>1, GoesOnUndecided
        DEF FindKey, Promised!promise
    <2>2. ASSUME NEW id \in HoldersOf(persist[c].key),
                 persist' = [persist EXCEPT ![c].step = "release",
                                            ![c].row = id]
          PROVE  Calls' = Calls
        <3> DEFINE call == [persist[c] EXCEPT !.step = "release", !.row = id]
        <3>1. /\ call.step = "release"
              /\ call.key = persist[c].key
              /\ call.payload = persist[c].payload
              /\ call.origin = persist[c].origin
            BY <1>3 DEF ActiveCalls
        <3>2. persist' = [persist EXCEPT ![c] = call]
            BY <2>2
        <3> HIDE DEF call
        <3> QED BY <1>2, <3>1, <3>2, NothingDecided
    <2>3. ASSUME NEW id \in HoldersOf(persist[c].key), AnswerFrom(c, id)
          PROVE  Promised!Repeats(c)
        BY <1>1, <1>5, <2>3, AnswerRepeats DEF FindKey
    <2> QED
        BY <1>1, <1>4, <1>5, <2>1, <2>2, <2>3 DEF FindKey, Promised!promise
<1>6. CASE ReleaseExpiredKey(c)
    <2>1. submissions \in Seq(SubmissionRows)
        BY DEF StoreInv, StoreOK
    <2>2. Ids' = Ids
        BY <1>6, <2>1 DEF ReleaseExpiredKey, Ids
    <2>3. ASSUME NEW id \in Ids
          PROVE  SavedRow(submissions'[id]) = SavedRow(submissions[id])
        <3>1. submissions[id] \in SubmissionRows
            BY <2>1 DEF Ids
        <3>2. /\ submissions'[id].born = submissions[id].born
              /\ submissions'[id].payload = submissions[id].payload
              /\ submissions'[id].created = submissions[id].created
              /\ submissions'[id].origin = submissions[id].origin
            BY <1>6, <3>1, KeyIsReleased DEF SubmissionRows
        <3> QED BY <3>2 DEF SavedRow
    <2>4. SavedRows' = SavedRows
        BY <2>2, <2>3 DEF SavedRows
    <2>5. Calls' = Calls
        BY <1>2, <1>6, GoesOnUndecided DEF ReleaseExpiredKey
    <2> QED BY <1>1, <2>4, <2>5 DEF Promised!promise
<1>7. CASE InsertSubmission(c)
    <2> DEFINE call == [persist[c] EXCEPT !.step = "saved",
                                          !.row = Len(submissions) + 1]
    <2>1. call.step = "saved" /\ call.row = Len(submissions) + 1
        BY <1>3 DEF ActiveCalls
    <2>2. persist' = [persist EXCEPT ![c] = call]
        BY <1>7 DEF InsertSubmission
    <2> HIDE DEF call
    <2> QED BY <1>1, <1>7, <2>1, <2>2, InsertSaves DEF InsertSubmission
<1>8. CASE InsertRefused(c)
    BY <1>1, <1>2, <1>4, <1>8, GoesOnUndecided
    DEF InsertRefused, Promised!promise
<1>9. CASE RefindKey(c)
    <2>1. CASE HoldersOf(persist[c].key) = {} /\ GoTo(c, "integrity")
        <3>1. Promised!IsFree(Calls[c].key)
            BY <1>3, <2>1, KeyIsFree
        <3>2. Promised!Under(Calls[c].key) # {}
            <4>1. /\ persist[c].key # NoKey
                  /\ \E id \in Ids : submissions[id].born = persist[c].key
                BY <1>9 DEF RefindKey, StoreInv, RefindsUsedKey
            <4> QED BY <1>3, <4>1, SavedRowsAre DEF Promised!Under
        <3>3. Promised!IsTold(c, [step |-> "integrity"])
            BY <1>2, <2>1, GoesOnToFail
        <3> QED
            BY <1>1, <1>3, <1>4, <1>9, <3>1, <3>2, <3>3
            DEF RefindKey, Promised!Fails
    <2>2. ASSUME NEW id \in HoldersOf(persist[c].key), AnswerFrom(c, id)
          PROVE  Promised!Repeats(c)
        BY <1>1, <1>9, <2>2, AnswerRepeats DEF RefindKey
    <2> QED BY <1>9, <2>1, <2>2 DEF RefindKey
<1>10. CASE DatabaseFails(c)
    <2>1. Promised!IsTold(c, Promised!Unavailable)
        BY <1>2, <1>10, GoesOnToFail DEF DatabaseFails, Promised!Unavailable
    <2> QED
        BY <1>1, <1>3, <1>4, <1>10, <2>1 DEF DatabaseFails, Promised!Fails
<1>11. CASE InsertedButUnavailable(c)
    <2> DEFINE call == [persist[c] EXCEPT !.step = "unavailable"]
    <2>1. call.step = "unavailable"
        BY <1>3 DEF ActiveCalls
    <2>2. persist' = [persist EXCEPT ![c] = call]
        BY <1>11 DEF InsertedButUnavailable
    <2> HIDE DEF call
    <2> QED BY <1>1, <1>11, <2>1, <2>2, InsertSaves DEF InsertedButUnavailable
<1> QED
    BY <1>5, <1>6, <1>7, <1>8, <1>9, <1>10, <1>11 DEF PersistStep

LEMMA StartIsPromised ==
    ASSUME StoreInv, NEW c \in Callers, NEW key \in MaybeKeys,
           NEW payload \in Payloads, NEW o \in Origins,
           StartPersist(c, key, payload, o), submissions' = submissions,
           now' = now
    PROVE  Promised!Asks(c)
<1> DEFINE new == [step |-> IF key = NoKey THEN "insert" ELSE "find",
                   key |-> key, payload |-> payload, origin |-> o, row |-> 0]
<1>1. CallOf(new) = [step |-> "asked", key |-> key, payload |-> payload,
                     origin |-> o]
    BY DEF CallOf, Outcomes
<1>2. persist \in [Callers -> PersistCalls]
    BY DEF StoreInv, StoreOK
<1>3. Calls' = [Calls EXCEPT ![c] = CallOf(new)]
    BY <1>2, CallsBecome DEF StartPersist
<1>4. Calls'[c] = CallOf(new)
    BY <1>3 DEF Calls
<1>5. CallOf(new) \in Promised!Questions
    <2> HIDE DEF new
    <2>1. [step |-> "asked", key |-> key, payload |-> payload, origin |-> o]
              \in Promised!Questions
        BY DEF Promised!Questions, Promised!MaybeKeys
    <2> QED BY <1>1, <2>1
<1>6. Calls[c].step = "idle"
    BY DEF StartPersist, Calls, CallOf, NotSaving
<1>7. SavedRows' = SavedRows
    BY DEF SavedRows, Ids
<1> HIDE DEF new
<1> QED BY <1>3, <1>4, <1>5, <1>6, <1>7 DEF Promised!Asks

\* The database cannot even be reached.
LEMMA FailedStartIsPromised ==
    ASSUME StoreInv, NEW c \in Callers, AtStatement(c, "idle"), NEW call,
           call.step = "unavailable",
           persist' = [persist EXCEPT ![c] = call],
           submissions' = submissions, now' = now
    PROVE  Promised!Asks(c)
<1>1. persist \in [Callers -> PersistCalls]
    BY DEF StoreInv, StoreOK
<1>2. CallOf(call) = Promised!Unavailable
    BY DEF CallOf, Outcomes, Promised!Unavailable
<1>3. Calls' = [Calls EXCEPT ![c] = CallOf(call)]
    BY <1>1, CallsBecome
<1>4. Calls'[c] = CallOf(call)
    BY <1>3 DEF Calls
<1>5. Calls[c].step = "idle"
    BY DEF Calls, CallOf, NotSaving
<1>6. SavedRows' = SavedRows
    BY DEF SavedRows, Ids
<1> QED BY <1>2, <1>3, <1>4, <1>5, <1>6 DEF Promised!Asks

LEMMA LeaveIsPromised ==
    ASSUME StoreInv, NEW c \in Callers,
           persist' = [persist EXCEPT ![c] = NotSaving],
           submissions' = submissions, now' = now
    PROVE  Promised!Leaves(c)
<1>1. persist \in [Callers -> PersistCalls]
    BY DEF StoreInv, StoreOK
<1>2. CallOf(NotSaving) = Promised!Idle
    BY DEF CallOf, NotSaving, Promised!Idle
<1>3. SavedRows' = SavedRows
    BY DEF SavedRows, Ids
<1> QED BY <1>1, <1>2, <1>3, CallsBecome DEF Promised!Leaves

LEMMA TickIsPromised ==
    ASSUME Tick, UNCHANGED store
    PROVE  Promised!NextPromise
    BY DEF Tick, store, Promised!NextPromise, SavedRows, Calls, Ids

LEMMA RestIsPromised ==
    ASSUME UNCHANGED store, now' = now
    PROVE  UNCHANGED Promised!promise
    BY DEF store, Promised!promise, SavedRows, Calls, Ids

\* What a step of any specification must be for its store to act as promised.
KeepsPromise == Promised!NextPromise \/ UNCHANGED Promised!promise

LEMMA StoreKeepsPromise ==
    ASSUME StoreInv, NEW c \in Callers, now' = now,
           \/ PersistStep(c)
           \/ /\ submissions' = submissions
              /\ \/ persist' = persist
                 \/ persist' = [persist EXCEPT ![c] = NotSaving]
                 \/ \E key \in MaybeKeys, payload \in Payloads, o \in Origins :
                       StartPersist(c, key, payload, o)
                 \/ /\ AtStatement(c, "idle")
                    /\ \E call : /\ call.step = "unavailable"
                                 /\ persist' = [persist EXCEPT ![c] = call]
    PROVE  KeepsPromise
<1>1. CASE PersistStep(c)
    BY <1>1, PersistStepIsPromised DEF KeepsPromise, Promised!NextPromise
<1>2. CASE submissions' = submissions /\ persist' = persist
    BY <1>2, RestIsPromised DEF KeepsPromise, store
<1>3. CASE /\ submissions' = submissions
           /\ persist' = [persist EXCEPT ![c] = NotSaving]
    BY <1>3, LeaveIsPromised DEF KeepsPromise, Promised!NextPromise
<1>4. ASSUME NEW key \in MaybeKeys, NEW payload \in Payloads,
             NEW o \in Origins, submissions' = submissions,
             StartPersist(c, key, payload, o)
      PROVE  KeepsPromise
    BY <1>4, StartIsPromised DEF KeepsPromise, Promised!NextPromise
<1>5. ASSUME submissions' = submissions, AtStatement(c, "idle"), NEW call,
             call.step = "unavailable",
             persist' = [persist EXCEPT ![c] = call]
      PROVE  KeepsPromise
    BY <1>5, FailedStartIsPromised DEF KeepsPromise, Promised!NextPromise
<1> QED BY <1>1, <1>2, <1>3, <1>4, <1>5

LEMMA BeginningIsPromised ==
    ASSUME InitEnvironment, InitStore
    PROVE  Promised!InitPromise
<1>1. SavedRows = << >>
    BY DEF InitStore, SavedRows, Ids
<1>2. Calls = [c \in Callers |-> Promised!Idle]
    BY DEF InitStore, Calls, CallOf, NotSaving, Promised!Idle
<1> QED BY <1>1, <1>2 DEF InitEnvironment, Promised!InitPromise

-----------------------------------------------------------------------------
\* The table task_statuses.

\* What record_task_status can be asked to write.
WriteRows ==
    [status : {"processing", "retrying", "processed", "failed", "conflict"},
     submission : SubmissionIds \cup {NoSubmission},
     error : Errors \cup {NoError},
     retries : 0 .. MaxRetries \cup {KeepRetries}]

\* The arguments of every call site are such rows.
LEMMA CallSites ==
    /\ \A n \in 0 .. MaxRetries :
          /\ Processing(n) \in WriteRows
          /\ \A s \in SubmissionIds : Processed(n, s) \in WriteRows
          /\ Retrying(n) \in WriteRows
          /\ Conflict(n) \in WriteRows
          /\ \A e \in Errors : Failed(n, e) \in WriteRows
    /\ NeverQueued \in WriteRows
    BY DEF WriteRows, Processing, Processed, Retrying, Conflict, Failed,
           NeverQueued, Row, Errors, NoError, NoSubmission, KeepRetries

\* A row after record_task_status.
LEMMA RecordedRow ==
    ASSUME NEW row \in Rows, NEW write \in WriteRows
    PROVE  /\ Recorded(row, write) \in Rows
           /\ IsTerminal(row) => Recorded(row, write) = row
           /\ Recorded(row, write).status \in {row.status, write.status}
    BY TaskRowsAssumption
    DEF Rows, WriteRows, Recorded, MayUpdate, IsTerminal, Updated, Inserted,
        TERMINAL_TASK_STATUSES, KeepRetries

\* A row after mark_task_queued.
LEMMA MarkedRow ==
    ASSUME NEW row \in Rows
    PROVE  /\ Marked(row) \in Rows
           /\ row.status # "absent" => Marked(row) = row
           /\ Marked(row).status = "queued" \/ Marked(row) = row
    BY TaskRowsAssumption
    DEF Rows, Marked, Queued, Row, NoSubmission, NoError, Errors

\* A status that is final, and a task that has begun, stay so.
KeepsWord ==
    \A t \in Tasks :
        /\ IsTerminal(taskStatus[t]) => taskStatus'[t] = taskStatus[t]
        /\ taskStatus[t].status \notin {"absent", "queued"} =>
              taskStatus'[t].status \notin {"absent", "queued"}

LEMMA RecordKeepsWord ==
    ASSUME taskStatus \in TaskTable, NEW t \in Tasks, NEW write \in WriteRows,
           RecordTaskStatus(t, write)
    PROVE  taskStatus' \in TaskTable /\ KeepsWord
<1>1. taskStatus[t] \in Rows
    BY DEF TaskTable
<1>2. taskStatus' = [taskStatus EXCEPT ![t] = Recorded(taskStatus[t], write)]
    BY DEF RecordTaskStatus
<1>3. /\ Recorded(taskStatus[t], write) \in Rows
      /\ IsTerminal(taskStatus[t]) =>
            Recorded(taskStatus[t], write) = taskStatus[t]
      /\ Recorded(taskStatus[t], write).status
            \in {taskStatus[t].status, write.status}
    BY <1>1, RecordedRow
<1>4. write.status \notin {"absent", "queued"}
    BY DEF WriteRows
<1> QED BY <1>2, <1>3, <1>4 DEF TaskTable, KeepsWord

LEMMA MarkKeepsWord ==
    ASSUME taskStatus \in TaskTable, NEW t \in Tasks, MarkTaskQueued(t)
    PROVE  taskStatus' \in TaskTable /\ KeepsWord
<1>1. taskStatus[t] \in Rows
    BY DEF TaskTable
<1>2. taskStatus' = [taskStatus EXCEPT ![t] = Marked(taskStatus[t])]
    BY DEF MarkTaskQueued
<1>3. Marked(taskStatus[t]) \in Rows
    BY <1>1, MarkedRow
<1>4. taskStatus[t].status # "absent" => Marked(taskStatus[t]) = taskStatus[t]
    BY DEF Marked
<1> QED
    BY <1>2, <1>3, <1>4
    DEF TaskTable, KeepsWord, IsTerminal, TERMINAL_TASK_STATUSES

LEMMA TableKept ==
    ASSUME taskStatus \in TaskTable, taskStatus' = taskStatus
    PROVE  taskStatus' \in TaskTable /\ KeepsWord
    BY DEF KeepsWord

-----------------------------------------------------------------------------
\* The workers.

USE DEF Doing

UnboundedIds == SubmissionIds = Nat \ {0}

\* The steps of a worker that has not finished with its message.
Active == {"received", "saving", "retry"}

\* Rows are never deleted, and keep what they were saved with.
RowsStay ==
    \A id \in Ids :
        /\ id \in Ids'
        /\ submissions'[id].born = submissions[id].born
        /\ submissions'[id].payload = submissions[id].payload
        /\ submissions'[id].origin = submissions[id].origin

LEMMA WorkBegins ==
    ASSUME InitEnvironment, InitStore, InitTaskTable, InitBroker, InitWorkers
    PROVE  WorkInv
<1>1. StoreInv
    BY StoreBegins
<1>2. taskStatus \in TaskTable
    BY TaskRowsAssumption
    DEF InitTaskTable, TaskTable, Absent, Row, Rows, NoSubmission, NoError
<1>3. \A w \in Workers : worker[w].step = "idle" /\ worker[w] \in WorkerStates
    BY DEF InitWorkers, Waiting, WorkerStates
<1>4. BrokerOK /\ WorkersOK
    BY <1>3 DEF BrokerOK, InitBroker, WorkersOK, InitWorkers, WorkerStates
<1>5. \A t \in Tasks : taskStatus[t].status # "processed"
    BY DEF InitTaskTable, Absent, Row
<1>6. Ids = {}
    BY DEF InitStore, Ids
<1> QED
    BY <1>1, <1>2, <1>3, <1>4, <1>5, <1>6
    DEF WorkInv, InitBroker, CopiesAreAccepted, OneMessagePerTask,
        WorkersSaveTheirMessage, TasksSaveTheirMessage, NothingForgotten,
        ProcessedMeansSaved

\* The message of a busy worker.
LEMMA BusyWorker ==
    ASSUME WorkInv, NEW w \in Workers, worker[w].step # "idle"
    PROVE  LET m == worker[w].message
           IN  /\ worker[w] \in [step : {"received", "saving", "retry", "ack"},
                                 message : Messages]
               /\ m \in Messages
               /\ m.task \in Tasks /\ m.task \in Origins
               /\ m.payload \in Payloads
               /\ m.retries \in 0 .. MaxRetries
               /\ EffectiveKey(m) \in Keys
               /\ w \in Callers
               /\ \E a \in accepted : IsCopyOf(m, a)
<1>1. worker[w] \in [step : {"received", "saving", "retry", "ack"},
                     message : Messages]
    BY DEF WorkInv, WorkersOK, WorkerStates, Waiting
<1> QED
    BY <1>1, AsyncWorkerAssumption
    DEF WorkInv, Messages, EffectiveKey, CopiesAreAccepted

\* A copy is settled with its message.
LEMMA CopiesAgree ==
    ASSUME NEW m, NEW a, IsCopyOf(m, a), NEW row
    PROVE  /\ EffectiveKey(m) = EffectiveKey(a)
           /\ IsRowOf(row, m) => IsRowOf(row, a)
    BY DEF IsCopyOf, EffectiveKey, IsRowOf

LEMMA SettledStays ==
    ASSUME RowsStay, gaveUp \subseteq gaveUp', NEW a, Settled(a)
    PROVE  Settled(a)'
    BY DEF RowsStay, Settled, Saved

\* Rows and statuses, whoever moves.
LEMMA RowsAndStatuses ==
    ASSUME WorkInv, RowsStay, accepted \subseteq accepted',
           taskStatus' \in TaskTable, KeepsWord,
           \A id \in Ids' \ Ids : submissions'[id].origin \in Tasks =>
               \E a \in accepted' : /\ a.task = submissions'[id].origin
                                    /\ IsRowOf(submissions'[id], a),
           \A t \in Tasks : taskStatus'[t].status = "processed" =>
               \/ taskStatus[t].status = "processed"
               \/ \E a \in accepted :
                     /\ a.task = t
                     /\ taskStatus'[t].submission \in Ids
                     /\ IsRowOf(submissions[taskStatus'[t].submission], a)
    PROVE  TasksSaveTheirMessage' /\ ProcessedMeansSaved'
<1>1. TasksSaveTheirMessage'
    BY DEF WorkInv, RowsStay, TasksSaveTheirMessage, IsRowOf, EffectiveKey
<1>2. ProcessedMeansSaved'
    <2> SUFFICES ASSUME NEW t \in Tasks, taskStatus'[t].status = "processed"
                 PROVE  \E a \in accepted' :
                           /\ a.task = t
                           /\ taskStatus'[t].submission \in Ids'
                           /\ LET row == submissions'[taskStatus'[t].submission]
                              IN  /\ row.born = EffectiveKey(a)
                                  /\ row.payload = a.payload
        BY DEF ProcessedMeansSaved, EffectiveKey
    <2>1. \E a \in accepted :
              /\ a.task = t
              /\ taskStatus'[t].submission \in Ids
              /\ IsRowOf(submissions[taskStatus'[t].submission], a)
        <3>1. CASE taskStatus[t].status = "processed"
            BY <3>1
            DEF WorkInv, ProcessedMeansSaved, KeepsWord, IsTerminal,
                TERMINAL_TASK_STATUSES, IsRowOf
        <3> QED BY <3>1
    <2> QED BY <2>1 DEF RowsStay, IsRowOf
<1> QED BY <1>1, <1>2

-----------------------------------------------------------------------------
\* One worker moves, whatever it does: it is enough to say what becomes of the
\* message it had, and where the one it has comes from.
LEMMA WorkerMoves ==
    ASSUME WorkInv, NEW w \in Workers, NEW state \in WorkerStates,
           worker' = [worker EXCEPT ![w] = state],
           accepted' = accepted,
           StoreInv', RowsStay,
           \A c \in Callers \ {w} : persist'[c] = persist[c],
           \A id \in Ids' \ Ids : submissions'[id].origin \in Tasks =>
               \E a \in accepted : /\ a.task = submissions'[id].origin
                                   /\ IsRowOf(submissions'[id], a),
           taskStatus' \in TaskTable, KeepsWord,
           \A t \in Tasks : taskStatus'[t].status = "processed" =>
               \/ taskStatus[t].status = "processed"
               \/ \E a \in accepted :
                     /\ a.task = t
                     /\ taskStatus'[t].submission \in Ids
                     /\ IsRowOf(submissions[taskStatus'[t].submission], a),
           ready' \in [Workers -> BOOLEAN],
           gaveUp \subseteq gaveUp', gaveUp' \subseteq Tasks,
           dropped \subseteq dropped', dropped' \subseteq Tasks,
           unrecorded' \subseteq Tasks,
           queue' \subseteq Messages,
           \A m \in queue' : \/ m \in queue
                             \/ /\ worker[w].step # "idle"
                                /\ IsCopyOf(m, worker[w].message),
           \A m \in queue \ queue' : state.step \in Active /\ state.message = m,
           state.step # "idle" =>
               \/ /\ worker[w].step # "idle"
                  /\ state.message = worker[w].message
               \/ state.message \in queue,
           state.step = "saving" =>
               /\ persist'[w].step # "idle"
               /\ persist'[w].key = EffectiveKey(state.message)
               /\ persist'[w].payload = state.message.payload
               /\ persist'[w].origin = state.message.task,
           state.step = "retry" => state.message.retries < MaxRetries,
           worker[w].step \in Active =>
               \/ state.step \in Active /\ state.message = worker[w].message
               \/ \E copy \in queue' : copy.task = worker[w].message.task
               \/ worker[w].message.task \in gaveUp' \cup dropped'
               \/ \E id \in Ids : IsRowOf(submissions[id], worker[w].message)
    PROVE  WorkInv'
<1>1. /\ worker'[w] = state
      /\ \A v \in Workers \ {w} : worker'[v] = worker[v]
      /\ worker' \in [Workers -> WorkerStates]
    BY DEF WorkInv, WorkersOK
<1>2. BrokerOK' /\ WorkersOK'
    BY <1>1 DEF WorkInv, BrokerOK, WorkersOK
<1>3. CopiesAreAccepted'
    <2>1. \A m \in queue : \E a \in accepted : IsCopyOf(m, a)
        BY DEF WorkInv, CopiesAreAccepted
    <2>2. \A v \in Workers : worker[v].step # "idle" =>
              \E a \in accepted : IsCopyOf(worker[v].message, a)
        BY DEF WorkInv, CopiesAreAccepted
    <2>3. \A m \in queue' : \E a \in accepted : IsCopyOf(m, a)
        BY <2>1, <2>2 DEF IsCopyOf
    <2>4. \A v \in Workers : worker'[v].step # "idle" =>
              \E a \in accepted : IsCopyOf(worker'[v].message, a)
        BY <1>1, <2>1, <2>2
    <2> QED BY <2>3, <2>4 DEF CopiesAreAccepted, IsCopyOf
<1>4. OneMessagePerTask'
    BY DEF WorkInv, OneMessagePerTask
<1>5. WorkersSaveTheirMessage'
    <2>1. \A v \in Workers \ {w} : persist'[v] = persist[v]
        BY AsyncWorkerAssumption
    <2> QED
        BY <1>1, <2>1 DEF WorkInv, WorkersSaveTheirMessage, EffectiveKey
<1>6. TasksSaveTheirMessage' /\ ProcessedMeansSaved'
    BY RowsAndStatuses
<1>7. NothingForgotten'
    <2> SUFFICES ASSUME NEW a \in accepted,
                        ~Settled(a)', a.task \notin dropped',
                        \A copy \in queue' : copy.task # a.task
                 PROVE  \E v \in Workers : /\ worker'[v].step \in Active
                                           /\ worker'[v].message.task = a.task
        BY DEF NothingForgotten, Active, Settled, Saved, EffectiveKey
    <2>1. ~Settled(a) /\ a.task \notin gaveUp'
        BY SettledStays DEF Settled
    <2>2. CASE \E copy \in queue : copy.task = a.task
        BY <1>1, <2>2
    <2>3. CASE \E v \in Workers : /\ worker[v].step \in Active
                                  /\ worker[v].message.task = a.task
        <3>1. PICK v \in Workers : /\ worker[v].step \in Active
                                   /\ worker[v].message.task = a.task
            BY <2>3
        <3>2. CASE v # w
            BY <1>1, <3>1, <3>2
        <3>3. CASE v = w
            <4>1. IsCopyOf(worker[w].message, a)
                BY <3>1, <3>3, BusyWorker
                DEF Active, WorkInv, OneMessagePerTask, IsCopyOf
            <4>2. \A id \in Ids : ~IsRowOf(submissions[id], worker[w].message)
                BY <2>1, <4>1, CopiesAgree DEF Settled, Saved, IsRowOf
            <4> QED BY <1>1, <2>1, <3>1, <3>3, <4>2
        <3> QED BY <3>2, <3>3
    <2> QED BY <2>1, <2>2, <2>3 DEF WorkInv, NothingForgotten, Active
<1> QED BY <1>2, <1>3, <1>4, <1>5, <1>6, <1>7 DEF WorkInv

\* Somebody else moves: a request, or the clock.
LEMMA OthersMove ==
    ASSUME WorkInv, UNCHANGED workers, StoreInv', RowsStay,
           \A w \in Workers : persist'[w] = persist[w],
           \A id \in Ids' \ Ids : submissions'[id].origin \notin Tasks,
           taskStatus' \in TaskTable, KeepsWord,
           \A t \in Tasks : taskStatus'[t].status = "processed" =>
               taskStatus[t].status = "processed",
           \/ UNCHANGED broker
           \/ \E m \in Messages : /\ Publish(m)
                                  /\ \A a \in accepted : a.task # m.task
    PROVE  WorkInv'
<1>1. /\ worker' = worker /\ ready' = ready /\ gaveUp' = gaveUp
      /\ unrecorded' = unrecorded /\ dropped' = dropped
    BY DEF workers, histories
<1>2. PICK new \in SUBSET Messages :
          /\ queue' = queue \cup new
          /\ accepted' = accepted \cup new
          /\ \A m \in new, a \in accepted : a.task # m.task
          /\ \A m, n \in new : m = n
    <2>1. CASE UNCHANGED broker
        <3> DEFINE none == {}
        <3>1. /\ none \in SUBSET Messages
              /\ queue' = queue \cup none
              /\ accepted' = accepted \cup none
              /\ \A m \in none, a \in accepted : a.task # m.task
              /\ \A m, n \in none : m = n
            BY <2>1 DEF broker
        <3> HIDE DEF none
        <3> QED BY <3>1
    <2>2. CASE \E m \in Messages : /\ Publish(m)
                                   /\ \A a \in accepted : a.task # m.task
        <3>1. PICK m \in Messages : /\ Publish(m)
                                    /\ \A a \in accepted : a.task # m.task
            BY <2>2
        <3>2. {m} \in SUBSET Messages
            OBVIOUS
        <3> QED BY <3>1, <3>2 DEF Publish
    <2> QED BY <2>1, <2>2
<1>3. BrokerOK' /\ WorkersOK'
    BY <1>1, <1>2 DEF WorkInv, BrokerOK, WorkersOK
<1>4. CopiesAreAccepted' /\ OneMessagePerTask'
    BY <1>1, <1>2
    DEF WorkInv, CopiesAreAccepted, OneMessagePerTask, IsCopyOf
<1>5. WorkersSaveTheirMessage'
    BY <1>1 DEF WorkInv, WorkersSaveTheirMessage, EffectiveKey
<1>6. TasksSaveTheirMessage' /\ ProcessedMeansSaved'
    BY <1>2, RowsAndStatuses
<1>7. NothingForgotten'
    <2> SUFFICES ASSUME NEW a \in accepted',
                        ~Settled(a)', a.task \notin dropped,
                        \A copy \in queue' : copy.task # a.task
                 PROVE  \E v \in Workers : /\ worker[v].step \in Active
                                           /\ worker[v].message.task = a.task
        BY <1>1 DEF NothingForgotten, Active, Settled, Saved, EffectiveKey
    <2>1. a \in accepted /\ ~Settled(a)
        BY <1>1, <1>2, SettledStays
    <2> QED BY <1>2, <2>1 DEF WorkInv, NothingForgotten, Active
<1> QED BY <1>3, <1>4, <1>5, <1>6, <1>7 DEF WorkInv


-----------------------------------------------------------------------------
\* The steps of a worker.

\* A best-effort status write.
LEMMA TryToRecord ==
    ASSUME WorkInv, NEW t \in Tasks, NEW write \in WriteRows,
           TryRecord(t, write)
    PROVE  /\ taskStatus' \in TaskTable /\ KeepsWord
           /\ now' = now /\ faults' \in 0 .. MaxFaults
           /\ unrecorded' \subseteq Tasks
           /\ \A u \in Tasks : taskStatus'[u].status = "processed" =>
                 \/ taskStatus[u].status = "processed"
                 \/ /\ u = t
                    /\ write.status = "processed"
                    /\ taskStatus'[u].submission = write.submission
<1>1. /\ taskStatus \in TaskTable
      /\ now \in 0 .. MaxTime
      /\ faults \in 0 .. MaxFaults
      /\ unrecorded \subseteq Tasks
    BY DEF WorkInv, StoreInv, EnvironmentOK, WorkersOK
<1>2. CASE RecordTaskStatus(t, write) /\ NoFault /\ UNCHANGED unrecorded
    <2>1. taskStatus' \in TaskTable /\ KeepsWord
        BY <1>1, <1>2, RecordKeepsWord
    <2>2. \/ Recorded(taskStatus[t], write) = taskStatus[t]
          \/ /\ Recorded(taskStatus[t], write).status = write.status
             /\ Recorded(taskStatus[t], write).submission = write.submission
        BY DEF Recorded, Updated, Inserted, WriteRows
    <2>3. \A u \in Tasks : taskStatus'[u] =
              IF u = t THEN Recorded(taskStatus[t], write) ELSE taskStatus[u]
        BY <1>1, <1>2 DEF RecordTaskStatus, TaskTable
    <2> QED BY <1>1, <1>2, <2>1, <2>2, <2>3 DEF NoFault, environment
<1>3. CASE UNCHANGED taskStatus /\ Fault /\ unrecorded' = unrecorded \cup {t}
    <2>1. taskStatus' \in TaskTable /\ KeepsWord
        BY <1>1, <1>3, TableKept
    <2> QED BY <1>1, <1>3, <2>1, EnvironmentAssumption DEF Fault
<1> QED BY <1>2, <1>3 DEF TryRecord

\* What most steps leave alone.
LEMMA TableStands ==
    ASSUME WorkInv, taskStatus' = taskStatus
    PROVE  /\ taskStatus' \in TaskTable /\ KeepsWord
           /\ \A u \in Tasks : taskStatus'[u].status = "processed" =>
                 taskStatus[u].status = "processed"
    BY TableKept DEF WorkInv

LEMMA RowsStand ==
    ASSUME submissions' = submissions
    PROVE  RowsStay /\ Ids' = Ids
    BY DEF RowsStay, Ids

\* The worker has, or had, a message, and goes to another step with it.
LEMMA GoesToStep ==
    ASSUME WorkInv, NEW w \in Workers, worker[w].step # "idle",
           NEW step \in {"saving", "retry", "ack"}, NowDoing(w, step)
    PROVE  LET state == [worker[w] EXCEPT !.step = step]
           IN  /\ state \in WorkerStates
               /\ state.step = step
               /\ state.message = worker[w].message
               /\ worker' = [worker EXCEPT ![w] = state]
<1>1. worker[w] \in [step : {"received", "saving", "retry", "ack"},
                     message : Messages]
    BY BusyWorker
<1> QED BY <1>1 DEF NowDoing, WorkerStates

LEMMA DeliverKeepsWork ==
    ASSUME WorkInv, NEW w \in Workers, Deliver(w)
    PROVE  WorkInv'
<1>1. PICK m \in queue :
          /\ Take(m)
          /\ worker' = [worker EXCEPT ![w] = [step |-> "received",
                                              message |-> m]]
    BY DEF Deliver
<1> DEFINE state == [step |-> "received", message |-> m]
<1>2. /\ state \in WorkerStates
      /\ state.step = "received"
      /\ state.message = m
      /\ worker' = [worker EXCEPT ![w] = state]
    BY <1>1 DEF WorkInv, BrokerOK, WorkerStates
<1> HIDE DEF state
<1>3. /\ submissions' = submissions /\ persist' = persist
      /\ taskStatus' = taskStatus /\ ready' = ready /\ gaveUp' = gaveUp
      /\ unrecorded' = unrecorded /\ dropped' = dropped
      /\ UNCHANGED store /\ now' = now /\ faults' = faults
    BY DEF Deliver, environment, store, histories
<1>4. StoreInv'
    BY <1>3, StoreRests DEF WorkInv, StoreInv, EnvironmentOK
<1>5. /\ queue' = queue \ {m}
      /\ accepted' = accepted
      /\ queue' \subseteq Messages
    BY <1>1 DEF Take, WorkInv, BrokerOK
<1>6. worker[w].step = "idle"
    BY DEF Deliver
<1>7. RowsStay /\ Ids' = Ids
    BY <1>3, RowsStand
<1>8. /\ ready' \in [Workers -> BOOLEAN] /\ gaveUp' \subseteq Tasks
      /\ dropped' \subseteq Tasks /\ unrecorded' \subseteq Tasks
    BY <1>3 DEF WorkInv, WorkersOK
<1>9. "received" \in Active /\ "idle" \notin Active
    BY DEF Active
<1> QED
    BY <1>2, <1>3, <1>4, <1>5, <1>6, <1>7, <1>8, <1>9, TableStands, WorkerMoves

\* The worker keeps its message and goes to another step with it.
LEMMA Proceeds ==
    ASSUME WorkInv, NEW w \in Workers, worker[w].step # "idle",
           NEW step \in {"saving", "retry", "ack"}, NowDoing(w, step),
           UNCHANGED broker, submissions' = submissions,
           StoreInv',
           \A c \in Callers \ {w} : persist'[c] = persist[c],
           taskStatus' \in TaskTable, KeepsWord,
           \A t \in Tasks : taskStatus'[t].status = "processed" =>
               \/ taskStatus[t].status = "processed"
               \/ \E a \in accepted :
                     /\ a.task = t
                     /\ taskStatus'[t].submission \in Ids
                     /\ IsRowOf(submissions[taskStatus'[t].submission], a),
           ready' \in [Workers -> BOOLEAN],
           gaveUp \subseteq gaveUp', gaveUp' \subseteq Tasks,
           dropped \subseteq dropped', dropped' \subseteq Tasks,
           unrecorded' \subseteq Tasks,
           step = "saving" =>
               /\ persist'[w].step # "idle"
               /\ persist'[w].key = EffectiveKey(worker[w].message)
               /\ persist'[w].payload = worker[w].message.payload
               /\ persist'[w].origin = worker[w].message.task,
           step = "retry" => worker[w].message.retries < MaxRetries,
           \/ step \in Active
           \/ worker[w].message.task \in gaveUp' \cup dropped'
           \/ \E id \in Ids : IsRowOf(submissions[id], worker[w].message)
    PROVE  WorkInv'
<1> DEFINE state == [worker[w] EXCEPT !.step = step]
<1>1. /\ state \in WorkerStates
      /\ state.step = step
      /\ state.message = worker[w].message
      /\ worker' = [worker EXCEPT ![w] = state]
    BY GoesToStep
<1> HIDE DEF state
<1>2. queue' = queue /\ accepted' = accepted /\ queue' \subseteq Messages
    BY DEF broker, WorkInv, BrokerOK
<1>3. RowsStay /\ Ids' = Ids
    BY RowsStand
<1> QED
    BY <1>1, <1>2, <1>3, WorkerMoves

\* Types of what steps of a worker change.
LEMMA HistoriesOK ==
    ASSUME WorkInv
    PROVE  /\ ready \in [Workers -> BOOLEAN]
           /\ gaveUp \subseteq Tasks
           /\ dropped \subseteq Tasks
           /\ unrecorded \subseteq Tasks
           /\ persist \in [Callers -> PersistCalls]
           /\ StoreInv
           /\ faults \in 0 .. MaxFaults
    BY DEF WorkInv, WorkersOK, StoreInv, StoreOK, EnvironmentOK

LEMMA BeginKeepsWork ==
    ASSUME WorkInv, NEW w \in Workers, BeginTask(w)
    PROVE  WorkInv'
<1> DEFINE m == worker[w].message
<1>1. worker[w].step # "idle" /\ NowDoing(w, "saving")
    BY DEF BeginTask
<1>2. /\ m.task \in Tasks /\ m.task \in Origins /\ m.payload \in Payloads
      /\ m.retries \in 0 .. MaxRetries
      /\ EffectiveKey(m) \in MaybeKeys
      /\ w \in Callers
    BY <1>1, BusyWorker
<1>3. /\ TryRecord(m.task, Processing(m.retries))
      /\ StartPersist(w, EffectiveKey(m), m.payload, m.task)
      /\ ready' = [ready EXCEPT ![w] = TRUE]
      /\ submissions' = submissions /\ UNCHANGED broker
      /\ gaveUp' = gaveUp /\ dropped' = dropped
    BY DEF BeginTask
<1>4. Processing(m.retries) \in WriteRows
    BY <1>2, CallSites
<1>5. /\ taskStatus' \in TaskTable /\ KeepsWord
      /\ now' = now /\ faults' \in 0 .. MaxFaults
      /\ unrecorded' \subseteq Tasks
      /\ \A u \in Tasks : taskStatus'[u].status = "processed" =>
            taskStatus[u].status = "processed"
    BY <1>2, <1>3, <1>4, TryToRecord DEF Processing, Row
<1> HIDE DEF m
<1>6. StoreInv'
    BY <1>2, <1>3, <1>5, HistoriesOK, StartKeepsStore
<1>7. /\ \A c \in Callers \ {w} : persist'[c] = persist[c]
      /\ persist'[w].step # "idle"
      /\ persist'[w].key = EffectiveKey(m)
      /\ persist'[w].payload = m.payload
      /\ persist'[w].origin = m.task
    BY <1>2, <1>3, HistoriesOK DEF StartPersist
<1>8. ready' \in [Workers -> BOOLEAN]
    BY <1>3, HistoriesOK
<1>9. "saving" \in Active
    BY DEF Active
<1> QED
    BY <1>1, <1>3, <1>5, <1>6, <1>7, <1>8, <1>9, HistoriesOK, Proceeds DEF m

LEMMA NotReadyKeepsWork ==
    ASSUME WorkInv, NEW w \in Workers, DatabaseNotReady(w)
    PROVE  WorkInv'
<1> DEFINE m == worker[w].message
           call == [step |-> "unavailable", key |-> EffectiveKey(m),
                    payload |-> m.payload, origin |-> m.task, row |-> 0]
<1>1. worker[w].step # "idle" /\ NowDoing(w, "saving")
    BY DEF DatabaseNotReady
<1>2. /\ m.task \in Tasks /\ m.task \in Origins /\ m.payload \in Payloads
      /\ EffectiveKey(m) \in MaybeKeys
      /\ w \in Callers
    BY <1>1, BusyWorker
<1>3. /\ persist' = [persist EXCEPT ![w] = call]
      /\ submissions' = submissions /\ taskStatus' = taskStatus
      /\ ready' = ready /\ gaveUp' = gaveUp
      /\ unrecorded' = unrecorded /\ dropped' = dropped
      /\ UNCHANGED broker
      /\ Fault
    BY DEF DatabaseNotReady, histories
<1>4. /\ call \in PersistCalls
      /\ call.step = "unavailable"
      /\ call.key = EffectiveKey(m)
      /\ call.payload = m.payload
      /\ call.origin = m.task
    BY <1>2 DEF PersistCalls, ActiveCalls, Outcomes
<1> HIDE DEF call, m
<1>5. now' = now /\ faults' \in 0 .. MaxFaults
    BY <1>3, HistoriesOK, EnvironmentAssumption DEF Fault
<1>6. StoreInv'
    BY <1>2, <1>3, <1>4, <1>5, HistoriesOK, CallerMoves
<1>7. persist'[w] = call /\ \A c \in Callers \ {w} : persist'[c] = persist[c]
    BY <1>2, <1>3, HistoriesOK
<1>8. "saving" \in Active
    BY DEF Active
<1> QED
    BY <1>1, <1>3, <1>4, <1>6, <1>7, <1>8, HistoriesOK, TableStands, Proceeds
    DEF m

LEMMA SaveKeepsWork ==
    ASSUME WorkInv, NEW w \in Workers, SaveStep(w)
    PROVE  WorkInv'
<1> DEFINE m == worker[w].message
<1>1. /\ worker[w].step = "saving"
      /\ PersistStep(w)
      /\ taskStatus' = taskStatus
      /\ queue' = queue /\ accepted' = accepted
      /\ worker' = worker /\ ready' = ready /\ gaveUp' = gaveUp
      /\ unrecorded' = unrecorded /\ dropped' = dropped
    BY DEF SaveStep, broker, workers, histories
<1>2. /\ worker[w] \in WorkerStates
      /\ w \in Callers
      /\ m.task \in Tasks
      /\ \E a \in accepted : IsCopyOf(m, a)
    BY <1>1, BusyWorker DEF WorkInv, WorkersOK
<1>3. /\ persist[w].key = EffectiveKey(m)
      /\ persist[w].payload = m.payload
      /\ persist[w].origin = m.task
    BY <1>1 DEF WorkInv, WorkersSaveTheirMessage
<1>4. StoreInv'
    BY <1>1, <1>2, HistoriesOK, PersistStepKeepsStore
<1>5. /\ RowsStay
      /\ \A id \in Ids' \ Ids :
            /\ submissions'[id].born = persist[w].key
            /\ submissions'[id].payload = persist[w].payload
            /\ submissions'[id].origin = persist[w].origin
      /\ \A c \in Callers \ {w} : persist'[c] = persist[c]
      /\ persist'[w].step # "idle"
      /\ persist'[w].key = persist[w].key
      /\ persist'[w].payload = persist[w].payload
      /\ persist'[w].origin = persist[w].origin
    BY <1>1, <1>2, HistoriesOK, PersistStepAdds DEF RowsStay
<1>6. \A id \in Ids' \ Ids :
         \E a \in accepted : /\ a.task = submissions'[id].origin
                             /\ IsRowOf(submissions'[id], a)
    BY <1>2, <1>3, <1>5 DEF IsCopyOf, IsRowOf, EffectiveKey
<1>7. worker' = [worker EXCEPT ![w] = worker[w]]
    BY <1>1 DEF WorkInv, WorkersOK
<1>8. /\ queue' \subseteq Messages
      /\ ready' \in [Workers -> BOOLEAN]
      /\ gaveUp \subseteq gaveUp' /\ gaveUp' \subseteq Tasks
      /\ dropped \subseteq dropped' /\ dropped' \subseteq Tasks
      /\ unrecorded' \subseteq Tasks
    BY <1>1, HistoriesOK DEF WorkInv, BrokerOK
<1>9. /\ taskStatus' \in TaskTable /\ KeepsWord
      /\ \A u \in Tasks : taskStatus'[u].status = "processed" =>
            taskStatus[u].status = "processed"
    BY <1>1, TableStands
<1>10. worker[w].step \in Active
    BY <1>1 DEF Active
<1> DEFINE state == worker[w]
<1>11. /\ state \in WorkerStates
       /\ worker' = [worker EXCEPT ![w] = state]
       /\ state.step = "saving"
       /\ state.message = m
    BY <1>1, <1>2, <1>7
<1> HIDE DEF state
<1>12. /\ \A x \in queue' : \/ x \in queue
                            \/ /\ worker[w].step # "idle"
                               /\ IsCopyOf(x, worker[w].message)
       /\ \A x \in queue \ queue' : state.step \in Active /\ state.message = x
       /\ state.step # "idle" =>
              \/ /\ worker[w].step # "idle"
                 /\ state.message = worker[w].message
              \/ state.message \in queue
       /\ state.step = "retry" => state.message.retries < MaxRetries
    BY <1>1, <1>11
<1>13. state.step = "saving" =>
           /\ persist'[w].step # "idle"
           /\ persist'[w].key = EffectiveKey(state.message)
           /\ persist'[w].payload = state.message.payload
           /\ persist'[w].origin = state.message.task
    BY <1>3, <1>5, <1>11
<1>14. \A id \in Ids' \ Ids : submissions'[id].origin \in Tasks =>
           \E a \in accepted : /\ a.task = submissions'[id].origin
                               /\ IsRowOf(submissions'[id], a)
    BY <1>6
<1>15. worker[w].step \in Active =>
           \/ state.step \in Active /\ state.message = worker[w].message
           \/ \E copy \in queue' : copy.task = worker[w].message.task
           \/ worker[w].message.task \in gaveUp' \cup dropped'
           \/ \E id \in Ids : IsRowOf(submissions[id], worker[w].message)
    BY <1>1, <1>10, <1>11
<1>16. accepted' = accepted
    BY <1>1
<1>17. RowsStay /\ \A c \in Callers \ {w} : persist'[c] = persist[c]
    BY <1>5
<1>18. /\ state \in WorkerStates
       /\ worker' = [worker EXCEPT ![w] = state]
    BY <1>11
<1> HIDE DEF m
<1> QED
    BY <1>4, <1>8, <1>9, <1>12, <1>13, <1>14, <1>15, <1>16, <1>17, <1>18,
       WorkerMoves

\* A worker that saves leaves its call of _persist_submission.
LEMMA LeavesCall ==
    ASSUME WorkInv, NEW w \in Workers, LeavePersist(w),
           submissions' = submissions, now' = now,
           faults' \in 0 .. MaxFaults
    PROVE  /\ StoreInv'
           /\ \A c \in Callers \ {w} : persist'[c] = persist[c]
<1>1. w \in Callers
    BY AsyncWorkerAssumption
<1>2. StoreInv'
    BY <1>1, HistoriesOK, LeaveKeepsStore DEF LeavePersist
<1> QED BY <1>1, <1>2, HistoriesOK DEF LeavePersist

\* The row a worker is told was saved is the one its message asks for.
LEMMA RowOfMessage ==
    ASSUME WorkInv, NEW w \in Workers, worker[w].step = "saving",
           persist[w].step = "saved"
    PROVE  /\ persist[w].row \in Ids
           /\ persist[w].row \in Nat \ {0}
           /\ IsRowOf(submissions[persist[w].row], worker[w].message)
<1>1. w \in Callers
    BY AsyncWorkerAssumption
<1>2. /\ persist[w].row \in Ids
      /\ submissions[persist[w].row].born = persist[w].key
      /\ submissions[persist[w].row].payload = persist[w].payload
      /\ submissions \in Seq(SubmissionRows)
    BY <1>1 DEF WorkInv, StoreInv, StoreOK, SavedRowIsMine
<1>3. persist[w].row \in Nat \ {0}
    BY <1>2 DEF Ids
<1> QED BY <1>2, <1>3 DEF WorkInv, WorkersSaveTheirMessage, IsRowOf

LEMMA ProcessedKeepsWork ==
    ASSUME UnboundedIds, WorkInv, NEW w \in Workers, RecordProcessed(w)
    PROVE  WorkInv'
<1> DEFINE m == worker[w].message
           row == persist[w].row
<1>1. /\ worker[w].step = "saving"
      /\ persist[w].step = "saved"
      /\ NowDoing(w, "ack")
      /\ TryRecord(m.task, Processed(m.retries, row))
      /\ LeavePersist(w)
      /\ submissions' = submissions /\ UNCHANGED broker
      /\ ready' = ready /\ gaveUp' = gaveUp /\ dropped' = dropped
    BY DEF RecordProcessed
<1>2. /\ m.task \in Tasks
      /\ m.retries \in 0 .. MaxRetries
      /\ \E a \in accepted : IsCopyOf(m, a)
    BY <1>1, BusyWorker
<1>3. row \in Ids /\ row \in Nat \ {0} /\ IsRowOf(submissions[row], m)
    BY <1>1, RowOfMessage
<1> HIDE DEF m, row
<1>4. /\ Processed(m.retries, row) \in WriteRows
      /\ Processed(m.retries, row).submission = row
    BY <1>2, <1>3, CallSites DEF UnboundedIds, Processed, Row
<1>5. /\ taskStatus' \in TaskTable /\ KeepsWord
      /\ now' = now /\ faults' \in 0 .. MaxFaults
      /\ unrecorded' \subseteq Tasks
      /\ \A u \in Tasks : taskStatus'[u].status = "processed" =>
            \/ taskStatus[u].status = "processed"
            \/ u = m.task /\ taskStatus'[u].submission = row
    BY <1>1, <1>2, <1>4, TryToRecord
<1>6. \E a \in accepted : a.task = m.task /\ IsRowOf(submissions[row], a)
    BY <1>2, <1>3, CopiesAgree DEF IsCopyOf
<1>7. \A u \in Tasks : taskStatus'[u].status = "processed" =>
          \/ taskStatus[u].status = "processed"
          \/ \E a \in accepted :
                /\ a.task = u
                /\ taskStatus'[u].submission \in Ids
                /\ IsRowOf(submissions[taskStatus'[u].submission], a)
    BY <1>3, <1>5, <1>6
<1>8. StoreInv' /\ \A c \in Callers \ {w} : persist'[c] = persist[c]
    BY <1>1, <1>5, LeavesCall
<1>9. \E id \in Ids : IsRowOf(submissions[id], worker[w].message)
    BY <1>3 DEF m
<1> QED
    BY <1>1, <1>5, <1>7, <1>8, <1>9, HistoriesOK, Proceeds

LEMMA RetryingKeepsWork ==
    ASSUME WorkInv, NEW w \in Workers, RecordRetrying(w)
    PROVE  WorkInv'
<1> DEFINE m == worker[w].message
<1>1. /\ worker[w].step = "saving"
      /\ NowDoing(w, "retry")
      /\ m.retries < MaxRetries
      /\ TryRecord(m.task, Retrying(m.retries))
      /\ LeavePersist(w)
      /\ submissions' = submissions /\ UNCHANGED broker
      /\ ready' = ready /\ gaveUp' = gaveUp /\ dropped' = dropped
    BY DEF RecordRetrying, WillAutoretry
<1>2. m.task \in Tasks /\ m.retries \in 0 .. MaxRetries
    BY <1>1, BusyWorker
<1> HIDE DEF m
<1>3. /\ Retrying(m.retries) \in WriteRows
      /\ Retrying(m.retries).status = "retrying"
    BY <1>2, CallSites DEF Retrying, Row
<1>4. /\ taskStatus' \in TaskTable /\ KeepsWord
      /\ now' = now /\ faults' \in 0 .. MaxFaults
      /\ unrecorded' \subseteq Tasks
      /\ \A u \in Tasks : taskStatus'[u].status = "processed" =>
            taskStatus[u].status = "processed"
    BY <1>1, <1>2, <1>3, TryToRecord
<1>5. StoreInv' /\ \A c \in Callers \ {w} : persist'[c] = persist[c]
    BY <1>1, <1>4, LeavesCall
<1>6. worker[w].message.retries < MaxRetries /\ "retry" \in Active
    BY <1>1 DEF m, Active
<1> QED
    BY <1>1, <1>4, <1>5, <1>6, HistoriesOK, Proceeds

LEMMA FailureKeepsWork ==
    ASSUME WorkInv, NEW w \in Workers, RecordFailure(w)
    PROVE  WorkInv'
<1> DEFINE m == worker[w].message
<1>1. /\ worker[w].step = "saving"
      /\ NowDoing(w, "ack")
      /\ TryRecord(m.task, Verdict(w))
      /\ gaveUp' = gaveUp \cup {m.task}
      /\ LeavePersist(w)
      /\ submissions' = submissions /\ UNCHANGED broker
      /\ ready' = ready /\ dropped' = dropped
    BY DEF RecordFailure
<1>2. m.task \in Tasks /\ m.retries \in 0 .. MaxRetries
    BY <1>1, BusyWorker
<1>3. Verdict(w) \in WriteRows /\ Verdict(w).status \in {"conflict", "failed"}
    <2>1. /\ Conflict(m.retries) \in WriteRows
          /\ Failed(m.retries, "IntegrityError") \in WriteRows
          /\ Failed(m.retries, "OperationalError") \in WriteRows
        BY <1>2, CallSites DEF Errors
    <2>2. /\ Conflict(m.retries).status = "conflict"
          /\ Failed(m.retries, "IntegrityError").status = "failed"
          /\ Failed(m.retries, "OperationalError").status = "failed"
        BY DEF Conflict, Failed, Row
    <2>3. Verdict(w) \in {Conflict(m.retries),
                          Failed(m.retries, "IntegrityError"),
                          Failed(m.retries, "OperationalError")}
        BY DEF Verdict
    <2> HIDE DEF m
    <2> QED BY <2>1, <2>2, <2>3
<1>4. /\ taskStatus' \in TaskTable /\ KeepsWord
      /\ now' = now /\ faults' \in 0 .. MaxFaults
      /\ unrecorded' \subseteq Tasks
      /\ \A u \in Tasks : taskStatus'[u].status = "processed" =>
            taskStatus[u].status = "processed"
    BY <1>1, <1>2, <1>3, TryToRecord
<1>5. StoreInv' /\ \A c \in Callers \ {w} : persist'[c] = persist[c]
    BY <1>1, <1>4, LeavesCall
<1>6. /\ gaveUp \subseteq gaveUp' /\ gaveUp' \subseteq Tasks
      /\ worker[w].message.task \in gaveUp'
    BY <1>1, <1>2, HistoriesOK
<1> HIDE DEF m
<1> QED
    BY <1>1, <1>4, <1>5, <1>6, HistoriesOK, Proceeds

LEMMA RetryKeepsWork ==
    ASSUME WorkInv, NEW w \in Workers, Retry(w)
    PROVE  WorkInv'
<1> DEFINE m == worker[w].message
           again == [m EXCEPT !.retries = @ + 1]
           state == [worker[w] EXCEPT !.step = "ack"]
<1>1. /\ worker[w].step = "retry"
      /\ NowDoing(w, "ack")
      /\ queue' = queue \cup {again} /\ accepted' = accepted
      /\ taskStatus' = taskStatus
      /\ submissions' = submissions /\ persist' = persist
      /\ UNCHANGED store
      /\ now' = now /\ faults' = faults
      /\ ready' = ready /\ gaveUp' = gaveUp
      /\ unrecorded' = unrecorded /\ dropped' = dropped
    BY DEF Retry, Put, environment, store, histories
<1>2. /\ m \in Messages
      /\ m.retries \in 0 .. MaxRetries
      /\ m.retries < MaxRetries
    BY <1>1, BusyWorker DEF WorkInv, WorkersSaveTheirMessage
<1>3. again \in Messages /\ IsCopyOf(again, m) /\ again.task = m.task
    BY <1>2, TaskRowsAssumption DEF Messages, IsCopyOf
<1>4. /\ state \in WorkerStates
      /\ state.step = "ack"
      /\ state.message = m
      /\ worker' = [worker EXCEPT ![w] = state]
    BY <1>1, GoesToStep
<1>5. StoreInv'
    BY <1>1, HistoriesOK, StoreRests
<1>6. /\ queue' \subseteq Messages
      /\ again \in queue'
      /\ \A x \in queue' : x \in queue \/ x = again
      /\ \A x \in queue \ queue' : FALSE
    BY <1>1, <1>3 DEF WorkInv, BrokerOK
<1> HIDE DEF state, again
<1>7. /\ \A x \in queue' : \/ x \in queue
                           \/ /\ worker[w].step # "idle"
                              /\ IsCopyOf(x, worker[w].message)
      /\ \E copy \in queue' : copy.task = worker[w].message.task
    BY <1>1, <1>3, <1>6
<1>8. RowsStay /\ Ids' = Ids
    BY <1>1, RowsStand
<1>9. /\ ready' \in [Workers -> BOOLEAN]
      /\ gaveUp \subseteq gaveUp' /\ gaveUp' \subseteq Tasks
      /\ dropped \subseteq dropped' /\ dropped' \subseteq Tasks
      /\ unrecorded' \subseteq Tasks
    BY <1>1, HistoriesOK
<1> HIDE DEF m
<1> QED
    BY <1>1, <1>4, <1>5, <1>6, <1>7, <1>8, <1>9, TableStands, WorkerMoves DEF m

LEMMA RetryLostKeepsWork ==
    ASSUME WorkInv, NEW w \in Workers, RetryLost(w)
    PROVE  WorkInv'
<1> DEFINE m == worker[w].message
<1>1. /\ worker[w].step = "retry"
      /\ NowDoing(w, "ack")
      /\ dropped' = dropped \cup {m.task}
      /\ taskStatus' = taskStatus
      /\ submissions' = submissions /\ persist' = persist
      /\ UNCHANGED store /\ UNCHANGED broker
      /\ now' = now /\ faults' \in 0 .. MaxFaults
      /\ ready' = ready /\ gaveUp' = gaveUp
      /\ unrecorded' = unrecorded
    BY HistoriesOK, EnvironmentAssumption DEF RetryLost, Fault, store
<1>2. m.task \in Tasks
    BY <1>1, BusyWorker
<1>3. StoreInv'
    BY <1>1, HistoriesOK, StoreRests
<1>4. /\ dropped \subseteq dropped' /\ dropped' \subseteq Tasks
      /\ worker[w].message.task \in dropped'
    BY <1>1, <1>2, HistoriesOK
<1> HIDE DEF m
<1> QED
    BY <1>1, <1>3, <1>4, HistoriesOK, TableStands, Proceeds

LEMMA AckKeepsWork ==
    ASSUME WorkInv, NEW w \in Workers, Ack(w)
    PROVE  WorkInv'
<1>1. /\ worker[w].step = "ack"
      /\ worker' = [worker EXCEPT ![w] = Waiting]
      /\ queue' = queue /\ accepted' = accepted
      /\ taskStatus' = taskStatus
      /\ submissions' = submissions /\ persist' = persist
      /\ UNCHANGED store
      /\ now' = now /\ faults' = faults
      /\ ready' = ready /\ gaveUp' = gaveUp
      /\ unrecorded' = unrecorded /\ dropped' = dropped
    BY DEF Ack, environment, broker, store, histories
<1>2. Waiting \in WorkerStates /\ Waiting.step = "idle"
    BY DEF WorkerStates, Waiting
<1>3. StoreInv'
    BY <1>1, HistoriesOK, StoreRests
<1>4. RowsStay /\ Ids' = Ids
    BY <1>1, RowsStand
<1>5. queue' \subseteq Messages /\ "ack" \notin Active
    BY <1>1 DEF WorkInv, BrokerOK, Active
<1> QED
    BY <1>1, <1>2, <1>3, <1>4, <1>5, HistoriesOK, TableStands, WorkerMoves

LEMMA CrashKeepsWork ==
    ASSUME WorkInv, NEW w \in Workers, Crash(w)
    PROVE  WorkInv'
<1> DEFINE m == worker[w].message
<1>1. /\ worker[w].step # "idle"
      /\ worker' = [worker EXCEPT ![w] = Waiting]
      /\ queue' = queue \cup {m} /\ accepted' = accepted
      /\ persist' = [persist EXCEPT ![w] = NotSaving]
      /\ ready' = [ready EXCEPT ![w] = FALSE]
      /\ taskStatus' = taskStatus /\ submissions' = submissions
      /\ now' = now /\ faults' \in 0 .. MaxFaults
      /\ gaveUp' = gaveUp /\ unrecorded' = unrecorded /\ dropped' = dropped
    BY HistoriesOK, EnvironmentAssumption DEF Crash, CrashWith, Fault, histories
<1>2. m \in Messages /\ w \in Callers /\ IsCopyOf(m, m)
    BY <1>1, BusyWorker DEF IsCopyOf
<1>3. Waiting \in WorkerStates /\ Waiting.step = "idle"
    BY DEF WorkerStates, Waiting
<1>4. StoreInv' /\ \A c \in Callers \ {w} : persist'[c] = persist[c]
    BY <1>1, <1>2, HistoriesOK, LeaveKeepsStore
<1>5. RowsStay /\ Ids' = Ids
    BY <1>1, RowsStand
<1>6. /\ queue' \subseteq Messages
      /\ \A x \in queue' : \/ x \in queue
                           \/ /\ worker[w].step # "idle"
                              /\ IsCopyOf(x, worker[w].message)
      /\ \A x \in queue \ queue' : FALSE
      /\ \E copy \in queue' : copy.task = worker[w].message.task
    BY <1>1, <1>2 DEF WorkInv, BrokerOK
<1>7. /\ ready' \in [Workers -> BOOLEAN]
      /\ gaveUp \subseteq gaveUp' /\ gaveUp' \subseteq Tasks
      /\ dropped \subseteq dropped' /\ dropped' \subseteq Tasks
      /\ unrecorded' \subseteq Tasks
    BY <1>1, HistoriesOK
<1> HIDE DEF m
<1> QED
    BY <1>1, <1>3, <1>4, <1>5, <1>6, <1>7, TableStands, WorkerMoves

LEMMA RedeliverKeepsWork ==
    ASSUME WorkInv, NEW w \in Workers, Redeliver(w)
    PROVE  WorkInv'
<1> DEFINE m == worker[w].message
           state == worker[w]
<1>1. /\ worker[w].step # "idle"
      /\ worker' = worker
      /\ queue' = queue \cup {m} /\ accepted' = accepted
      /\ taskStatus' = taskStatus
      /\ submissions' = submissions /\ persist' = persist
      /\ UNCHANGED store
      /\ now' = now /\ faults' \in 0 .. MaxFaults
      /\ ready' = ready /\ gaveUp' = gaveUp
      /\ unrecorded' = unrecorded /\ dropped' = dropped
    BY HistoriesOK, EnvironmentAssumption
    DEF Redeliver, Put, Fault, store, workers, histories
<1>2. /\ m \in Messages /\ IsCopyOf(m, m)
      /\ state \in WorkerStates
      /\ worker' = [worker EXCEPT ![w] = state]
    BY <1>1, BusyWorker DEF IsCopyOf, WorkInv, WorkersOK
<1>3. StoreInv'
    BY <1>1, HistoriesOK, StoreRests
<1>4. RowsStay /\ Ids' = Ids
    BY <1>1, RowsStand
<1>5. /\ queue' \subseteq Messages
      /\ \A x \in queue' : \/ x \in queue
                           \/ /\ worker[w].step # "idle"
                              /\ IsCopyOf(x, worker[w].message)
      /\ \A x \in queue \ queue' : FALSE
      /\ \E copy \in queue' : copy.task = worker[w].message.task
    BY <1>1, <1>2 DEF WorkInv, BrokerOK
<1>6. /\ state.message = worker[w].message
      /\ state.step = "saving" =>
            /\ persist'[w].step # "idle"
            /\ persist'[w].key = EffectiveKey(state.message)
            /\ persist'[w].payload = state.message.payload
            /\ persist'[w].origin = state.message.task
      /\ state.step = "retry" => state.message.retries < MaxRetries
    BY <1>1 DEF WorkInv, WorkersSaveTheirMessage
<1>7. /\ ready' \in [Workers -> BOOLEAN]
      /\ gaveUp \subseteq gaveUp' /\ gaveUp' \subseteq Tasks
      /\ dropped \subseteq dropped' /\ dropped' \subseteq Tasks
      /\ unrecorded' \subseteq Tasks
    BY <1>1, HistoriesOK
<1> HIDE DEF m, state
<1> QED
    BY <1>1, <1>2, <1>3, <1>4, <1>5, <1>6, <1>7, TableStands, WorkerMoves

\* The steps of a worker that write a status.
Records(w) ==
    BeginTask(w) \/ RecordProcessed(w) \/ RecordRetrying(w) \/ RecordFailure(w)

LEMMA WorkersRecord ==
    ASSUME UnboundedIds, WorkInv, NEW w \in Workers, Records(w)
    PROVE  /\ worker[w].step # "idle"
           /\ worker[w].message.task \in Tasks
           /\ \E write \in WriteRows : TryRecord(worker[w].message.task, write)
<1>1. worker[w].step # "idle"
    BY DEF Records, BeginTask, RecordProcessed, RecordRetrying, RecordFailure
<1>2. /\ worker[w].message.retries \in 0 .. MaxRetries
      /\ worker[w].message.task \in Tasks
    BY <1>1, BusyWorker
<1>3. CASE BeginTask(w)
    BY <1>1, <1>2, <1>3, CallSites DEF BeginTask
<1>4. CASE RecordProcessed(w)
    BY <1>1, <1>2, <1>4, RowOfMessage, CallSites
    DEF RecordProcessed, UnboundedIds
<1>5. CASE RecordRetrying(w)
    BY <1>1, <1>2, <1>5, CallSites DEF RecordRetrying
<1>6. CASE RecordFailure(w)
    BY <1>1, <1>2, <1>6, CallSites DEF RecordFailure, Verdict, Errors
<1> QED BY <1>3, <1>4, <1>5, <1>6 DEF Records

LEMMA RecordersKeepWord ==
    ASSUME UnboundedIds, WorkInv, NEW w \in Workers, Records(w)
    PROVE  KeepsWord
    BY WorkersRecord, TryToRecord

\* Whatever a worker does, or is done to it.
WorkerMayMove(w) == WorkerStep(w) \/ Crash(w) \/ Redeliver(w)

LEMMA WorkerKeepsWork ==
    ASSUME UnboundedIds, WorkInv, NEW w \in Workers, WorkerMayMove(w)
    PROVE  WorkInv'
    BY DeliverKeepsWork, BeginKeepsWork, NotReadyKeepsWork, SaveKeepsWork,
       ProcessedKeepsWork, RetryingKeepsWork, FailureKeepsWork,
       RetryKeepsWork, RetryLostKeepsWork, AckKeepsWork, CrashKeepsWork,
       RedeliverKeepsWork
    DEF WorkerMayMove, WorkerStep

\* It saves on behalf of its task, and of nobody else; statuses keep their word.
LEMMA WorkerSavesForItsTask ==
    ASSUME UnboundedIds, WorkInv, NEW w \in Workers, WorkerMayMove(w)
    PROVE  /\ RowsStay
           /\ \A id \in Ids' \ Ids : submissions'[id].origin \in Tasks
           /\ accepted' = accepted
           /\ KeepsWord
<1>1. CASE SaveStep(w)
    <2>1. /\ worker[w].step = "saving" /\ PersistStep(w)
          /\ taskStatus' = taskStatus /\ accepted' = accepted
        BY <1>1 DEF SaveStep, broker
    <2>2. persist[w].origin = worker[w].message.task
        BY <2>1 DEF WorkInv, WorkersSaveTheirMessage
    <2>3. w \in Callers /\ worker[w].message.task \in Tasks
        BY <2>1, BusyWorker
    <2> QED
        BY <2>1, <2>2, <2>3, HistoriesOK, PersistStepAdds, TableStands
        DEF RowsStay
<1>2. CASE ~SaveStep(w)
    <2>1. submissions' = submissions /\ accepted' = accepted
        BY <1>2
        DEF WorkerMayMove, WorkerStep, Deliver, BeginTask, DatabaseNotReady,
            RecordProcessed, RecordRetrying, RecordFailure, Retry, RetryLost,
            Ack, Crash, CrashWith, Redeliver, Take, Put, broker, store
    <2>2. KeepsWord
        <3>1. CASE taskStatus' = taskStatus
            BY <3>1, TableStands
        <3>2. CASE Records(w)
            BY <3>2, RecordersKeepWord
        <3> QED
            BY <1>2, <3>1, <3>2
            DEF WorkerMayMove, WorkerStep, Records, Deliver, DatabaseNotReady,
                Retry, RetryLost, Ack, Crash, CrashWith, Redeliver
    <2> QED BY <2>1, <2>2, RowsStand
<1> QED BY <1>1, <1>2

\* A worker that records a status tells of the run it is in, or loses the write.
LEMMA RecordersTell ==
    ASSUME UnboundedIds, WorkInv, QueuedMeansWaiting, NEW w \in Workers,
           Records(w)
    PROVE  QueuedMeansWaiting'
<1> DEFINE task == worker[w].message.task
<1>1. task \in Tasks /\ w \in Callers
    BY WorkersRecord, AsyncWorkerAssumption
<1>2. PICK write \in WriteRows : TryRecord(task, write)
    BY WorkersRecord
<1>3. /\ \A v \in Workers \ {w} : worker'[v] = worker[v] /\ persist'[v] = persist[v]
      /\ worker[w].step # "idle"
      /\ worker'[w].message = worker[w].message
      /\ submissions' = submissions /\ queue' = queue
      /\ gaveUp' \subseteq gaveUp \cup {task}
    <2>1. \E step \in {"saving", "retry", "ack"} : NowDoing(w, step)
        BY DEF Records, BeginTask, RecordProcessed, RecordRetrying,
               RecordFailure
    <2>2. /\ \A v \in Workers \ {w} : worker'[v] = worker[v]
          /\ worker'[w].message = worker[w].message
        BY <2>1, WorkersRecord, GoesToStep DEF WorkInv, WorkersOK
    <2>3. /\ \E call : persist' = [persist EXCEPT ![w] = call]
          /\ submissions' = submissions /\ queue' = queue
          /\ gaveUp' \subseteq gaveUp \cup {task}
        BY DEF Records, BeginTask, RecordProcessed, RecordRetrying,
               RecordFailure, StartPersist, LeavePersist, broker
    <2> QED BY <2>2, <2>3, WorkersRecord, AsyncWorkerAssumption, HistoriesOK
<1>4. ASSUME NEW t \in Tasks \ {task}, HasRun(t)'
      PROVE  HasRun(t)
    BY <1>3, <1>4 DEF HasRun, IsRun, AtStatement, Ids
<1>5. /\ \A t \in Tasks \ {task} : taskStatus'[t] = taskStatus[t]
      /\ unrecorded \subseteq unrecorded'
      /\ \/ task \in unrecorded'
         \/ taskStatus'[task].status \notin {"absent", "queued"}
    <2>1. CASE RecordTaskStatus(task, write) /\ UNCHANGED unrecorded
        <3>1. taskStatus \in TaskTable /\ taskStatus[task] \in Rows
            BY <1>1 DEF WorkInv, TaskTable
        <3>2. Recorded(taskStatus[task], write).status
                  \notin {"absent", "queued"}
            BY <3>1
            DEF Rows, WriteRows, Recorded, MayUpdate, IsTerminal, Updated,
                Inserted, TERMINAL_TASK_STATUSES
        <3> QED BY <1>1, <2>1, <3>1, <3>2 DEF RecordTaskStatus, TaskTable
    <2>2. CASE UNCHANGED taskStatus /\ unrecorded' = unrecorded \cup {task}
        BY <2>2
    <2> QED BY <1>2, <2>1, <2>2 DEF TryRecord
<1> HIDE DEF task
<1> QED BY <1>4, <1>5 DEF QueuedMeansWaiting

\* Nothing else a worker does, or is done to it, begins a run.
LEMMA OthersBeginNoRun ==
    ASSUME WorkInv, NEW w \in Workers, WorkerMayMove(w), ~Records(w),
           NEW t \in Tasks, HasRun(t)'
    PROVE  HasRun(t)
<1>1. w \in Callers /\ persist \in [Callers -> PersistCalls]
      /\ worker \in [Workers -> WorkerStates]
    BY AsyncWorkerAssumption, HistoriesOK DEF WorkInv, WorkersOK
<1>2. CASE SaveStep(w)
    <2>1. /\ worker[w].step = "saving" /\ PersistStep(w)
          /\ worker' = worker /\ queue' = queue /\ gaveUp' = gaveUp
        BY <1>2 DEF SaveStep, broker, workers, histories
    <2>2. /\ RowsStay
          /\ \A id \in Ids' \ Ids : submissions'[id].origin = persist[w].origin
          /\ \A c \in Callers \ {w} : persist'[c] = persist[c]
        BY <1>1, <2>1, HistoriesOK, PersistStepAdds DEF RowsStay
    <2>3. persist[w].origin = worker[w].message.task
        BY <2>1 DEF WorkInv, WorkersSaveTheirMessage
    <2>4. persist[w].step # "unavailable"
        BY <2>1
        DEF PersistStep, FindKey, ReleaseExpiredKey, InsertSubmission,
            InsertRefused, RefindKey, DatabaseFails, InsertedButUnavailable,
            InsertRow, StatementLeft, AtStatement
    <2>5. IsRun(w, worker[w].message.task)
        BY <2>1, <2>4 DEF IsRun, AtStatement
    <2>6. CASE t = worker[w].message.task
        BY <2>5, <2>6 DEF HasRun
    <2>7. CASE t # worker[w].message.task
        <3>1. ASSUME NEW id \in Ids', submissions'[id].origin = t
              PROVE  HasRun(t)
            BY <2>2, <2>3, <2>7, <3>1 DEF HasRun, RowsStay
        <3>2. ASSUME NEW v \in Workers, IsRun(v, t)'
              PROVE  HasRun(t)
            BY <2>1, <2>2, <2>7, <3>2, AsyncWorkerAssumption
            DEF HasRun, IsRun, AtStatement
        <3> QED BY <2>1, <3>1, <3>2 DEF HasRun
    <2> QED BY <2>6, <2>7
<1>3. CASE Deliver(w)
    <2>1. PICK m \in queue : worker' = [worker EXCEPT ![w] =
                                 [step |-> "received", message |-> m]]
        BY <1>3 DEF Deliver
    <2>2. /\ queue' \subseteq queue
          /\ gaveUp' = gaveUp /\ submissions' = submissions
          /\ persist' = persist
        BY <1>3 DEF Deliver, Take, histories, store
    <2>3. /\ worker'[w].message = m /\ worker'[w].step = "received"
          /\ \A v \in Workers \ {w} : worker'[v] = worker[v]
        BY <1>1, <2>1
    <2> QED BY <2>2, <2>3 DEF HasRun, IsRun, AtStatement, Ids
<1>4. CASE DatabaseNotReady(w)
    <2>1. /\ worker[w].step = "received"
          /\ NowDoing(w, "saving")
          /\ persist'[w].step = "unavailable"
          /\ \A c \in Callers \ {w} : persist'[c] = persist[c]
          /\ queue' = queue /\ gaveUp' = gaveUp /\ submissions' = submissions
        BY <1>1, <1>4 DEF DatabaseNotReady, broker, histories
    <2>2. /\ worker'[w].message = worker[w].message
          /\ worker'[w].step = "saving"
          /\ \A v \in Workers \ {w} : worker'[v] = worker[v]
        BY <1>1, <2>1, GoesToStep
    <2> QED
        BY <2>1, <2>2, AsyncWorkerAssumption DEF HasRun, IsRun, AtStatement, Ids
<1>5. CASE Retry(w) \/ RetryLost(w)
    <2>1. /\ worker[w].step = "retry"
          /\ gaveUp' = gaveUp /\ submissions' = submissions
          /\ persist' = persist
          /\ NowDoing(w, "ack")
          /\ \A m \in queue' :
                m \in queue \/ m.task = worker[w].message.task
        <3>1. worker[w].step = "retry" => worker[w].message \in Messages
            BY BusyWorker
        <3> QED
            BY <1>5, <3>1
            DEF Retry, RetryLost, Put, store, broker, histories, Messages
    <2>2. /\ worker'[w].message = worker[w].message
          /\ \A v \in Workers \ {w} : worker'[v] = worker[v]
        BY <1>1, <2>1, GoesToStep
    <2>3. IsRun(w, worker[w].message.task)
        BY <2>1 DEF IsRun
    <2>4. CASE t = worker[w].message.task
        BY <2>3, <2>4 DEF HasRun
    <2>5. CASE t # worker[w].message.task
        BY <2>1, <2>2, <2>5 DEF HasRun, IsRun, AtStatement, Ids
    <2> QED BY <2>4, <2>5
<1>6. CASE Ack(w) \/ Crash(w)
    <2>1. /\ worker[w].step # "idle"
          /\ worker' = [worker EXCEPT ![w] = Waiting]
          /\ gaveUp' = gaveUp /\ submissions' = submissions
          /\ \A c \in Callers \ {w} : persist'[c] = persist[c]
          /\ queue' \subseteq queue \cup {worker[w].message}
        BY <1>1, <1>6 DEF Ack, Crash, CrashWith, store, broker, histories
    <2>2. /\ worker'[w].step = "idle"
          /\ \A v \in Workers \ {w} : worker'[v] = worker[v]
        BY <1>1, <2>1 DEF Waiting
    <2> QED
        BY <2>1, <2>2, AsyncWorkerAssumption DEF HasRun, IsRun, AtStatement, Ids
<1>7. CASE Redeliver(w)
    <2>1. /\ worker[w].step # "idle"
          /\ worker' = worker /\ gaveUp' = gaveUp
          /\ submissions' = submissions /\ persist' = persist
          /\ queue' = queue \cup {worker[w].message}
        BY <1>7 DEF Redeliver, Put, store, workers, histories
    <2> QED BY <2>1 DEF HasRun, IsRun, AtStatement, Ids
<1> QED
    BY <1>2, <1>3, <1>4, <1>5, <1>6, <1>7
    DEF WorkerMayMove, WorkerStep, Records

LEMMA WorkersTellOfRuns ==
    ASSUME UnboundedIds, WorkInv, QueuedMeansWaiting, NEW w \in Workers,
           WorkerMayMove(w)
    PROVE  QueuedMeansWaiting'
<1>1. CASE Records(w)
    BY <1>1, RecordersTell
<1>2. CASE ~Records(w)
    <2>1. taskStatus' = taskStatus /\ unrecorded' = unrecorded
        BY <1>2
        DEF WorkerMayMove, WorkerStep, Records, Deliver, DatabaseNotReady,
            SaveStep, Retry, RetryLost, Ack, Crash, CrashWith, Redeliver,
            workers, histories
    <2>2. \A t \in Tasks : HasRun(t)' => HasRun(t)
        BY <1>2, OthersBeginNoRun
    <2> QED BY <2>1, <2>2 DEF QueuedMeansWaiting
<1> QED BY <1>1, <1>2

\* Whoever else moves begins no run, and takes no status back to "queued".
LEMMA OthersTellOfRuns ==
    ASSUME WorkInv, QueuedMeansWaiting, UNCHANGED workers, RowsStay, KeepsWord,
           \A w \in Workers : persist'[w] = persist[w],
           \A id \in Ids' \ Ids : submissions'[id].origin \notin Tasks,
           \A m \in queue' \ queue : m.retries = 0
    PROVE  QueuedMeansWaiting'
<1>1. worker' = worker /\ gaveUp' = gaveUp /\ unrecorded' = unrecorded
    BY DEF workers, histories
<1>2. ASSUME NEW t \in Tasks, HasRun(t)'
      PROVE  HasRun(t)
    <2>1. ASSUME NEW id \in Ids', submissions'[id].origin = t
          PROVE  HasRun(t)
        BY <2>1 DEF HasRun, RowsStay
    <2>2. ASSUME NEW m \in queue', m.task = t, m.retries > 0
          PROVE  HasRun(t)
        BY <2>2 DEF HasRun
    <2>3. ASSUME NEW w \in Workers, IsRun(w, t)'
          PROVE  HasRun(t)
        BY <1>1, <2>3 DEF HasRun, IsRun, AtStatement
    <2> QED BY <1>1, <1>2, <2>1, <2>2, <2>3 DEF HasRun
<1> QED BY <1>1, <1>2 DEF QueuedMeansWaiting, KeepsWord

LEMMA RunsBegin ==
    ASSUME InitStore, InitTaskTable, InitBroker, InitWorkers
    PROVE  QueuedMeansWaiting
<1>1. Ids = {}
    BY DEF InitStore, Ids
<1> QED
    BY <1>1
    DEF QueuedMeansWaiting, HasRun, IsRun, InitBroker, InitWorkers, Waiting

LEMMA NothingIsLost == WorkInv => NoAcceptedTaskLost
    BY DEF WorkInv, NothingForgotten, NoAcceptedTaskLost

\* Rows of one task are rows of one message, so they have one key.
LEMMA TasksSaveOnce ==
    ASSUME WorkInv, NEW i \in Ids, NEW j \in Ids, i < j,
           submissions[i].origin \in Tasks,
           submissions[i].origin = submissions[j].origin
    PROVE  submissions[i].created + TTL <= submissions[j].created
<1>1. PICK a \in accepted : /\ a.task = submissions[i].origin
                            /\ IsRowOf(submissions[i], a)
    BY DEF WorkInv, TasksSaveTheirMessage
<1>2. PICK b \in accepted : /\ b.task = submissions[j].origin
                            /\ IsRowOf(submissions[j], b)
    BY DEF WorkInv, TasksSaveTheirMessage
<1>3. a = b
    BY <1>1, <1>2 DEF WorkInv, OneMessagePerTask
<1>4. EffectiveKey(a) # NoKey
    <2>1. a.task \in Keys
        BY AsyncWorkerAssumption DEF WorkInv, BrokerOK, Messages
    <2> QED BY <2>1, RequestDataAssumption DEF EffectiveKey
<1>5. submissions[i].born = submissions[j].born /\ submissions[i].born # NoKey
    BY <1>1, <1>2, <1>3, <1>4 DEF IsRowOf
<1> QED BY <1>5 DEF WorkInv, StoreInv, OneRowPerKeyWithinTtl

-----------------------------------------------------------------------------
\* Workers use the store as IdempotentStore expects of its callers.

LEMMA CallsOfWorkersStay ==
    ASSUME WorkersCallToSave, NEW w \in Workers,
           \A v \in Workers \ {w} : /\ worker'[v] = worker[v]
                                    /\ persist'[v] = persist[v],
           worker'[w].step # "saving" => persist'[w].step = "idle"
    PROVE  WorkersCallToSave'
    BY DEF WorkersCallToSave

LEMMA WorkersKeepPromise ==
    ASSUME WorkInv, WorkersCallToSave, NEW w \in Workers,
           WorkerStep(w) \/ Crash(w) \/ Redeliver(w)
    PROVE  KeepsPromise /\ WorkersCallToSave'
<1>1. /\ w \in Callers
      /\ StoreInv
      /\ persist \in [Callers -> PersistCalls]
      /\ worker \in [Workers -> WorkerStates]
      /\ Workers \subseteq Callers
      /\ worker[w].step \notin {"saving"} => persist[w].step = "idle"
    BY AsyncWorkerAssumption
    DEF WorkInv, WorkersOK, StoreInv, StoreOK, WorkersCallToSave
<1>2. NotSaving.step = "idle" /\ Waiting.step = "idle"
    BY DEF NotSaving, Waiting
<1>3. ASSUME NEW step, worker[w].step # "idle", NowDoing(w, step)
      PROVE  /\ worker'[w].step = step
             /\ \A v \in Workers \ {w} : worker'[v] = worker[v]
    <2>1. worker[w] \in [step : {"received", "saving", "retry", "ack"},
                         message : Messages]
        BY <1>3, BusyWorker
    <2> QED BY <1>1, <1>3, <2>1 DEF NowDoing
<1>4. CASE BeginTask(w)
    <2> DEFINE m == worker[w].message
    <2>1. worker[w].step # "idle"
        BY <1>4 DEF BeginTask
    <2>2. /\ m.task \in Origins /\ m.payload \in Payloads
          /\ EffectiveKey(m) \in MaybeKeys
        BY <2>1, BusyWorker
    <2>3. /\ StartPersist(w, EffectiveKey(m), m.payload, m.task)
          /\ submissions' = submissions /\ now' = now
          /\ NowDoing(w, "saving")
        BY <1>4 DEF BeginTask, TryRecord, Fault, NoFault, environment
    <2> HIDE DEF m
    <2>4. KeepsPromise
        BY <1>1, <2>2, <2>3, StoreKeepsPromise
    <2>5. \A v \in Workers \ {w} : persist'[v] = persist[v]
        BY <1>1, <2>3 DEF StartPersist
    <2> QED BY <1>3, <2>1, <2>3, <2>4, <2>5, CallsOfWorkersStay
<1>5. CASE DatabaseNotReady(w)
    <2>1. worker[w].step = "received" /\ NowDoing(w, "saving")
        BY <1>5 DEF DatabaseNotReady
    <2>2. PICK call : call.step = "unavailable"
                      /\ persist' = [persist EXCEPT ![w] = call]
        <3> DEFINE call == [step |-> "unavailable",
                            key |-> EffectiveKey(worker[w].message),
                            payload |-> worker[w].message.payload,
                            origin |-> worker[w].message.task, row |-> 0]
        <3>1. call.step = "unavailable"
            OBVIOUS
        <3>2. persist' = [persist EXCEPT ![w] = call]
            BY <1>5 DEF DatabaseNotReady
        <3> QED BY <3>1, <3>2
    <2>3. submissions' = submissions /\ now' = now
        BY <1>5 DEF DatabaseNotReady, Fault
    <2>4. KeepsPromise
        BY <1>1, <2>1, <2>2, <2>3, StoreKeepsPromise
    <2>5. \A v \in Workers \ {w} : persist'[v] = persist[v]
        BY <1>1, <2>2
    <2> QED BY <1>3, <2>1, <2>4, <2>5, CallsOfWorkersStay
<1>6. CASE SaveStep(w)
    <2>1. PersistStep(w) /\ worker' = worker /\ worker[w].step = "saving"
        BY <1>6 DEF SaveStep, workers
    <2>2. now' = now /\ \A v \in Callers \ {w} : persist'[v] = persist[v]
        BY <1>1, <2>1, PersistStepAdds
    <2>3. KeepsPromise
        BY <1>1, <2>1, <2>2, StoreKeepsPromise
    <2> QED BY <1>1, <2>1, <2>2, <2>3, CallsOfWorkersStay
<1>7. CASE RecordProcessed(w) \/ RecordRetrying(w) \/ RecordFailure(w)
    <2>1. /\ LeavePersist(w)
          /\ submissions' = submissions /\ now' = now
          /\ worker[w].step # "idle"
          /\ \E step : NowDoing(w, step)
        BY <1>7
        DEF RecordProcessed, RecordRetrying, RecordFailure, TryRecord, Fault,
            NoFault, environment
    <2>2. /\ persist' = [persist EXCEPT ![w] = NotSaving]
          /\ persist'[w].step = "idle"
          /\ \A v \in Workers \ {w} : persist'[v] = persist[v]
        BY <1>1, <1>2, <2>1 DEF LeavePersist
    <2>3. KeepsPromise
        BY <1>1, <2>1, <2>2, StoreKeepsPromise
    <2> QED BY <1>3, <2>1, <2>2, <2>3, CallsOfWorkersStay
<1>8. CASE Deliver(w) \/ Retry(w) \/ RetryLost(w) \/ Ack(w) \/ Redeliver(w)
    <2>1. UNCHANGED store /\ now' = now
        BY <1>8
        DEF Deliver, Retry, RetryLost, Ack, Redeliver, Fault, environment
    <2>2. KeepsPromise
        BY <2>1, RestIsPromised DEF KeepsPromise
    <2>3. \/ worker' = worker
          \/ /\ worker[w].step # "saving"
             /\ \E state : worker' = [worker EXCEPT ![w] = state]
          \/ worker[w].step = "retry" /\ NowDoing(w, "ack")
        BY <1>8
        DEF Deliver, Retry, RetryLost, Ack, Redeliver, workers
    <2>4. \A v \in Workers \ {w} : worker'[v] = worker[v]
        BY <1>1, <1>3, <2>3
    <2>5. worker' = worker \/ worker[w].step # "saving"
        BY <2>3
    <2>6. persist'[w].step # "idle" => worker' = worker
        BY <1>1, <2>1, <2>5 DEF store
    <2> QED
        BY <1>1, <2>1, <2>2, <2>4, <2>6, CallsOfWorkersStay DEF store
<1>9. CASE Crash(w)
    <2>1. /\ persist' = [persist EXCEPT ![w] = NotSaving]
          /\ submissions' = submissions /\ now' = now
          /\ worker' = [worker EXCEPT ![w] = Waiting]
        BY <1>9 DEF Crash, CrashWith, Fault
    <2>2. /\ persist'[w].step = "idle"
          /\ \A v \in Workers \ {w} : /\ persist'[v] = persist[v]
                                      /\ worker'[v] = worker[v]
        BY <1>1, <1>2, <2>1
    <2>3. KeepsPromise
        BY <1>1, <2>1, StoreKeepsPromise
    <2> QED BY <2>2, <2>3, CallsOfWorkersStay
<1> QED
    BY <1>4, <1>5, <1>6, <1>7, <1>8, <1>9 DEF WorkerStep


-----------------------------------------------------------------------------
\* The table idempotency_claims, and the requests that claim their keys in it.

USE DEF ReqAt, Arrived, Leased, Fingerprint

\* A row is not the absence of a row, and a lease is not the absence of one.
LEMMA RowsAreRows ==
    ASSUME NEW claim \in ClaimRows
    PROVE  claim # NoClaim /\ claim.created # NoLease
<1>1. claim # NoClaim
    <2>1. "created" \in DOMAIN claim
        BY DEF ClaimRows
    <2>2. "created" \notin DOMAIN NoClaim
        BY DEF NoClaim
    <2> QED BY <2>1, <2>2
<1>2. claim.created # NoLease
    BY EnvironmentAssumption DEF ClaimRows, NoLease
<1> QED BY <1>1, <1>2

\* A request that has arrived carries its arguments.
LEMMA ArrivedRequests ==
    ASSUME req \in [Tasks -> Requests], NEW t \in Tasks, Arrived(t)
    PROVE  req[t] \in ActiveRequests
    BY DEF Requests, NotArrived

LEMMA ClaimsBegin ==
    ASSUME InitEnvironment, InitTaskTable, InitBroker, InitDesk
    PROVE  ClaimsInv /\ \A t \in Tasks : ~Arrived(t)
<1> USE DEF InitDesk
<1>1. ClaimsOK
    BY EnvironmentAssumption, TaskRowsAssumption
    DEF InitEnvironment, InitTaskTable, InitBroker, ClaimsOK, EnvironmentOK,
        TaskTable, BrokerOK, DeskOK, Requests, Absent, Row, Rows, NoSubmission,
        NoError
<1>2. \A t \in Tasks : ~Arrived(t)
    BY DEF NotArrived
<1>3. \A k \in Keys : claims[k] = NoClaim
    OBVIOUS
<1> QED
    BY <1>1, <1>2, <1>3
    DEF ClaimsInv, RequestsAreSound, OwnersArrived, ClaimDescribesOwner,
        PastOwnersAreDone, OwnersAreApart, AcceptedAsSent, InitBroker

-----------------------------------------------------------------------------
\* What a request has seen of a claim, once the claims of others have moved on:
\* arguments and leases of requests stay, statuses keep their word, and the
\* clock does not go back.
LEMMA KnowledgeStays ==
    ASSUME ClaimsOK, ClaimsOK', KeepsWord, now <= now', NEW r \in ActiveRequests,
           \A t \in Tasks : Arrived(t) =>
               /\ Arrived(t)'
               /\ req'[t].key = req[t].key
               /\ req'[t].payload = req[t].payload
               /\ Leased(t) => req'[t].lease = req[t].lease
    PROVE  /\ SeenIsTrue(r) => SeenIsTrue(r)'
           /\ RefusalIsFounded(r) => RefusalIsFounded(r)'
<1>1. RefusalIsFounded(r) => RefusalIsFounded(r)'
    BY DEF RefusalIsFounded, RefusedBecauseOf
<1>2. ASSUME SeenIsTrue(r), ActsOnSeen(r)
      PROVE  SeenIsTrue(r)'
    <2> DEFINE t == r.seen.task
    <2>1. r.seen \in ClaimRows
        BY <1>2 DEF ActiveRequests, SeenIsTrue
    <2>2. t \in Tasks /\ r.seen.created \in 0 .. MaxTime
        BY <2>1 DEF ClaimRows
    <2>3. /\ Arrived(t)
          /\ req[t].key = r.key
          /\ Fingerprint(req[t].payload) = r.seen.fingerprint
          /\ req[t].lease = r.seen.created
        BY <1>2 DEF SeenIsTrue
    <2>4. Leased(t)
        BY <2>2, <2>3, EnvironmentAssumption DEF NoLease
    <2>5. IsExpired(r.seen.created) => IsExpired(r.seen.created)'
        BY <2>2, EnvironmentAssumption
        DEF IsExpired, ClaimsOK, EnvironmentOK
    <2>6. \A status \in {"failed", "processed"} :
              taskStatus[t].status = status => taskStatus'[t].status = status
        BY <2>2 DEF KeepsWord, IsTerminal, TERMINAL_TASK_STATUSES
    <2> QED
        BY <1>2, <2>2, <2>3, <2>4, <2>5, <2>6 DEF SeenIsTrue
<1>3. ~ActsOnSeen(r) => SeenIsTrue(r)'
    BY DEF SeenIsTrue, ActsOnSeen
<1> QED BY <1>1, <1>2, <1>3

-----------------------------------------------------------------------------
\* Requests never lose what they were sent, nor their lease.
Grows ==
    \A t \in Tasks : Arrived(t) =>
        /\ Arrived(t)'
        /\ req'[t].key = req[t].key
        /\ req'[t].payload = req[t].payload
        /\ Leased(t) => req'[t].lease = req[t].lease

\* Statuses are written, or time passes.
LEMMA RequestsRest ==
    ASSUME ClaimsInv, ClaimsOK', KeepsWord, now <= now', req' = req, claims' = claims,
           accepted' = accepted
    PROVE  ClaimsInv'
<1> USE DEF ClaimsInv
<1>1. \A t \in Tasks : Arrived(t) =>
          req[t] \in ActiveRequests /\ RequestIsSound(req[t])
    BY ArrivedRequests DEF ClaimsOK, DeskOK, RequestsAreSound
<1>2. \A t \in Tasks : Arrived(t) =>
          RequestIsSound(req[t])' /\ req[t].lease <= now'
    <2> SUFFICES ASSUME NEW t \in Tasks, Arrived(t)
                 PROVE  RequestIsSound(req[t])' /\ req[t].lease <= now'
        OBVIOUS
    <2>1. SeenIsTrue(req[t])' /\ RefusalIsFounded(req[t])'
        BY <1>1, KnowledgeStays DEF RequestIsSound
    <2>2. StepsFollowTheKey(req[t])'
        BY <1>1 DEF RequestIsSound, StepsFollowTheKey
    <2>3. req[t].lease <= now'
        BY <1>1, EnvironmentAssumption
        DEF RequestsAreSound, ActiveRequests, NoLease, ClaimsOK, EnvironmentOK
    <2> QED BY <2>1, <2>2, <2>3 DEF RequestIsSound
<1>3. RequestsAreSound'
    BY <1>2 DEF RequestsAreSound
<1>4. OwnersArrived' /\ ClaimDescribesOwner' /\ AcceptedAsSent'
    BY DEF OwnersArrived, ClaimDescribesOwner, AcceptedAsSent
<1>5. PastOwnersAreDone' /\ OwnersAreApart'
    BY DEF PastOwnersAreDone, OwnersAreApart, KeepsWord, IsTerminal,
           TERMINAL_TASK_STATUSES
<1> QED BY <1>3, <1>4, <1>5

\* One request arrives or moves, and is given no lease; it is enough that it is
\* sound afterwards, and that it publishes what it was sent.
LEMMA NoLeaseGiven ==
    ASSUME ClaimsInv, ClaimsOK', KeepsWord, now' = now, claims' = claims,
           NEW t \in Tasks, NEW call \in ActiveRequests,
           req' = [req EXCEPT ![t] = call],
           Arrived(t) => /\ call.key = req[t].key
                         /\ call.payload = req[t].payload
                         /\ call.lease = req[t].lease,
           ~Arrived(t) => call.lease = NoLease,
           RequestIsSound(call),
           \A m \in accepted' \ accepted :
               /\ m.task = t
               /\ m.key = call.key
               /\ m.key # NoKey => call.lease # NoLease
    PROVE  ClaimsInv'
<1> USE DEF ClaimsInv
<1>1. /\ req'[t] = call
      /\ \A u \in Tasks \ {t} : req'[u] = req[u]
      /\ req \in [Tasks -> Requests]
    BY DEF ClaimsOK, DeskOK
<1>2. call.step # "idle"
    BY DEF ActiveRequests
<1>3. Grows
    BY <1>1, <1>2 DEF Grows
<1>4. now \in 0 .. MaxTime /\ NoLease <= now
    BY EnvironmentAssumption DEF ClaimsOK, EnvironmentOK, NoLease
<1>5. ClaimsOK
    OBVIOUS
<1>6. RequestsAreSound'
    <2> SUFFICES ASSUME NEW u \in Tasks, Arrived(u)'
                 PROVE  RequestIsSound(req[u])' /\ req'[u].lease <= now'
        BY DEF RequestsAreSound
    <2>1. /\ req'[u] \in ActiveRequests
          /\ RequestIsSound(req'[u])
          /\ req'[u].lease <= now
        BY <1>1, <1>2, <1>4, ArrivedRequests DEF RequestsAreSound
    <2> HIDE DEF ClaimsInv
    <2> DEFINE r == req'[u]
    <2>2. SeenIsTrue(req[u])' /\ RefusalIsFounded(req[u])'
        <3>1. SeenIsTrue(r) /\ RefusalIsFounded(r)
            BY <2>1 DEF RequestIsSound
        <3> QED
            BY <1>3, <1>4, <1>5, <2>1, <3>1, KnowledgeStays DEF Grows
    <2>3. StepsFollowTheKey(req[u])'
        BY <2>1 DEF RequestIsSound, StepsFollowTheKey
    <2> QED BY <2>1, <2>2, <2>3 DEF RequestIsSound
<1>7. OwnersArrived' /\ ClaimDescribesOwner'
    BY <1>1, <1>2, <1>3
    DEF OwnersArrived, ClaimDescribesOwner, Grows, ClaimsOK, DeskOK, ClaimRows
<1>8. PastOwnersAreDone' /\ OwnersAreApart'
    BY <1>1, <1>2
    DEF PastOwnersAreDone, OwnersAreApart, KeepsWord, IsTerminal,
        TERMINAL_TASK_STATUSES
<1>9. AcceptedAsSent'
    BY <1>1, <1>2, <1>3 DEF AcceptedAsSent, Grows, ClaimsOK, BrokerOK, Messages
<1> QED BY <1>6, <1>7, <1>8, <1>9

\* A request becomes the owner of its key, by the INSERT or by one of the
\* conditional UPDATEs; it is enough that whoever had the claim is done.
LEMMA LeaseGiven ==
    ASSUME ClaimsInv, UNCHANGED <<environment, taskStatus, broker>>,
           NEW t \in Tasks, Arrived(t), req[t].key \in Keys, ~Leased(t),
           NEW claim \in ClaimRows, BecomeOwner(t, claim),
           claim.task = t, claim.fingerprint = Fingerprint(req[t].payload),
           claim.created <= now,
           \A u \in Tasks :
               Arrived(u) /\ req[u].key = req[t].key /\ Leased(u) =>
                   /\ req[u].lease <= claim.created
                   /\ \/ req[u].lease + TTL <= claim.created
                      \/ taskStatus[u].status = "failed"
    PROVE  ClaimsInv'
<1> DEFINE call == [req[t] EXCEPT !.step = "mark", !.seen = NoClaim,
                                  !.lease = claim.created]
           key == req[t].key
<1> USE DEF ClaimsInv
<1>1. /\ req \in [Tasks -> Requests]
      /\ claims \in [Keys -> ClaimRows \cup {NoClaim}]
      /\ req[t] \in ActiveRequests
    BY ArrivedRequests DEF ClaimsOK, DeskOK
<1>2. /\ call \in ActiveRequests
      /\ call.key = key
      /\ call.payload = req[t].payload
      /\ call.lease = claim.created
      /\ call.step = "mark"
    BY ZenonT(40), <1>1 DEF ActiveRequests, ClaimRows
<1>3. /\ req' = [req EXCEPT ![t] = call]
      /\ claims' = [claims EXCEPT ![key] = claim]
    BY <1>1 DEF BecomeOwner
<1> HIDE DEF call
<1>4. /\ req'[t] = call
      /\ \A u \in Tasks \ {t} : req'[u] = req[u]
      /\ claims'[key] = claim
      /\ \A k \in Keys \ {key} : claims'[k] = claims[k]
    BY <1>1, <1>3
<1>5. now' = now /\ faults' = faults /\ taskStatus' = taskStatus
      /\ queue' = queue /\ accepted' = accepted
    BY DEF environment, broker
<1>6. ClaimsOK'
    BY <1>1, <1>2, <1>3, <1>5
    DEF ClaimsOK, EnvironmentOK, BrokerOK, DeskOK, Requests
<1>7. Grows
    BY <1>2, <1>4 DEF Grows
<1>8. claim # NoClaim /\ claim.created # NoLease
    BY RowsAreRows
<1>9. RequestsAreSound'
    <2> SUFFICES ASSUME NEW u \in Tasks, Arrived(u)'
                 PROVE  RequestIsSound(req[u])' /\ req'[u].lease <= now'
        BY DEF RequestsAreSound
    <2>1. CASE u = t
        <3>1. StepsFollowTheKey(req[u])'
            BY <1>2, <1>4, <1>8, <2>1, RequestDataAssumption
            DEF StepsFollowTheKey
        <3>2. SeenIsTrue(req[u])' /\ RefusalIsFounded(req[u])'
            BY <1>2, <1>4, <2>1 DEF SeenIsTrue, ActsOnSeen, RefusalIsFounded
        <3> QED BY <1>2, <1>4, <1>5, <2>1, <3>1, <3>2 DEF RequestIsSound
    <2>2. CASE u # t
        <3>1. /\ req'[u] = req[u]
              /\ req[u] \in ActiveRequests
              /\ RequestIsSound(req[u])
              /\ req[u].lease <= now
            BY <1>1, <1>4, <2>2, ArrivedRequests DEF RequestsAreSound
        <3>2. ClaimsOK /\ KeepsWord /\ now <= now'
            BY <1>5 DEF KeepsWord, ClaimsOK, EnvironmentOK
        <3>3. SeenIsTrue(req[u])' /\ RefusalIsFounded(req[u])'
            BY <1>6, <1>7, <3>1, <3>2, KnowledgeStays DEF RequestIsSound, Grows
        <3>4. StepsFollowTheKey(req[u])'
            BY <1>4, <1>8, <3>1
            DEF RequestIsSound, StepsFollowTheKey, ActiveRequests
        <3> QED BY <1>5, <3>1, <3>3, <3>4 DEF RequestIsSound
    <2> QED BY <2>1, <2>2
<1>10. OwnersArrived' /\ ClaimDescribesOwner'
    <2>1. ASSUME NEW k \in Keys, claims'[k] # NoClaim
          PROVE  /\ req'[claims'[k].task].step # "idle"
                 /\ req'[claims'[k].task].key = k
                 /\ Fingerprint(req'[claims'[k].task].payload)
                        = claims'[k].fingerprint
                 /\ req'[claims'[k].task].lease = claims'[k].created
        <3>1. CASE k = key
            BY <1>2, <1>4, <3>1
        <3>2. CASE k # key
            <4>1. claims'[k] = claims[k] /\ claims[k].task \in Tasks
                BY <1>1, <1>4, <2>1, <3>2 DEF ClaimRows
            <4>2. claims[k].task # t
                BY <2>1, <3>2, <4>1 DEF ClaimDescribesOwner
            <4> QED
                BY <1>4, <2>1, <4>1, <4>2 DEF OwnersArrived, ClaimDescribesOwner
        <3> QED BY <3>1, <3>2
    <2> QED BY <2>1 DEF OwnersArrived, ClaimDescribesOwner
<1>11. PastOwnersAreDone'
    <2> SUFFICES ASSUME NEW u \in Tasks, Arrived(u)', Leased(u)',
                        claims'[req'[u].key].task # u
                 PROVE  LET claim2 == claims'[req'[u].key]
                        IN  /\ req'[u].lease <= claim2.created
                            /\ \/ req'[u].lease + TTL <= claim2.created
                               \/ taskStatus'[u].status = "failed"
        BY DEF PastOwnersAreDone
    <2>1. u # t
        BY <1>2, <1>4
    <2>2. req'[u] = req[u] /\ req[u] \in ActiveRequests
        BY <1>1, <1>4, <2>1, ArrivedRequests
    <2>3. req[u].key \in Keys
        BY <2>2
        DEF RequestsAreSound, RequestIsSound, StepsFollowTheKey, ActiveRequests
    <2>4. CASE req[u].key = key
        BY <1>4, <1>5, <2>2, <2>4
    <2>5. CASE req[u].key # key
        BY <1>4, <1>5, <2>2, <2>3, <2>5 DEF PastOwnersAreDone
    <2> QED BY <2>4, <2>5
<1>12. OwnersAreApart'
    BY <1>2, <1>4, <1>5 DEF OwnersAreApart
<1>13. AcceptedAsSent'
    BY <1>2, <1>4, <1>5, <1>7
    DEF AcceptedAsSent, Grows, ClaimsOK, BrokerOK, Messages
<1> QED BY <1>6, <1>9, <1>10, <1>11, <1>12, <1>13

-----------------------------------------------------------------------------
\* The actions.

\* A request that has neither seen a claim it acts on nor been refused has
\* nothing to show.
LEMMA PlainRequest ==
    ASSUME NEW r \in ActiveRequests, StepsFollowTheKey(r), ~ActsOnSeen(r),
           r.step = "answered" => r.answer # "mismatch"
    PROVE  RequestIsSound(r)
    BY DEF RequestIsSound, SeenIsTrue, RefusalIsFounded

\* The request that moves does nothing else.
LEMMA OnlyMoves ==
    ASSUME ClaimsInv, NEW t \in Tasks, Arrived(t), NEW call \in ActiveRequests,
           req' = [req EXCEPT ![t] = call],
           call.key = req[t].key, call.payload = req[t].payload,
           call.lease = req[t].lease, RequestIsSound(call),
           UNCHANGED <<claims, Elsewhere>>
    PROVE  ClaimsInv'
<1>1. /\ now' = now /\ faults' = faults /\ taskStatus' = taskStatus
      /\ queue' = queue /\ accepted' = accepted
      /\ claims' = claims
    BY DEF Elsewhere, environment, broker
<1>2. ClaimsOK' /\ KeepsWord
    BY <1>1
    DEF ClaimsInv, ClaimsOK, EnvironmentOK, BrokerOK, DeskOK, Requests, KeepsWord
<1> QED BY <1>1, <1>2, NoLeaseGiven

\* The claim of the request's key, as it is in the table.
LEMMA ClaimInTable ==
    ASSUME ClaimsInv, NEW t \in Tasks, Arrived(t), req[t].key \in Keys,
           claims[req[t].key] # NoClaim
    PROVE  LET claim == claims[req[t].key]
           IN  /\ claim \in ClaimRows
               /\ claim.task \in Tasks
               /\ Arrived(claim.task)
               /\ req[claim.task].key = req[t].key
               /\ Fingerprint(req[claim.task].payload) = claim.fingerprint
               /\ req[claim.task].lease = claim.created
               /\ Leased(claim.task)
               /\ claim.created <= now
<1> DEFINE claim == claims[req[t].key]
<1>1. claim \in ClaimRows /\ claim.task \in Tasks
    BY DEF ClaimsInv, ClaimsOK, DeskOK, ClaimRows
<1>2. /\ Arrived(claim.task)
      /\ req[claim.task].key = req[t].key
      /\ Fingerprint(req[claim.task].payload) = claim.fingerprint
      /\ req[claim.task].lease = claim.created
    BY DEF ClaimsInv, OwnersArrived, ClaimDescribesOwner
<1>3. claim.created # NoLease
    BY <1>1, RowsAreRows
<1>4. claim.created <= now
    BY <1>1, <1>2 DEF ClaimsInv, RequestsAreSound
<1> QED BY <1>1, <1>2, <1>3, <1>4

\* Requests before they have a lease carry a key.
LEMMA KeyedSteps ==
    ASSUME ClaimsInv, NEW t \in Tasks, Arrived(t)
    PROVE  /\ req[t] \in ActiveRequests
           /\ RequestIsSound(req[t])
           /\ req[t].step \in {"get_claim", "insert_claim", "get_again",
                               "take_over", "read_status", "move_claim"} =>
                  req[t].key \in Keys /\ ~Leased(t)
<1>1. req[t] \in ActiveRequests /\ RequestIsSound(req[t])
    BY ArrivedRequests DEF ClaimsInv, ClaimsOK, DeskOK, RequestsAreSound
<1> QED BY <1>1 DEF RequestIsSound, StepsFollowTheKey, ActiveRequests

\* The claim that was read is classified.
LEMMA ConsiderKeepsClaims ==
    ASSUME ClaimsInv, NEW t \in Tasks, req[t].step \in {"get_claim", "get_again"},
           claims[req[t].key] # NoClaim, Consider(t, claims[req[t].key]),
           UNCHANGED <<claims, Elsewhere>>
    PROVE  ClaimsInv'
<1> DEFINE claim == claims[req[t].key]
           taking == [req[t] EXCEPT !.step = "take_over", !.seen = claim]
           asking == [req[t] EXCEPT !.step = "read_status", !.seen = claim]
           refused == [req[t] EXCEPT !.step = "answered", !.answer = "mismatch",
                                     !.seen = NoClaim]
<1>1. /\ Arrived(t)
      /\ req[t] \in ActiveRequests
      /\ req[t].key \in Keys
      /\ ~Leased(t)
    BY KeyedSteps
<1>2. /\ claim \in ClaimRows
      /\ claim.task \in Tasks
      /\ Arrived(claim.task)
      /\ req[claim.task].key = req[t].key
      /\ Fingerprint(req[claim.task].payload) = claim.fingerprint
      /\ req[claim.task].lease = claim.created
      /\ Leased(claim.task)
    BY <1>1, ClaimInTable
<1>3. CASE IsExpired(claim.created)
    <2>1. req' = [req EXCEPT ![t] = taking]
        BY <1>1, <1>3 DEF Consider, ReqSees, ClaimsInv, ClaimsOK, DeskOK
    <2>2. /\ taking \in ActiveRequests
          /\ taking.key = req[t].key
          /\ taking.payload = req[t].payload
          /\ taking.lease = req[t].lease
          /\ taking.step = "take_over"
          /\ taking.seen = claim
        BY <1>1, <1>2 DEF ActiveRequests
    <2> HIDE DEF taking
    <2>3. RequestIsSound(taking)
        BY <1>1, <1>2, <1>3, <2>2, RequestDataAssumption
        DEF RequestIsSound, StepsFollowTheKey, SeenIsTrue, RefusalIsFounded
    <2> QED BY <1>1, <2>1, <2>2, <2>3, OnlyMoves
<1>4. CASE /\ ~IsExpired(claim.created)
           /\ claim.fingerprint # Fingerprint(req[t].payload)
    <2>1. req' = [req EXCEPT ![t] = refused]
        BY <1>1, <1>4 DEF Consider, Answer, ClaimsInv, ClaimsOK, DeskOK
    <2>2. /\ refused \in ActiveRequests
          /\ refused.key = req[t].key
          /\ refused.payload = req[t].payload
          /\ refused.lease = req[t].lease
          /\ refused.step = "answered"
          /\ refused.answer = "mismatch"
        BY <1>1, <1>2 DEF ActiveRequests
    <2> HIDE DEF refused
    <2>3. RefusedBecauseOf(refused, claim.task)
        BY <1>2, <1>4, <2>2 DEF RefusedBecauseOf
    <2>4. RequestIsSound(refused)
        BY <1>1, <1>2, <2>2, <2>3, RequestDataAssumption
        DEF RequestIsSound, StepsFollowTheKey, SeenIsTrue, ActsOnSeen,
            RefusalIsFounded
    <2> QED BY <1>1, <2>1, <2>2, <2>4, OnlyMoves
<1>5. CASE /\ ~IsExpired(claim.created)
           /\ claim.fingerprint = Fingerprint(req[t].payload)
    <2>1. req' = [req EXCEPT ![t] = asking]
        BY <1>1, <1>5 DEF Consider, ReqSees, ClaimsInv, ClaimsOK, DeskOK
    <2>2. /\ asking \in ActiveRequests
          /\ asking.key = req[t].key
          /\ asking.payload = req[t].payload
          /\ asking.lease = req[t].lease
          /\ asking.step = "read_status"
          /\ asking.seen = claim
        BY <1>1, <1>2 DEF ActiveRequests
    <2> HIDE DEF asking
    <2>3. req[claim.task].payload = req[t].payload
        BY <1>2, <1>5
    <2>4. RequestIsSound(asking)
        BY <1>1, <1>2, <2>2, <2>3, RequestDataAssumption
        DEF RequestIsSound, StepsFollowTheKey, SeenIsTrue, RefusalIsFounded
    <2> QED BY <1>1, <2>1, <2>2, <2>4, OnlyMoves
<1> QED BY <1>3, <1>4, <1>5

\* A request goes on without having looked at a claim.
LEMMA GoesOn ==
    ASSUME ClaimsInv, NEW t \in Tasks, Arrived(t), NEW step, ReqGoTo(t, step),
           step \in {"insert_claim", "get_again", "publish",
                     "record_unavailable", "mark_late"},
           req[t].key = NoKey => step \in {"publish", "mark_late"},
           Leased(t) => step \in {"publish", "record_unavailable"},
           step \in {"publish", "record_unavailable", "mark_late"} =>
               req[t].key = NoKey \/ Leased(t),
           step = "get_again" => claims[req[t].key] # NoClaim
    PROVE  LET call == [req[t] EXCEPT !.step = step]
           IN  /\ call \in ActiveRequests
               /\ call.key = req[t].key
               /\ call.payload = req[t].payload
               /\ call.lease = req[t].lease
               /\ RequestIsSound(call)
               /\ req' = [req EXCEPT ![t] = call]
<1> DEFINE call == [req[t] EXCEPT !.step = step]
<1>1. req[t] \in ActiveRequests /\ RequestIsSound(req[t])
    BY KeyedSteps
<1>2. /\ call \in ActiveRequests
      /\ call.key = req[t].key
      /\ call.payload = req[t].payload
      /\ call.lease = req[t].lease
      /\ call.step = step
    BY <1>1 DEF ActiveRequests
<1>3. req' = [req EXCEPT ![t] = call]
    BY DEF ReqGoTo, ClaimsInv, ClaimsOK, DeskOK
<1> HIDE DEF call
<1>4. StepsFollowTheKey(call) /\ ~ActsOnSeen(call)
    BY <1>1, <1>2 DEF RequestIsSound, StepsFollowTheKey, ActsOnSeen
<1>5. RequestIsSound(call)
    BY <1>2, <1>4, PlainRequest
<1> QED BY <1>2, <1>3, <1>5 DEF call

\* A request is answered, but neither with 422 nor with an earlier task.
LEMMA IsAnswered ==
    ASSUME ClaimsInv, NEW t \in Tasks, Arrived(t), NEW answer, Answer(t, answer),
           answer \in {"accepted", "in_flight", "unavailable", "error"}
    PROVE  LET call == [req[t] EXCEPT !.step = "answered", !.answer = answer,
                                      !.seen = NoClaim]
           IN  /\ call \in ActiveRequests
               /\ call.key = req[t].key
               /\ call.payload = req[t].payload
               /\ call.lease = req[t].lease
               /\ RequestIsSound(call)
               /\ req' = [req EXCEPT ![t] = call]
<1> DEFINE call == [req[t] EXCEPT !.step = "answered", !.answer = answer,
                                  !.seen = NoClaim]
<1>1. req[t] \in ActiveRequests /\ RequestIsSound(req[t])
    BY KeyedSteps
<1>2. /\ call \in ActiveRequests
      /\ call.key = req[t].key
      /\ call.payload = req[t].payload
      /\ call.lease = req[t].lease
      /\ call.step = "answered"
      /\ call.answer = answer
    BY <1>1 DEF ActiveRequests
<1>3. req' = [req EXCEPT ![t] = call]
    BY DEF Answer, ClaimsInv, ClaimsOK, DeskOK
<1> HIDE DEF call
<1>4. StepsFollowTheKey(call) /\ ~ActsOnSeen(call)
    BY <1>1, <1>2 DEF RequestIsSound, StepsFollowTheKey, ActsOnSeen
<1>5. RequestIsSound(call)
    BY <1>2, <1>4, PlainRequest
<1> QED BY <1>2, <1>3, <1>5 DEF call

LEMMA ArriveKeepsClaims ==
    ASSUME ClaimsInv, NEW t \in Tasks, NEW key \in MaybeKeys,
           NEW payload \in Payloads, Arrive(t, key, payload)
    PROVE  ClaimsInv'
<1> DEFINE call == [step |-> IF key = NoKey THEN "publish" ELSE "get_claim",
                    key |-> key, payload |-> payload, seen |-> NoClaim,
                    answer |-> "none", lease |-> NoLease]
<1>1. /\ req' = [req EXCEPT ![t] = call]
      /\ ~Arrived(t)
      /\ claims' = claims
      /\ UNCHANGED Elsewhere
    BY DEF Arrive
<1>2. /\ call \in ActiveRequests
      /\ call.key = key
      /\ call.lease = NoLease
      /\ call.step = IF key = NoKey THEN "publish" ELSE "get_claim"
    BY DEF ActiveRequests
<1> HIDE DEF call
<1>3. /\ now' = now /\ faults' = faults /\ taskStatus' = taskStatus
      /\ queue' = queue /\ accepted' = accepted
    BY <1>1 DEF Elsewhere, environment, broker
<1>4. ClaimsOK' /\ KeepsWord
    BY <1>1, <1>2, <1>3
    DEF ClaimsInv, ClaimsOK, EnvironmentOK, BrokerOK, DeskOK, Requests,
        KeepsWord
<1>5. RequestIsSound(call)
    BY <1>2, PlainRequest, RequestDataAssumption
    DEF StepsFollowTheKey, ActsOnSeen
<1> QED BY <1>1, <1>2, <1>3, <1>4, <1>5, NoLeaseGiven

LEMMA ReadingKeepsClaims ==
    ASSUME ClaimsInv, NEW t \in Tasks,
           GetClaim(t) \/ ClaimRefused(t) \/ GetClaimAgain(t)
    PROVE  ClaimsInv'
<1>1. ASSUME NEW step \in {"insert_claim", "get_again"}, ReqGoTo(t, step),
             req[t].step \in {"get_claim", "insert_claim"},
             step = "get_again" => claims[req[t].key] # NoClaim,
             UNCHANGED <<claims, Elsewhere>>
      PROVE  ClaimsInv'
    <2>1. Arrived(t) /\ req[t].key \in Keys /\ ~Leased(t)
        BY <1>1, KeyedSteps
    <2>2. req[t].key # NoKey
        BY <2>1, RequestDataAssumption
    <2> QED BY <1>1, <2>1, <2>2, GoesOn, OnlyMoves
<1>2. CASE GetClaim(t)
    BY <1>1, <1>2, ConsiderKeepsClaims DEF GetClaim
<1>3. CASE ClaimRefused(t)
    BY <1>1, <1>3 DEF ClaimRefused
<1>4. CASE GetClaimAgain(t)
    <2>1. Arrived(t) /\ claims[req[t].key] # NoClaim
        BY <1>4, KeyedSteps
        DEF GetClaimAgain, RequestIsSound, StepsFollowTheKey
    <2> QED BY <1>4, <2>1, ConsiderKeepsClaims DEF GetClaimAgain
<1> QED BY <1>2, <1>3, <1>4

\* The request lost the claim to another one that took it first.
LEMMA BeatenKeepsClaims ==
    ASSUME ClaimsInv, NEW t \in Tasks, Arrived(t), Answer(t, "in_flight"),
           UNCHANGED <<claims, Elsewhere>>
    PROVE  ClaimsInv'
    BY IsAnswered, OnlyMoves

LEMMA InsertKeepsClaims ==
    ASSUME ClaimsInv, NEW t \in Tasks, InsertClaim(t)
    PROVE  ClaimsInv'
<1> DEFINE claim == NewClaim(t)
<1>1. /\ Arrived(t)
      /\ req[t] \in ActiveRequests
      /\ req[t].key \in Keys
      /\ ~Leased(t)
    BY KeyedSteps DEF InsertClaim
<1>2. /\ claim \in ClaimRows
      /\ claim.task = t
      /\ claim.fingerprint = Fingerprint(req[t].payload)
      /\ claim.created = now
    BY <1>1
    DEF NewClaim, ClaimRows, Fingerprints, ActiveRequests, ClaimsInv, ClaimsOK,
        EnvironmentOK
<1>3. BecomeOwner(t, claim) /\ claims[req[t].key] = NoClaim
    BY DEF InsertClaim
<1> HIDE DEF claim
<1>4. UNCHANGED <<environment, taskStatus, broker>> /\ now <= now
    BY DEF InsertClaim, Elsewhere, ClaimsInv, ClaimsOK, EnvironmentOK
\* Whoever had a lease is in the table or was replaced there.
<1>5. ASSUME NEW u \in Tasks, Arrived(u), req[u].key = req[t].key, Leased(u)
      PROVE  FALSE
    BY <1>3, <1>5, KeyedSteps DEF RequestIsSound, StepsFollowTheKey
<1> QED BY <1>1, <1>2, <1>3, <1>4, <1>5, LeaseGiven

\* Everyone who had the claim, if the claim is still the one that was seen.
LEMMA PastOwners ==
    ASSUME ClaimsInv, NEW t \in Tasks, Arrived(t), req[t].key \in Keys,
           req[t].step \in {"take_over", "move_claim"}, StillAsSeen(t),
           NEW u \in Tasks, Arrived(u), req[u].key = req[t].key, Leased(u)
    PROVE  LET claim == claims[req[t].key]
           IN  /\ claim \in ClaimRows
               /\ claim.created = req[t].seen.created
               /\ claim.created <= now
               /\ req[u].lease \in 0 .. MaxTime
               /\ req[u].lease <= claim.created
               /\ \/ u = claim.task /\ claim.task = req[t].seen.task
                  \/ req[u].lease + TTL <= claim.created
                  \/ taskStatus[u].status = "failed"
<1> DEFINE claim == claims[req[t].key]
<1>1. /\ SeenIsTrue(req[t]) /\ ActsOnSeen(req[t])
      /\ claim # NoClaim
    BY KeyedSteps DEF RequestIsSound, StepsFollowTheKey, ActsOnSeen
<1>2. claim.task = req[t].seen.task
    BY DEF StillAsSeen
<1>3. /\ claim \in ClaimRows
      /\ claim.task \in Tasks
      /\ req[claim.task].lease = claim.created
      /\ claim.created <= now
    BY <1>1, ClaimInTable
<1>4. claim.created = req[t].seen.created
    BY <1>1, <1>2, <1>3 DEF SeenIsTrue
<1>5. req[u].lease \in 0 .. MaxTime
    BY KeyedSteps DEF ActiveRequests
<1>6. CASE u = claim.task
    BY <1>2, <1>3, <1>4, <1>5, <1>6, EnvironmentAssumption DEF ClaimRows
<1>7. CASE u # claim.task
    BY <1>3, <1>4, <1>5, <1>7 DEF ClaimsInv, PastOwnersAreDone
<1> QED BY <1>6, <1>7

LEMMA TakeOverKeepsClaims ==
    ASSUME ClaimsInv, NEW t \in Tasks, TakeOver(t)
    PROVE  ClaimsInv'
<1> DEFINE claim == NewClaim(t)
<1>1. /\ Arrived(t)
      /\ req[t] \in ActiveRequests
      /\ RequestIsSound(req[t])
      /\ req[t].key \in Keys
      /\ ~Leased(t)
      /\ req[t].step = "take_over"
    BY KeyedSteps DEF TakeOver
<1>2. CASE ~StillAsSeen(t)
    BY <1>1, <1>2, BeatenKeepsClaims DEF TakeOver
<1>3. CASE StillAsSeen(t)
    <2>1. BecomeOwner(t, claim)
          /\ UNCHANGED <<environment, taskStatus, broker>>
        BY <1>3 DEF TakeOver, Elsewhere
    <2>2. /\ claim \in ClaimRows
          /\ claim.task = t
          /\ claim.fingerprint = Fingerprint(req[t].payload)
          /\ claim.created = now
          /\ now \in 0 .. MaxTime
        BY <1>1
        DEF NewClaim, ClaimRows, Fingerprints, ActiveRequests, ClaimsInv, ClaimsOK,
            EnvironmentOK
    <2> HIDE DEF claim
    <2>3. IsExpired(req[t].seen.created)
        BY <1>1 DEF RequestIsSound, SeenIsTrue, ActsOnSeen
    <2>4. ASSUME NEW u \in Tasks, Arrived(u), req[u].key = req[t].key, Leased(u)
          PROVE  /\ req[u].lease <= now
                 /\ req[u].lease + TTL <= now
        <3>1. /\ claims[req[t].key].created \in 0 .. MaxTime
              /\ claims[req[t].key].created = req[t].seen.created
              /\ req[u].lease \in 0 .. MaxTime
              /\ req[u].lease <= claims[req[t].key].created
            BY <1>1, <1>3, <2>4, PastOwners DEF ClaimRows
        <3> QED
            BY <2>2, <2>3, <3>1, EnvironmentAssumption DEF IsExpired
    <2> QED BY <1>1, <2>1, <2>2, <2>4, LeaseGiven
<1> QED BY <1>2, <1>3

LEMMA MoveClaimKeepsClaims ==
    ASSUME ClaimsInv, NEW t \in Tasks, MoveClaim(t)
    PROVE  ClaimsInv'
<1> DEFINE old == claims[req[t].key]
           claim == [old EXCEPT !.task = t]
<1>1. /\ Arrived(t)
      /\ req[t] \in ActiveRequests
      /\ RequestIsSound(req[t])
      /\ req[t].key \in Keys
      /\ ~Leased(t)
      /\ req[t].step = "move_claim"
    BY KeyedSteps DEF MoveClaim
<1>2. CASE ~StillAsSeen(t)
    BY <1>1, <1>2, BeatenKeepsClaims DEF MoveClaim
<1>3. CASE StillAsSeen(t)
    <2>1. BecomeOwner(t, claim)
          /\ UNCHANGED <<environment, taskStatus, broker>>
        BY <1>3 DEF MoveClaim, Elsewhere
    <2>2. /\ old # NoClaim
          /\ SeenIsTrue(req[t])
          /\ ActsOnSeen(req[t])
        BY <1>1 DEF RequestIsSound, StepsFollowTheKey, ActsOnSeen
    <2>3. /\ old \in ClaimRows
          /\ old.task = req[t].seen.task
          /\ Fingerprint(req[old.task].payload) = old.fingerprint
          /\ old.created <= now
        BY <1>1, <1>3, <2>2, ClaimInTable DEF StillAsSeen
    <2>4. /\ req[old.task].payload = req[t].payload
          /\ taskStatus[old.task].status = "failed"
        BY <1>1, <2>2, <2>3 DEF SeenIsTrue
    <2>5. /\ claim \in ClaimRows
          /\ claim.task = t
          /\ claim.fingerprint = Fingerprint(req[t].payload)
          /\ claim.created = old.created
        BY <2>3, <2>4 DEF ClaimRows
    <2> HIDE DEF claim
    <2>6. ASSUME NEW u \in Tasks, Arrived(u), req[u].key = req[t].key, Leased(u)
          PROVE  /\ req[u].lease <= claim.created
                 /\ \/ req[u].lease + TTL <= claim.created
                    \/ taskStatus[u].status = "failed"
        BY <1>1, <1>3, <2>4, <2>5, <2>6, PastOwners
    <2> QED BY <1>1, <2>1, <2>3, <2>5, <2>6, LeaseGiven
<1> QED BY <1>2, <1>3


LEMMA ReadStatusKeepsClaims ==
    ASSUME ClaimsInv, NEW t \in Tasks, ReadStatus(t)
    PROVE  ClaimsInv'
<1> DEFINE replayed == [req[t] EXCEPT !.step = "answered",
                                      !.answer = "replayed"]
           moving == [req[t] EXCEPT !.step = "move_claim"]
           status == taskStatus[req[t].seen.task].status
<1>1. /\ Arrived(t)
      /\ req[t] \in ActiveRequests
      /\ RequestIsSound(req[t])
      /\ req[t].key \in Keys
      /\ ~Leased(t)
      /\ req[t].step = "read_status"
      /\ UNCHANGED <<claims, Elsewhere>>
    BY KeyedSteps DEF ReadStatus
<1>2. SeenIsTrue(req[t]) /\ ActsOnSeen(req[t]) /\ claims[req[t].key] # NoClaim
    BY <1>1 DEF RequestIsSound, StepsFollowTheKey, ActsOnSeen
<1>3. CASE status = "processed" /\ Answer(t, "replayed")
    <2>1. req' = [req EXCEPT ![t] = replayed]
        BY <1>3 DEF Answer, ClaimsInv, ClaimsOK, DeskOK
    <2>2. /\ replayed \in ActiveRequests
          /\ replayed.key = req[t].key
          /\ replayed.payload = req[t].payload
          /\ replayed.lease = req[t].lease
          /\ replayed.step = "answered"
          /\ replayed.answer = "replayed"
          /\ replayed.seen = req[t].seen
        BY <1>1 DEF ActiveRequests
    <2> HIDE DEF replayed
    <2>3. SeenIsTrue(replayed)
        BY <1>1, <1>2, <1>3, <2>2 DEF SeenIsTrue
    <2>4. RequestIsSound(replayed)
        BY <1>1, <2>2, <2>3, RequestDataAssumption
        DEF RequestIsSound, StepsFollowTheKey, RefusalIsFounded
    <2> QED BY <1>1, <2>1, <2>2, <2>4, OnlyMoves
<1>4. CASE status = "failed" /\ ReqGoTo(t, "move_claim")
    <2>1. req' = [req EXCEPT ![t] = moving]
        BY <1>4 DEF ReqGoTo, ClaimsInv, ClaimsOK, DeskOK
    <2>2. /\ moving \in ActiveRequests
          /\ moving.key = req[t].key
          /\ moving.payload = req[t].payload
          /\ moving.lease = req[t].lease
          /\ moving.step = "move_claim"
          /\ moving.seen = req[t].seen
        BY <1>1 DEF ActiveRequests
    <2> HIDE DEF moving
    <2>3. SeenIsTrue(moving)
        BY <1>1, <1>2, <1>4, <2>2 DEF SeenIsTrue
    <2>4. RequestIsSound(moving)
        BY <1>1, <1>2, <2>2, <2>3, RequestDataAssumption
        DEF RequestIsSound, StepsFollowTheKey, RefusalIsFounded
    <2> QED BY <1>1, <2>1, <2>2, <2>4, OnlyMoves
<1>5. CASE Answer(t, "in_flight")
    BY <1>1, <1>5, BeatenKeepsClaims
<1> QED BY <1>3, <1>4, <1>5 DEF ReadStatus

\* What the owner of a claim, or a request without a key, does until it has
\* published.
LEMMA PublishingKeepsClaims ==
    ASSUME ClaimsInv, NEW t \in Tasks,
           \/ MarkQueued(t)
           \/ PublishTask(t)
           \/ PublishFails(t)
           \/ RecordUnavailable(t)
           \/ MarkLate(t)
           \/ RequestDies(t)
    PROVE  ClaimsInv'
<1> DEFINE Moves ==
        \E call \in ActiveRequests :
            /\ call.key = req[t].key
            /\ call.payload = req[t].payload
            /\ call.lease = req[t].lease
            /\ RequestIsSound(call)
            /\ req' = [req EXCEPT ![t] = call]
<1>1. Arrived(t)
    BY DEF MarkQueued, PublishTask, PublishFails, RecordUnavailable, MarkLate,
           RequestDies
<1>2. \/ NoFault
      \/ Fault
      \/ UNCHANGED environment
    BY DEF MarkQueued, PublishTask, PublishFails, RecordUnavailable, MarkLate,
           RequestDies, TryMark
<1>3. claims' = claims
    BY DEF MarkQueued, PublishTask, PublishFails, RecordUnavailable, MarkLate,
           RequestDies
<1>4. /\ req[t] \in ActiveRequests
      /\ RequestIsSound(req[t])
      /\ StepsFollowTheKey(req[t])
      /\ now' = now
      /\ faults' \in 0 .. MaxFaults
    BY <1>1, <1>2, KeyedSteps, EnvironmentAssumption
    DEF Fault, NoFault, environment, RequestIsSound, ClaimsInv, ClaimsOK,
        EnvironmentOK
<1>5. Moves
    <2>1. ASSUME NEW answer \in {"accepted", "unavailable", "error"},
                 Answer(t, answer)
          PROVE  Moves
        BY <1>1, <2>1, IsAnswered
    <2>2. ASSUME NEW step \in {"publish", "record_unavailable", "mark_late"},
                 ReqGoTo(t, step),
                 req[t].key = NoKey => step = "mark_late",
                 Leased(t) => step \in {"publish", "record_unavailable"},
                 req[t].key = NoKey \/ Leased(t)
          PROVE  Moves
        BY <1>1, <2>2, GoesOn
    <2> HIDE DEF Moves
    <2>3. CASE MarkQueued(t)
        BY <1>4, <2>2, <2>3 DEF MarkQueued, StepsFollowTheKey
    <2>4. CASE PublishTask(t) \/ PublishFails(t)
        BY <1>4, <2>1, <2>2, <2>4
        DEF PublishTask, PublishFails, StepsFollowTheKey
    <2>5. CASE RecordUnavailable(t) \/ MarkLate(t) \/ RequestDies(t)
        BY <2>1, <2>5 DEF RecordUnavailable, MarkLate, RequestDies
    <2> QED BY <2>3, <2>4, <2>5
<1>6. PICK call \in ActiveRequests :
          /\ call.key = req[t].key
          /\ call.payload = req[t].payload
          /\ call.lease = req[t].lease
          /\ RequestIsSound(call)
          /\ req' = [req EXCEPT ![t] = call]
    BY <1>5
<1>7. taskStatus' \in TaskTable /\ KeepsWord
    <2>1. taskStatus \in TaskTable
        BY DEF ClaimsInv, ClaimsOK
    <2>2. CASE taskStatus' = taskStatus
        BY <2>1, <2>2, TableKept
    <2>3. CASE MarkTaskQueued(t)
        BY <2>1, <2>3, MarkKeepsWord
    <2>4. CASE RecordTaskStatus(t, NeverQueued)
        BY <2>1, <2>4, RecordKeepsWord, CallSites
    <2> QED
        BY <2>2, <2>3, <2>4
        DEF MarkQueued, PublishTask, PublishFails, RecordUnavailable, MarkLate,
            RequestDies, TryMark
<1>8. \/ UNCHANGED broker
      \/ Publish(Message(t)) /\ req[t].step = "publish"
    BY DEF MarkQueued, PublishTask, PublishFails, RecordUnavailable, MarkLate,
           RequestDies
<1>9. /\ Message(t) \in Messages
      /\ Message(t).task = t
      /\ Message(t).key = req[t].key
    BY <1>4, TaskRowsAssumption
    DEF Message, NewMessage, Messages, ActiveRequests
<1>10. ClaimsOK'
    BY <1>4, <1>6, <1>7, <1>8, <1>9, <1>3
    DEF ClaimsInv, ClaimsOK, EnvironmentOK, BrokerOK, DeskOK, Requests, broker, Publish
<1>11. \A m \in accepted' \ accepted :
          /\ m.task = t
          /\ m.key = call.key
          /\ m.key # NoKey => call.lease # NoLease
    BY <1>4, <1>6, <1>8, <1>9 DEF Publish, broker, StepsFollowTheKey
<1> QED BY <1>4, <1>6, <1>7, <1>10, <1>11, <1>1, <1>3, NoLeaseGiven

LEMMA RequestKeepsClaims ==
    ASSUME ClaimsInv, NEW t \in Tasks, RequestStep(t)
    PROVE  ClaimsInv'
    BY ReadingKeepsClaims, InsertKeepsClaims, TakeOverKeepsClaims,
       ReadStatusKeepsClaims, MoveClaimKeepsClaims, PublishingKeepsClaims
    DEF RequestStep

LEMMA TimeKeepsClaims ==
    ASSUME ClaimsInv, Tick, UNCHANGED <<taskStatus, broker, desk>>
    PROVE  ClaimsInv'
<1>1. /\ now' \in 0 .. MaxTime /\ now <= now' /\ faults' = faults
      /\ req' = req /\ claims' = claims /\ taskStatus' = taskStatus
      /\ queue' = queue /\ accepted' = accepted
    BY EnvironmentAssumption
    DEF Tick, broker, desk, ClaimsInv, ClaimsOK, EnvironmentOK
<1>2. ClaimsOK' /\ KeepsWord
    BY <1>1
    DEF ClaimsInv, ClaimsOK, EnvironmentOK, BrokerOK, DeskOK, KeepsWord
<1> QED BY <1>1, <1>2, RequestsRest

\* Nothing moves.
LEMMA ClaimsRest ==
    ASSUME ClaimsInv, UNCHANGED <<environment, taskStatus, broker, desk>>
    PROVE  ClaimsInv'
<1>1. /\ now' = now /\ faults' = faults /\ req' = req /\ claims' = claims
      /\ queue' = queue /\ accepted' = accepted
      /\ taskStatus' = taskStatus
    BY DEF environment, broker, desk
<1>2. ClaimsOK' /\ KeepsWord /\ now <= now'
    BY <1>1
    DEF ClaimsInv, ClaimsOK, EnvironmentOK, BrokerOK, DeskOK, KeepsWord
<1> QED BY <1>1, <1>2, RequestsRest

\* What the claims promise follows.
LEMMA ClaimsPromise ==
    ASSUME ClaimsInv
    PROVE  /\ OneTaskPerKeyWithinTtl
           /\ ClaimDescribesOwner
           /\ ReplayIsFaithful
           /\ RefusedForAnother
<1>1. OneTaskPerKeyWithinTtl
    <2> SUFFICES ASSUME NEW m \in accepted, NEW n \in accepted,
                        m.key = n.key, m.key # NoKey, m.task # n.task
                 PROVE  /\ Leased(m.task) /\ Leased(n.task)
                        /\ \/ req[m.task].lease + TTL <= req[n.task].lease
                           \/ req[n.task].lease + TTL <= req[m.task].lease
                           \/ taskStatus[m.task].status = "failed"
                           \/ taskStatus[n.task].status = "failed"
        BY DEF OneTaskPerKeyWithinTtl
    <2>1. m.task \in Tasks /\ n.task \in Tasks
        BY DEF ClaimsInv, ClaimsOK, BrokerOK, Messages
    <2>2. /\ Arrived(m.task) /\ Arrived(n.task)
          /\ Leased(m.task) /\ Leased(n.task)
          /\ req[m.task].key = req[n.task].key
        BY DEF ClaimsInv, AcceptedAsSent
    <2> QED BY <2>1, <2>2 DEF ClaimsInv, OwnersAreApart
<1>2. ClaimDescribesOwner
    BY DEF ClaimsInv
<1>3. ReplayIsFaithful
    <2> SUFFICES ASSUME NEW t \in Tasks, req[t].step = "answered",
                        req[t].answer = "replayed"
                 PROVE  LET original == req[t].seen.task
                        IN  /\ req[original].key = req[t].key
                            /\ req[original].payload = req[t].payload
                            /\ taskStatus[original].status = "processed"
        BY DEF ReplayIsFaithful
    <2>1. RequestIsSound(req[t])
        BY KeyedSteps
    <2> QED BY <2>1 DEF RequestIsSound, SeenIsTrue, ActsOnSeen
<1>4. RefusedForAnother
    <2> SUFFICES ASSUME NEW t \in Tasks, req[t].step = "answered",
                        req[t].answer = "mismatch"
                 PROVE  \E u \in Tasks : RefusedBecauseOf(req[t], u)
        BY DEF RefusedForAnother, RefusedBecauseOf
    <2>1. RequestIsSound(req[t])
        BY KeyedSteps
    <2> QED BY <2>1 DEF RequestIsSound, RefusalIsFounded
<1> QED BY <1>1, <1>2, <1>3, <1>4

-----------------------------------------------------------------------------
\* The claims implement KeyLeases.

\* No key is given and nothing is published under one.
LEMMA NothingGiven ==
    ASSUME KeepsWord, now <= now', Holders' = Holders, Leases' = Leases,
           PublishedTasks' = PublishedTasks
    PROVE  Leasing!NextLeases
<1>1. FailedTasks \subseteq FailedTasks'
    BY DEF FailedTasks, KeepsWord, IsTerminal, TERMINAL_TASK_STATUSES
<1> QED BY <1>1 DEF Leasing!NextLeases, Leasing!GoesOn

LEMMA LeasesBegin ==
    ASSUME InitEnvironment, InitTaskTable, InitBroker, InitDesk
    PROVE  Leasing!InitLeases
<1>1. now = 0
    BY DEF InitEnvironment
<1>2. Holders = [k \in Keys |-> NoClaim.task]
    BY DEF InitDesk, Holders
<1>3. Leases = [t \in Tasks |-> Leasing!NeverGiven]
    BY DEF InitDesk, NotArrived, Leases, LeaseOf, Leasing!NeverGiven, NoLease
<1>4. FailedTasks = {}
    BY DEF InitTaskTable, FailedTasks, Absent, Row
<1>5. PublishedTasks = {}
    BY DEF InitBroker, PublishedTasks
<1> QED BY <1>1, <1>2, <1>3, <1>4, <1>5 DEF Leasing!InitLeases

\* Claims and leases are as they were.
LEMMA LeasesRest ==
    ASSUME KeepsWord, now <= now', req' = req, claims' = claims,
           accepted' = accepted
    PROVE  Leasing!NextLeases
<1>1. Holders' = Holders
    BY DEF Holders
<1>2. Leases' = Leases
    BY DEF Leases, LeaseOf
<1>3. PublishedTasks' = PublishedTasks
    BY DEF PublishedTasks
<1> QED BY <1>1, <1>2, <1>3, NothingGiven

\* One request arrives or moves, and keeps the lease it has.
LEMMA LeasesKept ==
    ASSUME req \in [Tasks -> Requests], NEW t \in Tasks,
           NEW call \in ActiveRequests, req' = [req EXCEPT ![t] = call],
           IF Arrived(t) THEN call.key = req[t].key /\ call.lease = req[t].lease
                         ELSE call.lease = NoLease
    PROVE  Leases' = Leases
<1>1. call.step # "idle"
    BY DEF ActiveRequests
<1>2. \A u \in Tasks : LeaseOf(u)' = LeaseOf(u)
    BY <1>1 DEF LeaseOf
<1> QED BY <1>2 DEF Leases

LEMMA ArriveGivesNothing ==
    ASSUME ClaimsInv, NEW t \in Tasks, NEW key \in MaybeKeys,
           NEW payload \in Payloads, Arrive(t, key, payload)
    PROVE  Leasing!NextLeases
<1> DEFINE call == [step |-> IF key = NoKey THEN "publish" ELSE "get_claim",
                    key |-> key, payload |-> payload, seen |-> NoClaim,
                    answer |-> "none", lease |-> NoLease]
<1>1. /\ req \in [Tasks -> Requests]
      /\ taskStatus \in TaskTable
      /\ now \in Nat
    BY DEF ClaimsInv, ClaimsOK, DeskOK, EnvironmentOK
<1>2. call \in ActiveRequests /\ call.lease = NoLease
    BY DEF ActiveRequests, MaybeKeys
<1>3. ~Arrived(t) /\ req' = [req EXCEPT ![t] = call]
    BY DEF Arrive
<1>4. Leases' = Leases
    BY <1>1, <1>2, <1>3, LeasesKept
<1>5. /\ now' = now /\ taskStatus' = taskStatus
      /\ Holders' = Holders /\ PublishedTasks' = PublishedTasks
    BY DEF Arrive, Elsewhere, environment, broker, Holders, PublishedTasks
<1>6. KeepsWord
    BY <1>1, <1>5, TableKept
<1> QED BY <1>1, <1>4, <1>5, <1>6, NothingGiven

\* What a request does with its call when it gets no claim.
Moves(t) ==
    \/ \E step : ReqGoTo(t, step) /\ step # "idle"
    \/ \E step, claim : ReqSees(t, step, claim) /\ step # "idle"
    \/ \E answer : Answer(t, answer)

LEMMA MovesKeepLeases ==
    ASSUME ClaimsInv, NEW t \in Tasks, Arrived(t), Moves(t)
    PROVE  Leases' = Leases
<1> DEFINE Kept == /\ \A u \in Tasks \ {t} : req'[u] = req[u]
                   /\ req'[t].step # "idle"
                   /\ req'[t].key = req[t].key
                   /\ req'[t].lease = req[t].lease
<1>1. req[t] \in ActiveRequests /\ req \in [Tasks -> Requests]
    BY KeyedSteps DEF ClaimsInv, ClaimsOK, DeskOK
<1>2. ASSUME NEW step, ReqGoTo(t, step), step # "idle"
      PROVE  Kept
    BY <1>1, <1>2 DEF ReqGoTo, ActiveRequests
<1>3. ASSUME NEW step, NEW claim, ReqSees(t, step, claim), step # "idle"
      PROVE  Kept
    BY <1>1, <1>3 DEF ReqSees, ActiveRequests
<1>4. ASSUME NEW answer, Answer(t, answer)
      PROVE  Kept
    BY <1>1, <1>4 DEF Answer, ActiveRequests
<1>5. Kept
    <2> HIDE DEF Kept
    <2> QED BY <1>2, <1>3, <1>4 DEF Moves
<1>6. \A u \in Tasks : LeaseOf(u)' = LeaseOf(u)
    BY <1>5 DEF LeaseOf
<1> QED BY <1>6 DEF Leases

\* The request's task gets the claim.
LEMMA OwnerIsGiven ==
    ASSUME ClaimsInv, NEW t \in Tasks, Arrived(t), ~Leased(t),
           req[t].key \in Keys, NEW claim \in ClaimRows, claim.task = t,
           BecomeOwner(t, claim), UNCHANGED Elsewhere
    PROVE  Leasing!Gives(req[t].key, t, claim.created)
<1> DEFINE key == req[t].key
<1>1. /\ req[t] \in ActiveRequests
      /\ req \in [Tasks -> Requests]
      /\ claims \in [Keys -> ClaimRows \cup {NoClaim}]
    BY KeyedSteps DEF ClaimsInv, ClaimsOK, DeskOK
<1>2. claim.created # NoLease
    BY RowsAreRows
<1>3. Leases[t] = Leasing!NeverGiven
    BY DEF Leases, LeaseOf, Leasing!NeverGiven, NoLease
<1>4. Holders' = [Holders EXCEPT ![key] = t]
    BY <1>1 DEF BecomeOwner, Holders
<1>5. /\ req'[t].step = "mark" /\ req'[t].key = key
      /\ req'[t].lease = claim.created
      /\ \A u \in Tasks \ {t} : req'[u] = req[u]
    BY <1>1 DEF BecomeOwner, ActiveRequests
<1>6. Leases' = [Leases EXCEPT ![t] = [key |-> key, since |-> claim.created]]
    BY <1>2, <1>5 DEF Leases, LeaseOf
<1>7. /\ now' = now /\ FailedTasks' = FailedTasks
      /\ PublishedTasks' = PublishedTasks
    BY DEF Elsewhere, environment, broker, FailedTasks, PublishedTasks
<1> QED BY <1>3, <1>4, <1>6, <1>7 DEF Leasing!Gives

\* The lease of the claim that is in the table.
LEMMA HolderHasLease ==
    ASSUME ClaimsInv, NEW t \in Tasks, Arrived(t), req[t].key \in Keys,
           claims[req[t].key] # NoClaim
    PROVE  LET claim == claims[req[t].key]
           IN  /\ Holders[req[t].key] = claim.task
               /\ claim.task \in Tasks
               /\ Leases[claim.task].since = claim.created
    BY ClaimInTable DEF Holders, Leases, LeaseOf

LEMMA InsertGivesAnew ==
    ASSUME ClaimsInv, NEW t \in Tasks, InsertClaim(t)
    PROVE  Leasing!GivesAnew(req[t].key, t)
<1>1. /\ Arrived(t) /\ ~Leased(t)
      /\ req[t] \in ActiveRequests
      /\ req[t].key \in Keys
    BY KeyedSteps DEF InsertClaim
<1>2. /\ NewClaim(t) \in ClaimRows
      /\ NewClaim(t).task = t
      /\ NewClaim(t).created = now
    BY <1>1
    DEF NewClaim, ClaimRows, Fingerprints, ActiveRequests, ClaimsInv, ClaimsOK,
        EnvironmentOK
<1>3. Leasing!Gives(req[t].key, t, now)
    BY <1>1, <1>2, OwnerIsGiven DEF InsertClaim
<1>4. Holders[req[t].key] = NoClaim.task
    BY <1>1 DEF InsertClaim, Holders
<1> QED BY <1>3, <1>4 DEF Leasing!GivesAnew

LEMMA TakeOverGivesAnew ==
    ASSUME ClaimsInv, NEW t \in Tasks, TakeOver(t), StillAsSeen(t)
    PROVE  Leasing!GivesAnew(req[t].key, t)
<1> DEFINE key == req[t].key
<1>1. /\ Arrived(t) /\ ~Leased(t)
      /\ req[t] \in ActiveRequests
      /\ RequestIsSound(req[t])
      /\ key \in Keys
      /\ req[t].step = "take_over"
    BY KeyedSteps DEF TakeOver
<1>2. /\ NewClaim(t) \in ClaimRows
      /\ NewClaim(t).task = t
      /\ NewClaim(t).created = now
      /\ now \in 0 .. MaxTime
    BY <1>1
    DEF NewClaim, ClaimRows, Fingerprints, ActiveRequests, ClaimsInv, ClaimsOK,
        EnvironmentOK
<1>3. Leasing!Gives(key, t, now)
    BY <1>1, <1>2, OwnerIsGiven DEF TakeOver
<1>4. /\ claims[key] # NoClaim
      /\ IsExpired(req[t].seen.created)
    BY <1>1
    DEF RequestIsSound, StepsFollowTheKey, SeenIsTrue, ActsOnSeen
<1>5. /\ Holders[key] = claims[key].task
      /\ claims[key].task \in Tasks
      /\ Leases[claims[key].task].since = claims[key].created
    BY <1>1, <1>4, HolderHasLease
<1>6. /\ claims[key].created = req[t].seen.created
      /\ claims[key].created \in 0 .. MaxTime
    BY <1>1, <1>4, ClaimInTable, PastOwners DEF ClaimRows
<1>7. Leases[Holders[key]].since + TTL <= now
    BY <1>2, <1>4, <1>5, <1>6, EnvironmentAssumption DEF IsExpired
<1> QED BY <1>3, <1>7 DEF Leasing!GivesAnew

LEMMA MoveHandsOn ==
    ASSUME ClaimsInv, NEW t \in Tasks, MoveClaim(t), StillAsSeen(t)
    PROVE  Leasing!HandsOn(req[t].key, t)
<1> DEFINE key == req[t].key
           old == claims[key]
           claim == [old EXCEPT !.task = t]
<1>1. /\ Arrived(t) /\ ~Leased(t)
      /\ RequestIsSound(req[t])
      /\ key \in Keys
      /\ req[t].step = "move_claim"
    BY KeyedSteps DEF MoveClaim
<1>2. /\ old # NoClaim
      /\ SeenIsTrue(req[t])
      /\ ActsOnSeen(req[t])
    BY <1>1 DEF RequestIsSound, StepsFollowTheKey, ActsOnSeen
<1>3. old \in ClaimRows /\ old.task = req[t].seen.task
    BY <1>1, <1>2, ClaimInTable DEF StillAsSeen
<1>4. claim \in ClaimRows /\ claim.task = t /\ claim.created = old.created
    BY <1>3 DEF ClaimRows
<1>5. BecomeOwner(t, claim) /\ UNCHANGED Elsewhere
    BY DEF MoveClaim
<1> HIDE DEF claim
<1>6. Leasing!Gives(key, t, old.created)
    BY <1>1, <1>4, <1>5, OwnerIsGiven
<1>7. /\ Holders[key] = old.task
      /\ old.task \in Tasks
      /\ Leases[old.task].since = old.created
    BY <1>1, <1>2, HolderHasLease
<1>8. old.task \in FailedTasks
    BY <1>1, <1>2, <1>3, <1>7 DEF SeenIsTrue, FailedTasks
<1> QED BY <1>6, <1>7, <1>8 DEF Leasing!HandsOn

LEMMA MessageIsPublished ==
    ASSUME ClaimsInv, NEW t \in Tasks, PublishTask(t) \/ PublishFails(t)
    PROVE  Leasing!NextLeases
<1> DEFINE key == req[t].key
<1>1. Arrived(t) /\ Moves(t)
    BY DEF PublishTask, PublishFails, Moves
<1>2. /\ req[t] \in ActiveRequests
      /\ StepsFollowTheKey(req[t])
      /\ req[t].step = "publish"
    BY <1>1, KeyedSteps DEF RequestIsSound, PublishTask, PublishFails
<1>3. Leases' = Leases
    BY <1>1, MovesKeepLeases
<1>4. /\ now' = now /\ taskStatus' = taskStatus /\ Holders' = Holders
      /\ accepted' = accepted \/ accepted' = accepted \cup {Message(t)}
    BY DEF PublishTask, PublishFails, Publish, environment, Fault, Holders, broker
<1>5. Message(t).task = t /\ Message(t).key = key
    BY DEF Message, NewMessage
<1>6. CASE accepted' = accepted \/ key = NoKey
    <2>1. PublishedTasks' = PublishedTasks
        BY <1>4, <1>5, <1>6 DEF PublishedTasks
    <2>2. KeepsWord /\ now <= now'
        BY <1>4, TableKept DEF ClaimsInv, ClaimsOK, EnvironmentOK
    <2> QED BY <1>3, <1>4, <2>1, <2>2, NothingGiven
<1>7. CASE accepted' # accepted /\ key # NoKey
    <2>1. PublishedTasks' = PublishedTasks \cup {[task |-> t, key |-> key]}
        BY <1>4, <1>5, <1>7 DEF PublishedTasks
    <2>2. /\ req[t].lease # NoLease
          /\ key \in Keys
        BY <1>2, <1>7 DEF StepsFollowTheKey, ActiveRequests, MaybeKeys
    <2>3. Leases[t] = [key |-> key, since |-> req[t].lease]
        BY <1>1, <2>2 DEF Leases, LeaseOf
    <2>4. Leases[t] # Leasing!NeverGiven /\ Leases[t].key = key
        BY <2>2, <2>3 DEF Leasing!NeverGiven, NoLease
    <2>5. FailedTasks' = FailedTasks
        BY <1>4 DEF FailedTasks
    <2>6. Leasing!Publishes(key, t)
        BY <1>3, <1>4, <2>1, <2>4, <2>5 DEF Leasing!Publishes
    <2> QED BY <2>2, <2>6 DEF Leasing!NextLeases
<1> QED BY <1>6, <1>7

\* Every statement of a request is a step of KeyLeases.
LEMMA RequestStepLeases ==
    ASSUME ClaimsInv, NEW t \in Tasks, RequestStep(t)
    PROVE  Leasing!NextLeases
<1>1. now \in Nat /\ taskStatus \in TaskTable /\ req \in [Tasks -> Requests]
    BY DEF ClaimsInv, ClaimsOK, EnvironmentOK, DeskOK
<1>2. CASE \/ InsertClaim(t)
           \/ TakeOver(t) /\ StillAsSeen(t)
           \/ MoveClaim(t) /\ StillAsSeen(t)
    <2>1. req[t].key \in Keys
        BY <1>2, KeyedSteps DEF InsertClaim, TakeOver, MoveClaim
    <2> QED
        BY <1>2, <2>1, InsertGivesAnew, TakeOverGivesAnew, MoveHandsOn
        DEF Leasing!NextLeases
<1>3. CASE PublishTask(t) \/ PublishFails(t)
    BY <1>3, MessageIsPublished
<1>4. CASE \/ GetClaim(t)
           \/ ClaimRefused(t)
           \/ GetClaimAgain(t)
           \/ TakeOver(t) /\ ~StillAsSeen(t)
           \/ ReadStatus(t)
           \/ MoveClaim(t) /\ ~StillAsSeen(t)
           \/ MarkQueued(t)
           \/ RecordUnavailable(t)
           \/ MarkLate(t)
           \/ RequestDies(t)
    <2>1. Arrived(t) /\ Moves(t)
        BY <1>4
        DEF GetClaim, ClaimRefused, GetClaimAgain, Consider, TakeOver, ReadStatus,
            MoveClaim, MarkQueued, RecordUnavailable, MarkLate, RequestDies, Moves
    <2>2. Leases' = Leases
        BY <2>1, MovesKeepLeases
    <2>3. now' = now /\ claims' = claims /\ accepted' = accepted
        BY <1>4
        DEF GetClaim, ClaimRefused, GetClaimAgain, TakeOver, ReadStatus,
            MoveClaim, MarkQueued, RecordUnavailable, MarkLate, RequestDies,
            Elsewhere, TryMark, NoFault, Fault, environment, broker
    <2>4. KeepsWord
        <3>1. CASE taskStatus' = taskStatus
            BY <1>1, <3>1, TableKept
        <3>2. CASE MarkTaskQueued(t)
            BY <1>1, <3>2, MarkKeepsWord
        <3>3. CASE RecordTaskStatus(t, NeverQueued)
            BY <1>1, <3>3, RecordKeepsWord, CallSites
        <3> QED
            BY <1>4, <3>1, <3>2, <3>3
            DEF GetClaim, ClaimRefused, GetClaimAgain, TakeOver, ReadStatus,
                MoveClaim, MarkQueued, RecordUnavailable, MarkLate, RequestDies,
                Elsewhere, TryMark
    <2>5. Holders' = Holders /\ PublishedTasks' = PublishedTasks
        BY <2>3 DEF Holders, PublishedTasks
    <2> QED BY <1>1, <2>2, <2>3, <2>4, <2>5, NothingGiven
<1> QED BY <1>2, <1>3, <1>4 DEF RequestStep

-----------------------------------------------------------------------------
\* A request that is alone with its key is never refused.

\* What a step of one request leaves alone.
LEMMA OneMoves ==
    ASSUME ClaimsInv, NEW u \in Tasks, RequestStep(u)
    PROVE  /\ Arrived(u) /\ ~ReqAt(u, "answered") /\ u \in UnderWay
           /\ now' = now
           /\ \A t \in Tasks \ {u} : req'[t] = req[t]
           /\ req'[u].key = req[u].key /\ req'[u].payload = req[u].payload
           /\ Arrived(u)'
           /\ \A k \in Keys \ {req[u].key} : claims'[k] = claims[k]
<1> USE DEF RequestStep, GetClaim, Consider, InsertClaim, ClaimRefused,
            GetClaimAgain, TakeOver, ReadStatus, MoveClaim, MarkQueued,
            PublishTask, PublishFails, RecordUnavailable, MarkLate, RequestDies
<1>1. Arrived(u) /\ ~ReqAt(u, "answered") /\ u \in UnderWay
    BY DEF UnderWay
<1>2. now' = now
    BY DEF Elsewhere, environment, TryMark, Fault, NoFault
<1>3. req[u] \in ActiveRequests /\ req \in [Tasks -> Requests]
    BY <1>1, KeyedSteps DEF ClaimsInv, ClaimsOK, DeskOK
<1>4. claims' = claims \/ \E row : BecomeOwner(u, row)
    OBVIOUS
<1>5. \A k \in Keys \ {req[u].key} : claims'[k] = claims[k]
    BY <1>4 DEF BecomeOwner, ClaimsInv, ClaimsOK, DeskOK
<1>6. \/ \E row : BecomeOwner(u, row)
      \/ \E step : ReqGoTo(u, step) /\ step # "idle"
      \/ \E step, row : ReqSees(u, step, row) /\ step # "idle"
      \/ \E answer : Answer(u, answer)
    OBVIOUS
<1> HIDE DEF RequestStep
<1>7. /\ \A t \in Tasks \ {u} : req'[t] = req[t]
      /\ req'[u].key = req[u].key /\ req'[u].payload = req[u].payload
      /\ Arrived(u)'
    <2>1. ASSUME NEW row, BecomeOwner(u, row)
          PROVE  /\ \A t \in Tasks \ {u} : req'[t] = req[t]
                 /\ req'[u].key = req[u].key /\ req'[u].payload = req[u].payload
                 /\ Arrived(u)'
        BY <1>3, <2>1 DEF BecomeOwner, ActiveRequests
    <2>2. ASSUME NEW step, ReqGoTo(u, step), step # "idle"
          PROVE  /\ \A t \in Tasks \ {u} : req'[t] = req[t]
                 /\ req'[u].key = req[u].key /\ req'[u].payload = req[u].payload
                 /\ Arrived(u)'
        BY <1>3, <2>2 DEF ReqGoTo, ActiveRequests
    <2>3. ASSUME NEW step, NEW row, ReqSees(u, step, row), step # "idle"
          PROVE  /\ \A t \in Tasks \ {u} : req'[t] = req[t]
                 /\ req'[u].key = req[u].key /\ req'[u].payload = req[u].payload
                 /\ Arrived(u)'
        BY <1>3, <2>3 DEF ReqSees, ActiveRequests
    <2>4. ASSUME NEW answer, Answer(u, answer)
          PROVE  /\ \A t \in Tasks \ {u} : req'[t] = req[t]
                 /\ req'[u].key = req[u].key /\ req'[u].payload = req[u].payload
                 /\ Arrived(u)'
        BY <1>3, <2>4 DEF Answer, ActiveRequests
    <2> QED BY <1>6, <2>1, <2>2, <2>3, <2>4
<1> QED BY <1>1, <1>2, <1>5, <1>7

\* Nobody moves, or time passes.
LEMMA AloneAtRest ==
    ASSUME ClaimsInv, NEW t \in Tasks, IsAlone(t), req' = req, claims' = claims,
           now <= now', now' \in Nat
    PROVE  IsAlone(t)'
<1>1. \A u \in Tasks : Leased(u) /\ Arrived(u) => req[u].lease \in Nat
    BY KeyedSteps DEF ActiveRequests, NoLease, ClaimRows
<1>2. UnderWay' = UnderWay /\ SameKey(req[t].key)' = SameKey(req[t].key)
    BY DEF UnderWay, SameKey
<1>3. \A u \in SameKey(req[t].key) : u \in Tasks /\ Arrived(u)
    BY DEF SameKey
<1>4. \A u \in SameKey(req[t].key) :
          Leased(u) /\ req[u].lease + TTL <= now => req[u].lease + TTL <= now'
    BY <1>1, <1>3, EnvironmentAssumption DEF ClaimsInv, ClaimsOK, EnvironmentOK
<1> QED BY <1>2, <1>4 DEF IsAlone, StillAsSeen

\* Another request moves: it is of another key.
LEMMA AloneWhileOthersMove ==
    ASSUME ClaimsInv, NEW t \in Tasks, IsAlone(t),
           NEW u \in Tasks \ {t}, RequestStep(u)
    PROVE  IsAlone(t)'
<1>1. /\ Arrived(u) /\ ~ReqAt(u, "answered") /\ u \in UnderWay
      /\ now' = now
      /\ \A v \in Tasks \ {u} : req'[v] = req[v]
      /\ req'[u].key = req[u].key
      /\ Arrived(u)'
      /\ \A k \in Keys \ {req[u].key} : claims'[k] = claims[k]
    BY OneMoves
<1>2. CASE t \notin UnderWay
    BY <1>1, <1>2 DEF IsAlone, UnderWay
<1>3. CASE t \in UnderWay
    <2>1. u \notin SameKey(req[t].key)
        BY <1>1, <1>3 DEF IsAlone
    <2>2. req[u].key # req[t].key
        BY <1>1, <2>1 DEF SameKey
    <2>3. SameKey(req[t].key)' = SameKey(req[t].key)
        BY <1>1, <2>2 DEF SameKey
    <2>4. claims'[req[t].key] = claims[req[t].key]
        BY <1>1, <2>2, KeyedSteps DEF IsAlone, ActiveRequests
    <2>5. \A v \in SameKey(req[t].key) : v \in Tasks \ {u}
        BY <2>1 DEF SameKey
    <2> QED
        BY <1>1, <1>3, <2>3, <2>4, <2>5 DEF IsAlone, StillAsSeen
<1> QED BY <1>2, <1>3

\* It moves itself: the claim it finds, if any, is past its lifetime, so it is
\* never classified, refused or beaten.
LEMMA AloneMoves ==
    ASSUME ClaimsInv, NEW t \in Tasks, IsAlone(t), RequestStep(t)
    PROVE  IsAlone(t)'
<1> DEFINE key == req[t].key
           Wins == /\ req'[t].step \notin {"get_again", "read_status",
                                           "move_claim"}
                   /\ req'[t].step = "insert_claim" => claims'[key] = NoClaim
                   /\ req'[t].step = "take_over" =>
                         claims'[key].task = req'[t].seen.task
                   /\ req'[t].step = "answered" =>
                         req'[t].answer \notin {"in_flight", "mismatch"}
<1>1. /\ Arrived(t) /\ ~ReqAt(t, "answered") /\ t \in UnderWay
      /\ now' = now
      /\ \A v \in Tasks \ {t} : req'[v] = req[v]
      /\ req'[t].key = key
      /\ Arrived(t)'
    BY OneMoves
<1>2. /\ req[t] \in ActiveRequests
      /\ req \in [Tasks -> Requests]
      /\ key \in Keys
    BY <1>1, KeyedSteps DEF IsAlone, ActiveRequests, ClaimsInv, ClaimsOK, DeskOK
<1>3. SameKey(key)' = SameKey(key)
    BY <1>1 DEF SameKey
<1>4. /\ \A u \in SameKey(key) \ {t} :
             /\ ReqAt(u, "answered")
             /\ Leased(u) => req[u].lease + TTL <= now
      /\ req[t].step \notin {"get_again", "read_status", "move_claim"}
      /\ ReqAt(t, "insert_claim") => claims[key] = NoClaim
      /\ ReqAt(t, "take_over") => StillAsSeen(t)
    BY <1>1 DEF IsAlone
<1>5. Wins
    <2>1. CASE GetClaim(t)
        <3>1. CASE claims[key] = NoClaim
            BY <1>2, <2>1, <3>1 DEF GetClaim, ReqGoTo, ActiveRequests
        <3>2. CASE claims[key] # NoClaim
            <4> DEFINE claim == claims[key]
            <4>1. /\ claim \in ClaimRows
                  /\ claim.task \in Tasks
                  /\ Arrived(claim.task)
                  /\ req[claim.task].key = key
                  /\ req[claim.task].lease = claim.created
                  /\ Leased(claim.task)
                BY <1>1, <1>2, <3>2, ClaimInTable
            <4>2. claim.task # t
                BY <1>1, <2>1, <4>1, KeyedSteps DEF GetClaim
            <4>3. claim.created + TTL <= now /\ claim.created \in 0 .. MaxTime
                BY <1>4, <4>1, <4>2 DEF SameKey, ClaimRows
            <4>4. IsExpired(claim.created)
                BY <4>3, EnvironmentAssumption
                DEF IsExpired, ClaimsInv, ClaimsOK, EnvironmentOK
            <4>5. ReqSees(t, "take_over", claim) /\ claims' = claims
                BY <2>1, <3>2, <4>4 DEF GetClaim, Consider
            <4> QED BY <1>2, <4>5 DEF ReqSees, ActiveRequests
        <3> QED BY <3>1, <3>2
    <2>2. ASSUME NEW row, BecomeOwner(t, row)
          PROVE  Wins
        BY <1>2, <2>2 DEF BecomeOwner, ActiveRequests
    <2>3. ASSUME NEW step \in {"publish", "record_unavailable", "mark_late"},
                 ReqGoTo(t, step)
          PROVE  Wins
        BY <1>2, <2>3 DEF ReqGoTo, ActiveRequests
    <2>4. ASSUME NEW answer \in {"accepted", "unavailable", "error"},
                 Answer(t, answer)
          PROVE  Wins
        BY <1>2, <2>4 DEF Answer, ActiveRequests
    <2> HIDE DEF Wins
    <2>5. CASE InsertClaim(t) \/ TakeOver(t)
        BY <1>4, <2>2, <2>5 DEF InsertClaim, TakeOver
    <2>6. ~ClaimRefused(t) /\ ~GetClaimAgain(t) /\ ~ReadStatus(t) /\ ~MoveClaim(t)
        BY <1>4 DEF ClaimRefused, GetClaimAgain, ReadStatus, MoveClaim
    <2>7. CASE \/ MarkQueued(t)
               \/ PublishTask(t)
               \/ PublishFails(t)
               \/ RecordUnavailable(t)
               \/ MarkLate(t)
               \/ RequestDies(t)
        BY <2>3, <2>4, <2>7
        DEF MarkQueued, PublishTask, PublishFails, RecordUnavailable, MarkLate,
            RequestDies
    <2> QED BY <2>1, <2>5, <2>6, <2>7 DEF RequestStep
<1>6. \A u \in SameKey(key) \ {t} : req'[u] = req[u]
    BY <1>1 DEF SameKey
<1> QED BY <1>1, <1>3, <1>4, <1>5, <1>6 DEF IsAlone, StillAsSeen

\* What the arrival of a request leaves alone.
LEMMA ArrivalMoves ==
    ASSUME ClaimsInv, NEW u \in Tasks, NEW key, NEW payload,
           Arrive(u, key, payload)
    PROVE  /\ ~Arrived(u)
           /\ Arrived(u)'
           /\ req'[u].key = key
           /\ req'[u].step \in {"get_claim", "publish"}
           /\ \A t \in Tasks \ {u} : req'[t] = req[t]
           /\ claims' = claims
           /\ now' = now
    BY DEF Arrive, Elsewhere, environment, ClaimsInv, ClaimsOK, DeskOK

\* Another request arrives: it has another key, or comes late.
LEMMA AloneWhenOthersArrive ==
    ASSUME ClaimsInv, NEW t \in Tasks, IsAlone(t),
           NEW u \in Tasks, NEW key, NEW payload, Arrive(u, key, payload),
           t \notin UnderWay \cap SameKey(key)
    PROVE  IsAlone(t)'
<1>1. /\ ~Arrived(u)
      /\ Arrived(u)'
      /\ req'[u].key = key
      /\ \A v \in Tasks \ {u} : req'[v] = req[v]
      /\ claims' = claims
      /\ now' = now
    BY ArrivalMoves
<1>2. t \in Tasks \ {u} /\ Arrived(t)
    BY <1>1 DEF IsAlone
<1>3. CASE t \notin UnderWay
    BY <1>1, <1>2, <1>3 DEF IsAlone, UnderWay
<1>4. CASE t \in UnderWay
    <2>1. req[t].key # key
        BY <1>2, <1>4 DEF SameKey
    <2>2. SameKey(req[t].key)' = SameKey(req[t].key)
        BY <1>1, <1>2, <2>1 DEF SameKey
    <2>3. \A v \in SameKey(req[t].key) : v \in Tasks \ {u}
        BY <1>1 DEF SameKey
    <2> QED BY <1>1, <1>2, <1>4, <2>2, <2>3 DEF IsAlone, StillAsSeen
<1> QED BY <1>3, <1>4

\* A request arrives that nobody opposes.
LEMMA AloneFromArrival ==
    ASSUME ClaimsInv, NEW u \in Tasks, NEW key, NEW payload,
           Arrive(u, key, payload), key # NoKey, Unopposed(key)
    PROVE  IsAlone(u)'
<1>1. /\ ~Arrived(u)
      /\ Arrived(u)'
      /\ req'[u].key = key
      /\ req'[u].step \in {"get_claim", "publish"}
      /\ \A t \in Tasks \ {u} : req'[t] = req[t]
      /\ now' = now
    BY ArrivalMoves
<1>2. SameKey(key)' \ {u} = SameKey(key) /\ SameKey(key) \subseteq Tasks \ {u}
    BY <1>1 DEF SameKey
<1>3. \A v \in SameKey(key) :
          /\ req'[v] = req[v]
          /\ ReqAt(v, "answered")
          /\ Leased(v) => req[v].lease + TTL <= now
    BY <1>1, <1>2 DEF Unopposed, UnderWay, SameKey
<1> QED BY <1>1, <1>2, <1>3 DEF IsAlone

=============================================================================
