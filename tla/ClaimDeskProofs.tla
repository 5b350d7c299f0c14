-------------------------- MODULE ClaimDeskProofs --------------------------
(***************************************************************************)
(* Proofs about ClaimDesk, for any number of requests, keys and payloads,  *)
(* any key lifetime and any bounds.  That the requests keep ClaimsInv is   *)
(* in PartsProofs; here are the workers, reduced to their status writes,   *)
(* and that a key comes free.                                              *)
(***************************************************************************)
EXTENDS ClaimDesk, PartsProofs

USE DEF ReqAt, MaybeKeys, Arrived, Leased, Fingerprint

LEMMA InitInvariant == Init => IInv /\ AloneWithTheKey
    BY ClaimsBegin DEF Init, IInv, AloneWithTheKey

LEMMA WorkerKeepsWord ==
    ASSUME ClaimsInv, NEW t \in Tasks, WorkerReports(t)
    PROVE  taskStatus' \in TaskTable /\ KeepsWord
<1>1. PICK write \in WorkerWrites : RecordTaskStatus(t, write)
    BY DEF WorkerReports
<1>2. write \in WriteRows
    BY CallSites, TaskRowsAssumption DEF WorkerWrites, Errors
<1> QED BY <1>1, <1>2, RecordKeepsWord DEF ClaimsInv, ClaimsOK

\* Workers move no claim and keep their word.
LEMMA WorkerKeepsClaims ==
    ASSUME ClaimsInv, NEW t \in Tasks, WorkerReports(t)
    PROVE  ClaimsInv'
<1>1. taskStatus' \in TaskTable /\ KeepsWord
    BY WorkerKeepsWord
<1>2. /\ now' = now /\ faults' = faults /\ req' = req /\ claims' = claims
      /\ queue' = queue /\ accepted' = accepted
    BY DEF WorkerReports, environment, broker, desk
<1>3. ClaimsOK' /\ now <= now'
    BY <1>1, <1>2 DEF ClaimsInv, ClaimsOK, EnvironmentOK, BrokerOK, DeskOK
<1> QED BY <1>1, <1>2, <1>3, RequestsRest

\* The strengthened invariant holds in every state.
THEOREM Invariant == Spec => []IInv
<1>1. Init => IInv
    BY InitInvariant
<1>2. IInv /\ [Next]_vars => IInv'
    <2> SUFFICES ASSUME IInv, [Next]_vars
                 PROVE  IInv'
        OBVIOUS
    <2>1. ASSUME NEW t \in Tasks, Submit(t)
          PROVE  IInv'
        BY <2>1, ArriveKeepsClaims, RequestKeysAssumption DEF Submit, IInv
    <2>2. ASSUME NEW t \in Tasks, Enqueue(t)
          PROVE  IInv'
        BY <2>2, RequestKeepsClaims DEF Enqueue, IInv
    <2>3. ASSUME NEW t \in Tasks, WorkerReports(t)
          PROVE  IInv'
        BY <2>3, WorkerKeepsClaims DEF WorkerReports, IInv
    <2>4. CASE PassTime
        BY <2>4, TimeKeepsClaims DEF PassTime, IInv
    <2>5. CASE AllAnswered \/ UNCHANGED vars
        BY <2>5, ClaimsRest DEF AllAnswered, vars, IInv
    <2> QED BY <2>1, <2>2, <2>3, <2>4, <2>5 DEF Next
<1> QED BY <1>1, <1>2, PTL DEF Spec

\* Every table and request stays well formed, for any number of requests.
THEOREM TypeCorrect == Spec => []TypeOK
<1>1. IInv => TypeOK
    BY DEF IInv, ClaimsInv, TypeOK
<1> QED BY <1>1, Invariant, PTL

\* A claim that is inserted, taken over or moved describes the request whose
\* task it names.
THEOREM ClaimsDescribeOwners == Spec => []ClaimDescribesOwner
<1>1. IInv => ClaimDescribesOwner
    BY ClaimsPromise DEF IInv
<1> QED BY <1>1, Invariant, PTL

\* A request is told an earlier task only if that task's request sent the same
\* under the same key and the task is processed.
THEOREM ReplaysAreFaithful == Spec => []ReplayIsFaithful
<1>1. IInv => ReplayIsFaithful
    BY ClaimsPromise DEF IInv
<1> QED BY <1>1, Invariant, PTL

\* A request is refused with 422 only for another payload that had the claim.
THEOREM RefusalsHaveCause == Spec => []RefusedForAnother
<1>1. IInv => RefusedForAnother
    BY ClaimsPromise DEF IInv
<1> QED BY <1>1, Invariant, PTL

\* Tasks published with one key had its claim a lifetime apart, or one of them
\* failed, whichever requests raced to insert, take over and move the claim.
THEOREM OneTaskPerKey == Spec => []OneTaskPerKeyWithinTtl
<1>1. IInv => OneTaskPerKeyWithinTtl
    BY ClaimsPromise DEF IInv
<1> QED BY <1>1, Invariant, PTL

\* A key has one holder at a time, and passes on when its lifetime is over, or
\* when its holder failed: the statements that race for a claim implement
\* KeyLeases.
THEOREM ImplementsLeases == Spec => ImplementsKeyLeases
<1>1. Init => Leasing!InitLeases
    BY LeasesBegin DEF Init
<1>2. IInv /\ [Next]_vars => Leasing!NextLeases
    <2> SUFFICES ASSUME IInv, [Next]_vars
                 PROVE  Leasing!NextLeases
        OBVIOUS
    <2>1. ClaimsInv /\ taskStatus \in TaskTable /\ now \in Nat
        BY DEF IInv, ClaimsInv, ClaimsOK, EnvironmentOK
    <2>2. ASSUME NEW t \in Tasks, Submit(t)
          PROVE  Leasing!NextLeases
        BY <2>1, <2>2, ArriveGivesNothing, RequestKeysAssumption DEF Submit
    <2>3. ASSUME NEW t \in Tasks, Enqueue(t)
          PROVE  Leasing!NextLeases
        BY <2>1, <2>3, RequestStepLeases DEF Enqueue
    <2>4. ASSUME NEW t \in Tasks, WorkerReports(t)
          PROVE  Leasing!NextLeases
        BY <2>1, <2>4, WorkerKeepsWord, LeasesRest
        DEF WorkerReports, environment, desk, broker
    <2>5. CASE PassTime \/ AllAnswered \/ UNCHANGED vars
        <3>1. now <= now' /\ taskStatus' = taskStatus
            BY <2>1, <2>5
            DEF PassTime, Tick, AllAnswered, vars, environment
        <3>2. req' = req /\ claims' = claims /\ accepted' = accepted
            BY <2>5 DEF PassTime, AllAnswered, vars, desk, broker
        <3> QED BY <2>1, <3>1, <3>2, TableKept, LeasesRest
    <2> QED BY <2>2, <2>3, <2>4, <2>5 DEF Next
<1> QED
    BY <1>1, <1>2, Invariant, PTL DEF Spec, ImplementsKeyLeases, Leasing!LeaseSpec

-----------------------------------------------------------------------------
\* A claim frees its key when its lifetime is over.

\* A request arrives: whoever it meets under way with its key no longer counts
\* as unopposed.
LEMMA AloneWhenOneArrives ==
    ASSUME IInv, AloneWithTheKey, NEW u \in Tasks, Submit(u)
    PROVE  AloneWithTheKey'
<1>1. PICK key \in RequestKeys, payload \in Payloads :
          /\ Arrive(u, key, payload)
          /\ unopposed' =
                IF key = NoKey THEN unopposed
                ELSE IF Unopposed(key) THEN unopposed \cup {u}
                ELSE unopposed \ (UnderWay \cap SameKey(key))
    BY DEF Submit
<1>2. \A t \in unopposed : t \in Tasks /\ IsAlone(t)
    BY DEF AloneWithTheKey, IInv
<1>3. ASSUME NEW t \in unopposed, t \in unopposed'
      PROVE  IsAlone(t)'
    <2>1. t \notin UnderWay \cap SameKey(key)
        BY <1>1, <1>2, <1>3 DEF IsAlone, SameKey, Unopposed
    <2> QED BY <1>1, <1>2, <2>1, AloneWhenOthersArrive DEF IInv
<1>4. ASSUME NEW t \in unopposed', t \notin unopposed
      PROVE  IsAlone(t)'
    BY <1>1, <1>4, AloneFromArrival DEF IInv
<1> QED BY <1>3, <1>4 DEF AloneWithTheKey

\* A key that a dead request, a conflict or a lost task keeps busy is free again
\* after one lifetime, however often its claim was moved.
THEOREM KeysComeFree == Spec => []LifetimeFreesTheKey
<1>1. Init => AloneWithTheKey
    BY InitInvariant
<1>2. IInv /\ AloneWithTheKey /\ [Next]_vars => AloneWithTheKey'
    <2> SUFFICES ASSUME IInv, AloneWithTheKey, [Next]_vars
                 PROVE  AloneWithTheKey'
        OBVIOUS
    <2>1. /\ ClaimsInv
          /\ now \in Nat /\ now <= now
          /\ unopposed \subseteq Tasks
        BY DEF IInv, ClaimsInv, ClaimsOK, EnvironmentOK
    <2>2. ASSUME NEW u \in Tasks, Submit(u)
          PROVE  AloneWithTheKey'
        BY <2>2, AloneWhenOneArrives
    <2>3. ASSUME NEW u \in Tasks, Enqueue(u)
          PROVE  AloneWithTheKey'
        BY <2>1, <2>3, AloneMoves, AloneWhileOthersMove
        DEF Enqueue, AloneWithTheKey
    <2>4. ASSUME NEW u \in Tasks, WorkerReports(u)
          PROVE  AloneWithTheKey'
        BY <2>1, <2>4, AloneAtRest
        DEF WorkerReports, AloneWithTheKey, environment, desk
    <2>5. CASE PassTime
        BY <2>1, <2>5, AloneAtRest DEF PassTime, Tick, AloneWithTheKey, desk
    <2>6. CASE UNCHANGED vars
        BY <2>1, <2>6, AloneAtRest
        DEF vars, AloneWithTheKey, environment, desk
    <2> QED BY <2>2, <2>3, <2>4, <2>5, <2>6 DEF Next, AllAnswered
<1>3. AloneWithTheKey => LifetimeFreesTheKey
    BY DEF AloneWithTheKey, IsAlone, LifetimeFreesTheKey
<1> QED BY <1>1, <1>2, <1>3, Invariant, PTL DEF Spec


=============================================================================
