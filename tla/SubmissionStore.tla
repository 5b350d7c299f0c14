-------------------------- MODULE SubmissionStore --------------------------
(***************************************************************************)
(* The table submissions and _persist_submission on their own: any caller  *)
(* may call at any time, with any key and payload, and may die at any      *)
(* statement.  MaxRows bounds how many rows there are when a call starts.  *)
(***************************************************************************)
EXTENDS Submissions

CONSTANT MaxRows    \* bound: no call starts once the table has this many rows

vars == <<environment, store>>

Init == InitEnvironment /\ InitStore

Call(c) ==
    /\ Len(submissions) < MaxRows
    /\ \E key \in MaybeKeys, payload \in Payloads, o \in Origins :
          StartPersist(c, key, payload, o)
    /\ UNCHANGED submissions
    /\ NoFault

Leave(c) == LeavePersist(c) /\ UNCHANGED submissions /\ NoFault

\* The bounds are used up and every call has returned.  Any other state
\* without a successor is a deadlock.
Exhausted ==
    /\ Len(submissions) >= MaxRows
    /\ \A c \in Callers : AtStatement(c, "idle")
    /\ UNCHANGED vars

Next ==
    \/ \E c \in Callers : Call(c) \/ PersistStep(c) \/ Leave(c)
    \/ Tick /\ UNCHANGED store
    \/ Exhausted

Spec == Init /\ [][Next]_vars

-----------------------------------------------------------------------------
\* Rows and calls are well formed, and a row a call refers to exists.
TypeOK == EnvironmentOK /\ StoreOK

\* Rows are never deleted or rewritten; all that ever changes is that a row
\* loses its key, and then only after its lifetime, although the release was
\* decided on a row read in an earlier statement (_release_expired_key).
OnlyExpiredKeysAreReleased ==
    [][\A id \in Ids :
          \/ submissions'[id] = submissions[id]
          \/ /\ submissions'[id] = [submissions[id] EXCEPT !.key = NoKey]
             /\ IsExpired(submissions[id].created)]_vars

=============================================================================
