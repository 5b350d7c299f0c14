-------------------------- MODULE IdempotentStore --------------------------
(***************************************************************************)
(* What _persist_submission promises its callers, without the statements   *)
(* and the unique index that bring it about: a call is decided at one      *)
(* instant, by the row that was saved last under its key.  Nothing is      *)
(* ever taken back: rows are only added, and there is no column that a row *)
(* could lose.  Submissions.tla implements it.                             *)
(***************************************************************************)
EXTENDS RequestData, Integers, Sequences

CONSTANTS Callers, Origins, TTL

VARIABLES
    now,
    saved,      \* what was saved, in order
    call        \* for each caller, what it asked for and was told

promise == <<now, saved, call>>

Idle == [step |-> "idle"]

InitPromise ==
    /\ now = 0
    /\ saved = << >>
    /\ call = [c \in Callers |-> Idle]

Under(key) == {id \in DOMAIN saved : key # NoKey /\ saved[id].key = key}

LastUnder(key) ==
    {id \in Under(key) : \A other \in Under(key) : other <= id}

\* No row was saved under the key within the last TTL.
IsFree(key) == \A id \in Under(key) : saved[id].created + TTL <= now

Questions ==
    [step : {"asked"}, key : MaybeKeys, payload : Payloads, origin : Origins]

Unavailable == [step |-> "unavailable"]

\* A call begins, unless the database cannot be reached.
Asks(c) ==
    /\ call[c].step = "idle"
    /\ call'[c] \in Questions \cup {Unavailable}
    /\ call' = [call EXCEPT ![c] = call'[c]]
    /\ UNCHANGED <<now, saved>>

IsTold(c, answer) == call' = [call EXCEPT ![c] = answer]

\* A row is saved; its caller may be told all the same that it failed.
Saves(c) ==
    /\ call[c].step = "asked"
    /\ IsFree(call[c].key)
    /\ saved' = Append(saved, [key |-> call[c].key,
                               payload |-> call[c].payload, created |-> now,
                               origin |-> call[c].origin])
    /\ \/ IsTold(c, [step |-> "saved", row |-> Len(saved) + 1])
       \/ IsTold(c, Unavailable)
    /\ UNCHANGED now

\* The row saved last under the key answers for it, in its lifetime and, when a
\* call lost the race for the key, after it: to an equal payload with
\* itself, to any other with a refusal.
Repeats(c) ==
    /\ call[c].step = "asked"
    /\ \E id \in LastUnder(call[c].key) :
          IF saved[id].payload = call[c].payload
          THEN IsTold(c, [step |-> "saved", row |-> id])
          ELSE IsTold(c, [step |-> "mismatch"])
    /\ UNCHANGED <<now, saved>>

\* A call may fail.  It fails for a conflict only under a key that was in use
\* and whose lifetime has passed.
Fails(c) ==
    /\ call[c].step = "asked"
    /\ \/ IsTold(c, Unavailable)
       \/ /\ Under(call[c].key) # {}
          /\ IsFree(call[c].key)
          /\ IsTold(c, [step |-> "integrity"])
    /\ UNCHANGED <<now, saved>>

\* The call returns, or its caller dies in it.
Leaves(c) ==
    /\ call' = [call EXCEPT ![c] = Idle]
    /\ UNCHANGED <<now, saved>>

NextPromise ==
    \/ \E c \in Callers :
          Asks(c) \/ Saves(c) \/ Repeats(c) \/ Fails(c) \/ Leaves(c)
    \/ now' = now + 1 /\ UNCHANGED <<saved, call>>

PromiseSpec == InitPromise /\ [][NextPromise]_promise

=============================================================================
