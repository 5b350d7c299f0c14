----------------------------- MODULE KeyLeases -----------------------------
(***************************************************************************)
(* What the claims of idempotency keys promise, without the statements     *)
(* that requests race with: a key has one holder at a time.  A lease lasts *)
(* for the lifetime of the key.  The key passes to another task when that  *)
(* lifetime is over, for a lifetime of its own, or when its holder has     *)
(* failed, for what is left of the holder's; and only a task that has held *)
(* a key publishes under it.  Claims.tla implements it.                    *)
(***************************************************************************)
EXTENDS Integers

CONSTANTS Tasks, Keys, TTL, Nobody

VARIABLES
    now,
    holder,     \* for each key, the task that has it, or Nobody
    lease,      \* for each task, the key it was given and the start of the
                \* lifetime that it was given for
    failed,     \* tasks that have failed
    published   \* what was published under a key

leases == <<now, holder, lease, failed, published>>

NeverGiven == [since |-> -1]

InitLeases ==
    /\ now = 0
    /\ holder = [k \in Keys |-> Nobody]
    /\ lease = [t \in Tasks |-> NeverGiven]
    /\ failed = {}
    /\ published = {}

\* The task gets the key, for the lifetime that began at since.
Gives(k, t, since) ==
    /\ lease[t] = NeverGiven
    /\ holder' = [holder EXCEPT ![k] = t]
    /\ lease' = [lease EXCEPT ![t] = [key |-> k, since |-> since]]
    /\ UNCHANGED <<now, failed, published>>

\* The key was never given, or its holder's lifetime is over: another begins.
GivesAnew(k, t) ==
    /\ holder[k] # Nobody => lease[holder[k]].since + TTL <= now
    /\ Gives(k, t, now)

\* The holder has failed: another task has the key for the time that is left.
HandsOn(k, t) ==
    /\ holder[k] \in failed
    /\ Gives(k, t, lease[holder[k]].since)

Publishes(k, t) ==
    /\ lease[t] # NeverGiven
    /\ lease[t].key = k
    /\ published' = published \cup {[task |-> t, key |-> k]}
    /\ UNCHANGED <<now, holder, lease, failed>>

\* Time passes, and tasks end.  A task that has failed stays so.
GoesOn ==
    /\ now <= now'
    /\ failed \subseteq failed'
    /\ UNCHANGED <<holder, lease, published>>

NextLeases ==
    \/ GoesOn
    \/ \E k \in Keys, t \in Tasks :
          GivesAnew(k, t) \/ HandsOn(k, t) \/ Publishes(k, t)

LeaseSpec == InitLeases /\ [][NextLeases]_leases

=============================================================================
