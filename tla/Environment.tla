---------------------------- MODULE Environment ----------------------------
(***************************************************************************)
(* What every process of the system shares and none controls: the clock    *)
(* that expiry compares created_at with, and how often infrastructure      *)
(* fails.  The clock counts in units that divide the key lifetime; one     *)
(* clock stands for the clocks of all hosts (they are assumed in step).    *)
(***************************************************************************)
EXTENDS Integers

CONSTANTS
    TTL,        \* idempotency_ttl(): never below one unit, as the code falls
                \* back to 24 hours on a missing or non-positive setting
    MaxTime,    \* bound: the clock stops here
    MaxFaults   \* bound: how many infrastructure failures may happen

ASSUME EnvironmentAssumption ==
    /\ TTL \in Nat \ {0}
    /\ MaxTime \in Nat
    /\ MaxFaults \in Nat

VARIABLES
    now,        \* datetime.now(UTC)
    faults      \* failures so far (history, only bounded)

environment == <<now, faults>>

EnvironmentOK == now \in 0 .. MaxTime /\ faults \in 0 .. MaxFaults

InitEnvironment == now = 0 /\ faults = 0

\* A bug to detect: a lifetime rounded down by one unit.
IsExpiredEarly(created) == created <= now - TTL + 1

\* is_expired: created_at <= now - ttl.  The instant the lifetime ends counts
\* as expired.
IsExpired(created) == created <= now - TTL

Tick == now < MaxTime /\ now' = now + 1 /\ UNCHANGED faults

\* A step in which something fails, or in which nothing does.
Fault == faults < MaxFaults /\ faults' = faults + 1 /\ UNCHANGED now

NoFault == UNCHANGED environment

=============================================================================
