----------------------------- MODULE RateLimit -----------------------------
(***************************************************************************)
(* shared/rate_limit.py for one client and one endpoint: web processes     *)
(* that count a request in Redis with three commands (INCR, EXPIRE, TTL),  *)
(* or in a bucket of their own memory when Redis does not answer.  Each    *)
(* process serves one request at a time (one gunicorn or uvicorn worker);  *)
(* the processes share the Redis counter.                                  *)
(*                                                                         *)
(* Times are kept as the seconds that are left, so the clock is not        *)
(* bounded.  Counts beyond Limit + 1 are all treated alike.                *)
(***************************************************************************)
EXTENDS Integers, Sequences

CONSTANTS
    Processes,  \* web processes that serve the endpoint
    Redis,      \* the store they share; each process is a store as well
    Limit,      \* RATE_LIMIT_POST_REQUESTS; zero or less turns limiting off
    Window      \* RATE_LIMIT_WINDOW_SECONDS

ASSUME RateLimitAssumption ==
    /\ Redis \notin Processes
    /\ Limit \in Nat \ {0}
    /\ Window \in Nat \ {0}

BackOff == 2    \* seconds without Redis after a failed ping

Stores == Processes \cup {Redis}

VARIABLES
    counter,    \* the Redis key: its value, and the seconds until it expires
    orphaned,   \* the key was never given an expiry (history)
    client,     \* for each process, _redis_client and _redis_retry_after
    bucket,     \* for each process, its entry of _memory_buckets
    check,      \* for each process, the step its enforce_rate_limit is at
    watched,    \* the store whose history is kept, any of them
    passed      \* the age of every request it counted as within the limit,
                \* one window back (history)

vars == <<counter, orphaned, client, bucket, check, watched, passed>>

NoExpiry == -1

Counts == 0 .. Limit + 1

NoCounter == [count |-> 0, left |-> 0]

NoBucket == [count |-> 0, left |-> 0]

NotConnected == [connected |-> FALSE, wait |-> 0]

Steps == {"idle", "incr", "expire", "ttl", "memory"}

Init ==
    /\ counter = NoCounter
    /\ orphaned = FALSE
    /\ client = [p \in Processes |-> NotConnected]
    /\ bucket = [p \in Processes |-> NoBucket]
    /\ check = [p \in Processes |-> "idle"]
    /\ watched \in Stores
    /\ passed = << >>

-----------------------------------------------------------------------------

CheckAt(p, step) == check[p] = step

Proceed(p, step) == check' = [check EXCEPT ![p] = step]

Finish(p) == Proceed(p, "idle")

OneMore(count) == IF count > Limit THEN count ELSE count + 1

\* Store s counts a request as number n of its window.
Counted(s, n) ==
    passed' = IF s = watched /\ n <= Limit THEN Append(passed, 0) ELSE passed

\* A request arrives.  _get_redis_client backs off, uses the cached client,
\* or pings; it reads the clock once, before the ping.
Arrive(p) ==
    /\ CheckAt(p, "idle")
    /\ \/ /\ client[p].wait > 0
          /\ Proceed(p, "memory")
          /\ UNCHANGED client
       \/ /\ client[p].wait = 0
          /\ client' = [client EXCEPT ![p].connected = TRUE]
          /\ Proceed(p, "incr")
       \/ /\ client[p].wait = 0 /\ ~client[p].connected
          /\ client' = [client EXCEPT ![p].wait = BackOff]
          /\ Proceed(p, "memory")
    /\ UNCHANGED <<counter, orphaned, bucket, passed>>

-----------------------------------------------------------------------------
\* The three commands.  Any of them may raise a RedisError, carried out or
\* not; the request is then counted in memory.

\* INCR creates the key without an expiry.
Incremented ==
    IF counter.count = 0 THEN [count |-> 1, left |-> NoExpiry]
                         ELSE [counter EXCEPT !.count = OneMore(@)]

\* A bug to detect: every request sets the expiry, not only the first.
MustExpireAlways(n) == TRUE

MustExpire(n) == n = 1

Incr(p) ==
    LET n == Incremented.count
    IN  /\ CheckAt(p, "incr")
        /\ counter' = Incremented
        /\ Proceed(p, IF MustExpire(n) THEN "expire" ELSE "ttl")
        /\ Counted(Redis, n)
        /\ UNCHANGED <<orphaned, client, bucket>>

IncrFails(p) ==
    /\ CheckAt(p, "incr")
    /\ \/ /\ counter' = Incremented
          /\ orphaned' = (orphaned \/ counter.count = 0)
       \/ UNCHANGED <<counter, orphaned>>
    /\ Proceed(p, "memory")
    /\ UNCHANGED <<client, bucket, passed>>

\* EXPIRE of a key that is gone does nothing.
Expiring ==
    counter' = IF counter.count = 0 THEN counter
                                    ELSE [counter EXCEPT !.left = Window]

Expire(p) ==
    /\ CheckAt(p, "expire")
    /\ Expiring
    /\ Proceed(p, "ttl")
    /\ UNCHANGED <<orphaned, client, bucket, passed>>

ExpireFails(p) ==
    /\ CheckAt(p, "expire")
    /\ \/ Expiring /\ UNCHANGED orphaned
       \/ UNCHANGED counter /\ orphaned' = TRUE
    /\ Proceed(p, "memory")
    /\ UNCHANGED <<client, bucket, passed>>

\* TTL only words the refusal; the request is admitted or refused by what
\* INCR returned.
Ttl(p) ==
    /\ CheckAt(p, "ttl")
    /\ Finish(p)
    /\ UNCHANGED <<counter, orphaned, client, bucket, passed>>

TtlFails(p) ==
    /\ CheckAt(p, "ttl")
    /\ Proceed(p, "memory")
    /\ UNCHANGED <<counter, orphaned, client, bucket, passed>>

-----------------------------------------------------------------------------
\* The fallback, under _memory_lock.

\* A bug to detect: the window is a second too long.
FreshBucketLong(p) ==
    IF bucket[p].left = 0 THEN [count |-> 0, left |-> Window + 1] ELSE bucket[p]

\* A bug to detect: the window starts again, the count does not.
FreshBucketNoReset(p) ==
    IF bucket[p].left = 0 THEN [bucket[p] EXCEPT !.left = Window] ELSE bucket[p]

\* A bug to detect: the count starts again, the end of the window does not.
FreshBucketNoEnd(p) ==
    IF bucket[p].left = 0 THEN NoBucket ELSE bucket[p]

\* "now >= reset_at", and a bucket that does not exist yet.
FreshBucket(p) ==
    IF bucket[p].left = 0 THEN [count |-> 0, left |-> Window] ELSE bucket[p]

CountInMemory(p) ==
    /\ CheckAt(p, "memory")
    /\ bucket' = [bucket EXCEPT ![p] = [FreshBucket(p) EXCEPT
                                          !.count = OneMore(@)]]
    /\ Counted(p, bucket'[p].count)
    /\ Finish(p)
    /\ UNCHANGED <<counter, orphaned, client>>

-----------------------------------------------------------------------------

\* The process dies, and a new one takes its place with empty memory.
ProcessDies(p) ==
    /\ orphaned' = (orphaned \/ CheckAt(p, "expire"))
    /\ client' = [client EXCEPT ![p] = NotConnected]
    /\ bucket' = [bucket EXCEPT ![p] = NoBucket]
    /\ Finish(p)
    /\ passed' = IF p = watched THEN << >> ELSE passed
    /\ UNCHANGED counter

CountDown(left) == IF left > 0 THEN left - 1 ELSE left

\* The ages a second later: the oldest come first, and those of a window or
\* more are left out.
Older(ages) ==
    LET young == {i \in DOMAIN ages : ages[i] + 1 < Window}
        first == CHOOSE i \in young : \A j \in young : i <= j
    IN  IF young = {} THEN << >>
        ELSE [i \in 1 .. Len(ages) - first + 1 |-> ages[first + i - 1] + 1]

\* A second passes; a Redis key whose time is up is gone.
Tick ==
    /\ counter' = IF counter.left = 1 THEN NoCounter
                  ELSE [counter EXCEPT !.left = CountDown(@)]
    /\ client' = [p \in Processes |->
                    [client[p] EXCEPT !.wait = CountDown(@)]]
    /\ bucket' = [p \in Processes |->
                    [bucket[p] EXCEPT !.left = CountDown(@)]]
    /\ passed' = Older(passed)
    /\ UNCHANGED <<orphaned, check>>

Check(p) ==
    \/ Incr(p)
    \/ IncrFails(p)
    \/ Expire(p)
    \/ ExpireFails(p)
    \/ Ttl(p)
    \/ TtlFails(p)
    \/ CountInMemory(p)

Next ==
    /\ \/ \E p \in Processes : Arrive(p) \/ Check(p) \/ ProcessDies(p)
       \/ Tick
    /\ UNCHANGED watched

\* Time passes, and a process goes on with the request it serves.
Fairness ==
    /\ WF_vars(Tick /\ UNCHANGED watched)
    /\ \A p \in Processes : WF_vars(Check(p) /\ UNCHANGED watched)

Spec == Init /\ [][Next]_vars

FairSpec == Spec /\ Fairness

-----------------------------------------------------------------------------
\* Counters, buckets, clients and calls are well formed.
TypeOK ==
    /\ counter \in [count : Counts, left : 0 .. Window \cup {NoExpiry}]
    /\ orphaned \in BOOLEAN
    /\ client \in [Processes -> [connected : BOOLEAN, wait : 0 .. BackOff]]
    /\ bucket \in [Processes -> [count : Counts, left : 0 .. Window]]
    /\ check \in [Processes -> Steps]
    /\ watched \in Stores
    /\ passed \in Seq(0 .. Window - 1)

\* In no stretch of one window does a store let twice the limit pass.  The
\* window of enforce_rate_limit is fixed: a client that fills the end of one
\* and the start of the next passes more than Limit requests in a stretch.
\* But a window starts with a request, and two starts are never less than a
\* window apart, whatever commands fail, come late or are carried out without
\* an answer.
NeverTwiceTheLimit == Len(passed) < 2 * Limit

\* When a process's own memory would refuse the next request, Limit requests
\* passed it within the last window: at the very second the window ends the
\* client is served again.
RefusalIsEarned ==
    watched \in Processes /\ FreshBucket(watched).count >= Limit =>
        Len(passed) >= Limit

\* A client that Redis refuses is served again, however often it tries and
\* whatever the processes do, unless the one EXPIRE of its key was lost.
LimitLifts == counter.count > Limit ~> counter.count = 0 \/ orphaned

-----------------------------------------------------------------------------
\* The strengthening that makes the properties above inductive.

OldestFirst ==
    \A i, j \in DOMAIN passed : i < j => passed[j] <= passed[i]

\* How many requests of the window were counted as within the limit.
Within(count) == IF count < Limit THEN count ELSE Limit

\* A key is in Redis as long as it has a count.
RedisKeyIsSound == counter.count = 0 <=> counter.left = 0

\* A store's window: its count and the seconds that are left of it.
WindowOf(s) == IF s = Redis THEN counter ELSE bucket[s]

IsOpen(w) == w.left # 0

\* Before a window there were fewer requests than the limit.  In the window,
\* the k oldest requests that passed are as old as the window, the others are
\* fewer than it has counted: its first request is among the k, or did not pass.
FewPassed(w, ages) ==
    IF IsOpen(w)
    THEN /\ Len(ages) < Limit + Within(w.count)
         /\ \E k \in 0 .. Len(ages) :
               /\ Len(ages) - k < Within(w.count)
               /\ w.left # NoExpiry =>
                     \A i \in 1 .. k : ages[i] + w.left >= Window
    ELSE Len(ages) < Limit

\* The requests that the window has counted are all still there.
AllPassed(w, ages) ==
    IsOpen(w) =>
        \E k \in 0 .. Len(ages) :
            /\ Len(ages) - k >= Within(w.count)
            /\ \A i \in k + 1 .. Len(ages) : ages[i] + w.left <= Window

RateInv ==
    /\ TypeOK
    /\ OldestFirst
    /\ RedisKeyIsSound
    /\ FewPassed(WindowOf(watched), passed)
    /\ watched \in Processes => AllPassed(bucket[watched], passed)

=============================================================================
