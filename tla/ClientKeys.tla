----------------------------- MODULE ClientKeys -----------------------------
(***************************************************************************)
(* From whom a form request comes and under which idempotency key it is    *)
(* handled: trusted_client_identifier of shared/rate_limit.py, the key     *)
(* functions of shared/idempotency.py and the headers that nginx sets.     *)
(* Pure operators.                                                         *)
(***************************************************************************)
EXTENDS RequestData, Integers, Sequences

CONSTANTS
    RawKeys,    \* key values as clients send them that match the key pattern
    Addresses,  \* network addresses of clients
    Proxy       \* the address of nginx

Unset == "unset"        \* a header that is missing or blank

\* No address is empty, and NoKey (None) is no string.
ASSUME ClientKeysAssumption ==
    /\ Unset \notin Addresses
    /\ NoKey \notin RawKeys
    /\ \A client \in Addresses, raw \in RawKeys : NoKey # <<client, raw>>

\* nginx.conf, both locations: what the application sees of a client's request.
\* Headers of these names that the client sent itself are replaced.
ViaNginx(address) ==
    [x_real_ip |-> address, x_forwarded_for |-> <<address>>,
     remote_addr |-> Proxy]

FirstHop(hops) == IF hops = << >> THEN Unset ELSE Head(hops)

\* A bug to detect: the socket's peer is taken for the client.
PeerAddress(seen) == seen.remote_addr

\* The first of three values that is given.
TrustedClientIdentifier(seen) ==
    LET values == <<seen.x_real_ip, FirstHop(seen.x_forwarded_for),
                    seen.remote_addr>>
        given == {i \in 1 .. 3 : values[i] # Unset}
    IN  IF given = {} THEN "unknown"
        ELSE values[CHOOSE i \in given : \A j \in given : i <= j]

-----------------------------------------------------------------------------

\* A bug to detect: a value is taken as it was sent.
AsSent(value) == value

\* sanitize_idempotency_key: anything that does not match the pattern counts
\* as no key at all.
Sanitized(value) == IF value \in RawKeys THEN value ELSE NoKey

\* resolve_idempotency_key.
Resolved(header, form) ==
    IF Sanitized(header) # NoKey THEN Sanitized(header) ELSE Sanitized(form)

\* scope_idempotency_key: SHA-256 of client and key, taken to be injective.
Scoped(key, client) == IF key = NoKey THEN NoKey ELSE <<client, key>>

ScopedKeys == (Addresses \cup {Proxy}) \X RawKeys

=============================================================================
