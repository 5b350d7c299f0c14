---------------------------- MODULE RequestData ----------------------------
(***************************************************************************)
(* What a form request carries once it is validated and its key is         *)
(* resolved: opaque values, compared for equality and nothing else.        *)
(***************************************************************************)

CONSTANTS
    Keys,       \* idempotency keys, sanitized and scoped, and the task ids
                \* that stand in for them where a request has none
    NoKey,      \* no key: the argument None, the column NULL
    Payloads    \* validated (first_name, last_name, email)

ASSUME RequestDataAssumption == NoKey \notin Keys

MaybeKeys == Keys \cup {NoKey}

=============================================================================
