----------------------------- MODULE FormPages -----------------------------
(***************************************************************************)
(* The POST routes of flask_app and fastapi_app, and the visitors who use  *)
(* them: a browser shows a form with a hidden idempotency key, sends it,   *)
(* possibly again before the answer is there, and shows the page that      *)
(* answers the latest POST, with the same key in it or a fresh one; a      *)
(* program sends a key of its own in a header.  Behind the routes run the  *)
(* services, the queue and the workers as in FormService.                  *)
(***************************************************************************)
EXTENDS FormService, ClientKeys, FiniteSets

CONSTANTS
    App,        \* "flask" or "fastapi"
    Visitors,
    Browsers,   \* the visitors who post the form of a page
    Address,    \* of a visitor, its network address
    Header,     \* of a visitor, the header Idempotency-Key it sends, or NoKey
    Payload,    \* of a visitor, what it submits, the same on every try
    Sender,     \* of a request, the visitor it is for.  Bound: a visitor
                \* reaches the services no more often than it has requests
    MaxEvents   \* bound: how many POSTs reach the services and how often the
                \* clock moves, together

ASSUME FormPagesAssumption ==
    /\ App \in {"flask", "fastapi"}
    /\ Browsers \subseteq Visitors
    /\ Address \in [Visitors -> Addresses]
    /\ ScopedKeys \cup {NoKey} \subseteq RequestKeys
    /\ Payload \in [Visitors -> Payloads]
    /\ Sender \in [WebRequests -> Visitors]
    /\ MaxEvents \in Nat

VARIABLES
    page,       \* for each visitor, its form and the POST it waits for
    issued,     \* keys that generate_idempotency_key has returned
    renewed     \* for each visitor, the answers that came with a fresh key
                \* (history)

pages == <<page, issued, renewed>>

pagesVars == <<vars, pages>>

Nothing == "nothing"

NoPage == [key |-> NoKey, sent |-> NoKey, waits |-> Nothing]

PagesInit ==
    /\ Init
    /\ page = [v \in Visitors |-> NoPage]
    /\ issued = {}
    /\ renewed = [v \in Visitors |-> {}]

-----------------------------------------------------------------------------

Client(v) == TrustedClientIdentifier(ViaNginx(Address[v]))

\* generate_idempotency_key: a uuid4, never one that was returned before.
FreshKey(key) == key \in RawKeys \ issued /\ issued' = issued \cup {key}

\* The GET of a form page.
OpenForm(v) ==
    /\ v \in Browsers
    /\ page[v] = NoPage
    /\ \E key \in RawKeys :
          FreshKey(key) /\ page' = [page EXCEPT ![v].key = key]
    /\ UNCHANGED <<vars, renewed>>

\* The keys a visitor can send: the one in its form, the one it sent last
\* (the page is reloaded, or left with the back button), none from a program.
FormKeys(v) ==
    IF v \in Browsers THEN {page[v].key, page[v].sent} \ {NoKey} ELSE {NoKey}

\* The route hands a POST to the service.
HandToService(r, key, payload) ==
    IF r \in Tasks
    THEN Arrive(r, key, payload) /\ UNCHANGED <<store, workers, sync>>
    ELSE ArriveSync(r, key, payload)
         /\ UNCHANGED <<taskStatus, broker, workers, desk>>

Events == Cardinality({r \in WebRequests : ~Idle(r)}) + now

Post(v) ==
    /\ Events < MaxEvents
    /\ \E r \in WebRequests, form \in FormKeys(v) :
          /\ Sender[r] = v
          /\ Idle(r)
          /\ HandToService(r, Scoped(Resolved(Header[v], form), Client(v)),
                           Payload[v])
          /\ page' = [page EXCEPT ![v].sent = form, ![v].waits = r]
    /\ UNCHANGED <<issued, renewed>>

-----------------------------------------------------------------------------
\* Pages that answer a POST.

\* A bug to detect: the page that says "still being processed" has a new key.
RenewsOnEveryError(answer) ==
    answer \in {"too_many", "invalid", "mismatch", "unavailable", "in_flight"}

\* The answers whose page carries a fresh key: 429, 400, 422 and 503.  In
\* fastapi_app, _context puts one into every page, so also on 409.
RenewsKey(answer) ==
    \/ answer \in {"too_many", "invalid", "mismatch", "unavailable"}
    \/ answer = "in_flight" /\ App = "fastapi"

\* The form as the page that answers has it.  On success (a redirect) and on
\* an unhandled error there is no form of this submission on the page: the
\* visitor can only go back to the old one.
ShowPage(v, form, answer) ==
    IF RenewsKey(answer) /\ v \in Browsers
    THEN /\ \E key \in RawKeys :
               /\ FreshKey(key)
               /\ page' = [page EXCEPT ![v] = [key |-> key, sent |-> form,
                                               waits |-> Nothing]]
         /\ renewed' = [renewed EXCEPT ![v] = @ \cup {answer}]
    ELSE /\ page' = [page EXCEPT ![v].waits = Nothing,
                                 ![v].key = IF answer = "in_flight"
                                               /\ v \in Browsers
                                            THEN Resolved(Header[v], form)
                                            ELSE @]
         /\ UNCHANGED <<issued, renewed>>

\* The answer to the latest POST is there.
ReceiveAnswer(v) ==
    /\ page[v].waits # Nothing
    /\ Answered(page[v].waits)
    /\ ShowPage(v, page[v].sent, AnswerTo(page[v].waits))
    /\ UNCHANGED vars

\* A POST that does not get as far as the key: over the rate limit, or with
\* fields that do not validate (which the visitor then corrects).
TurnedAway(v) ==
    /\ v \in Browsers
    /\ \E form \in FormKeys(v), answer \in {"too_many", "invalid"} :
          ShowPage(v, form, answer)
    /\ UNCHANGED vars

-----------------------------------------------------------------------------

\* The services go on with the requests that were handed to them.

AsyncGoesOn(t) ==
    RequestStep(t) /\ UNCHANGED <<store, workers, sync, pages>>

SyncGoesOn(s) ==
    SyncStep(s) /\ UNCHANGED <<taskStatus, broker, workers, desk, pages>>

WorkerGoesOn(w) == WorkerRuns(w) /\ UNCHANGED pages

TimePasses ==
    /\ Events < MaxEvents
    /\ PassTime
    /\ UNCHANGED pages

\* Nothing is left to run and nobody waits.  Any other state without a
\* successor is a deadlock.
PagesDone ==
    /\ \A r \in WebRequests : Idle(r) \/ Answered(r)
    /\ queue = {}
    /\ \A w \in Workers : Doing(w, "idle")
    /\ UNCHANGED pagesVars

PagesNext ==
    \/ \E v \in Visitors :
          OpenForm(v) \/ Post(v) \/ ReceiveAnswer(v) \/ TurnedAway(v)
    \/ \E t \in Tasks : AsyncGoesOn(t)
    \/ \E s \in SyncRequestIds : SyncGoesOn(s)
    \/ \E w \in Workers : WorkerGoesOn(w)
    \/ TimePasses
    \/ PagesDone

PagesSpec == PagesInit /\ [][PagesNext]_pagesVars

-----------------------------------------------------------------------------
\* A page shows a key that was issued, unless a visitor sends one of its own.
PagesOK ==
    /\ LET shown == issued \cup {NoKey}
                    \cup {Sanitized(Header[v]) : v \in Visitors}
       IN  page \in [Visitors -> [key : shown, sent : shown,
                                  waits : WebRequests \cup {Nothing}]]
    /\ issued \subseteq RawKeys
    /\ renewed \in [Visitors -> SUBSET {"too_many", "invalid", "mismatch",
                                        "unavailable", "in_flight"}]
    /\ App = "flask" => \A v \in Visitors : "in_flight" \notin renewed[v]

\* The services' state, and every page, is well formed.
PagesTypeOK == TypeOK /\ PagesOK

\* One form that a visitor posts twice, reloads, leaves and comes back to, or
\* sends again after any answer, error or crash, is saved once within the
\* lifetime of its key, unless a page that turned the visitor away (429, 400)
\* or could not reach the queue (503) put a fresh key into the form.
OneRowPerForm ==
    \A i, j \in Ids :
        LET visitor == Sender[submissions[i].origin]
        IN  /\ i < j
            /\ Sender[submissions[j].origin] = visitor
            /\ visitor \in Browsers
            /\ submissions[j].created < submissions[i].created + TTL
            => renewed[visitor] \cap {"too_many", "invalid", "unavailable"} # {}

\* "Two clients that pick the same key get two independent requests": whoever
\* is told that its key was used before, or is given another request's task,
\* meets a request from its own address.
ClientsApart ==
    \A r \in WebRequests :
        Answered(r) /\ AnswerTo(r) \in {"replayed", "mismatch", "in_flight"} =>
            \E other \in WebRequests \ {r} :
                /\ ~Idle(other)
                /\ Address[Sender[other]] = Address[Sender[r]]

-----------------------------------------------------------------------------
\* The strengthening that makes the properties above inductive.

\* A browser whose requests carry the key in its form.
SendsFormKey(v) == v \in Browsers /\ Sanitized(Header[v]) = NoKey

\* Raw keys that a visitor's requests came with, and these together with those
\* that its page shows or has sent.
SentKeys(v) ==
    {raw \in RawKeys :
        \E r \in WebRequests :
            Sender[r] = v /\ ~Idle(r) /\ KeyOf(r) = Scoped(raw, Client(v))}

KnownKeys(v) == ({page[v].key, page[v].sent} \ {NoKey}) \cup SentKeys(v)

PagesWaitForTheirOwn ==
    \A v \in Visitors :
        page[v].waits # Nothing =>
            Sender[page[v].waits] = v /\ ~Idle(page[v].waits)

\* What a request carries is its visitor's.
RequestsComeFromPages ==
    \A r \in WebRequests :
        ~Idle(r) =>
            LET v == Sender[r]
            IN  /\ PayloadOf(r) = Payload[v]
                /\ v \in Browsers => page[v].sent # NoKey
                /\ KeyOf(r) \in {Scoped(raw, Client(v)) :
                                   raw \in RawKeys \cup {NoKey}}
                /\ IF Sanitized(Header[v]) # NoKey
                   THEN KeyOf(r) = Scoped(Header[v], Client(v))
                   ELSE KeyOf(r) # NoKey <=> v \in Browsers

\* The keys of the forms are given out once.
KeysAreApart ==
    \A v \in Visitors :
        SendsFormKey(v) =>
            /\ KnownKeys(v) \subseteq issued
            /\ \A u \in Visitors \ {v} :
                  SendsFormKey(u) => KnownKeys(u) \cap KnownKeys(v) = {}

\* Nobody at the address of such a browser sends a key of its own.
NoHeaderNextToForms ==
    \A u, v \in Visitors :
        SendsFormKey(v) /\ Address[u] = Address[v] =>
            Sanitized(Header[u]) = NoKey

\* A form keeps its key as long as no page has renewed it.
FormsKeepTheirKey ==
    App = "flask" /\ NoHeaderNextToForms =>
        \A v \in Visitors :
            SendsFormKey(v) =>
                /\ "mismatch" \notin renewed[v]
                /\ renewed[v] = {} => \A a, b \in KnownKeys(v) : a = b

\* With ServiceInv and CauseInv, which FormService keeps.
PagesInv ==
    /\ PagesOK
    /\ PagesWaitForTheirOwn
    /\ RequestsComeFromPages
    /\ KeysAreApart
    /\ FormsKeepTheirKey

=============================================================================
